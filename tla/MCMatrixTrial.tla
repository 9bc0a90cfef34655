---------------------------- MODULE MCMatrixTrial ----------------------------
(* MatrixTrial for TLC: two consumers, two producers in a closed loop, and one of each. *)
EXTENDS MatrixTrial

Config(p, c, m, w, loop) ==
  [producers |-> p, consumers |-> c, messages |-> m, warmup |-> w, closed |-> loop]
SmallConfigs == {Config(1, 2, 2, 1, FALSE), Config(2, 1, 2, 2, TRUE), Config(1, 1, 3, 1, TRUE)}
=============================================================================
