------------------------------- MODULE MCNcq -------------------------------
(* Small instances of Ncq for TLC.                                         *)
EXTENDS Ncq, TLC

\* Endpoints of one role run the same code and no property tells them apart.
Symmetry == Permutations(Producers) \cup Permutations(Consumers)

\* Bound: once a block has been returned, nothing follows it into QF.
OneReturned == tail["QF"] <= N + 1
=============================================================================
