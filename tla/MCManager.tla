----------------------------- MODULE MCManager -----------------------------
(* Manager for TLC: the endpoints of a generation are alike.               *)
EXTENDS Manager, TLC

Symmetry == Permutations(Locals)

\* Bound: two of the endpoints are granted, both here or one to the child.
TwoGranted == Cardinality({e \in Endpoints : endpoint[e].holder # "none"}) <= 2
=============================================================================
