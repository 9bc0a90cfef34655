---------------------------- MODULE MCLifecycle ----------------------------
(* Lifecycle for TLC: the endpoints of an object are alike, and so are the *)
(* deliveries of a grant.                                                  *)
EXTENDS Lifecycle, TLC

Symmetry == Permutations(Endpoints) \cup Permutations(Copies)

\* Bound: of two grants delivered twice, three deliveries are attached.
ThreeAttached == Cardinality({c \in Conns : conn[c].pc # "none"}) <= 3
=============================================================================
