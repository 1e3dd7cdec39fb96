--------------------------- MODULE MCSessionNodes ---------------------------
(* A few nodes of each kind on the session interface. *)
EXTENDS SessionNodes, TLC

Symmetry == Permutations(Ids) \cup Permutations(Nodes)
=============================================================================
