-------------------------- MODULE ClusterContentsMC --------------------------
(* ClusterContents with the symmetries TLC may use.                         *)
EXTENDS ClusterContents, TLC

Symmetry == Permutations(Users) \cup Permutations(Resources) \cup Permutations(Prefixes)
=============================================================================
