--------------------------- MODULE MCThreadGroups ---------------------------
(* Instances of ThreadGroups for TLC. *)
EXTENDS ThreadGroups, TLC

Symmetry == Permutations(Transactions) \cup Permutations(Pools)
=============================================================================
