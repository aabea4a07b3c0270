----------------------------- MODULE MCUserIdm ------------------------------
(* Instances of UserIdm for TLC. *)
EXTENDS UserIdm, TLC

Symmetry == Permutations(Calls)
=============================================================================
