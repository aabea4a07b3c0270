----------------------------- MODULE MCUserAuth -----------------------------
(* Instances of UserAuth for TLC. *)
EXTENDS UserAuth, TLC

Symmetry == Permutations(Contexts)
=============================================================================
