------------------------------ MODULE MCCoAuth ------------------------------
(* Instances of CoAuth for TLC. *)
EXTENDS CoAuth, TLC

\* Both executors are of one type: 2 may be at work when 1 registers.  Nobody
\* registers for the other type, so its place in a list is skipped.
CONSTANTS pin, face

MCAuthTypes == {pin, face}

MCTypeOf == 1 :> pin @@ 2 :> pin
=============================================================================
