------------------------------- MODULE Overlay -------------------------------
(***************************************************************************)
(* Functions and records laid over one another.  f ++ g is what TLC's @@   *)
(* makes of f and g; unlike that one it has a definition to reason with.   *)
(***************************************************************************)
f ++ g == [x \in DOMAIN f \cup DOMAIN g |-> IF x \in DOMAIN f THEN f[x] ELSE g[x]]
=============================================================================
