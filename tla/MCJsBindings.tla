---------------------------- MODULE MCJsBindings ----------------------------
(* Two calls: any function of either binding, and beside it one that holds the JS thread or a worker. *)
EXTENDS JsBindings

CONSTANTS c1, c2

MCCalls == {c1, c2}
MCMethodsOf == [c \in MCCalls |-> IF c = c1 THEN UserIdmMethods \cup UserAuthImplMethods ELSE {"cancelAuth", "openSession"}]
=============================================================================
