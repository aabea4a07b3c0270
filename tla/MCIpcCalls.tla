----------------------------- MODULE MCIpcCalls -----------------------------
(***************************************************************************)
(* IpcCalls with one attribute of every type the tags have, empty arrays,  *)
(* values with bytes in every place and a setter of the wrong type.        *)
(***************************************************************************)
EXTENDS IpcCalls

MCSamples ==
  {<<100001, "uint32", 0>>, <<100001, "uint32", 70000>>, <<100014, "uint64", <<258, 70000>>>>,
   <<100026, "bool", 1>>, <<AUTH_SIGNATURE, "uint8s", <<7, 9>>>>, <<100015, "uint8s", <<>>>>,
   <<100007, "uint64s", <<<<5, 0>>, <<300, 9>>>>>>, <<100007, "uint64s", <<>>>>, <<100028, "uint32", 1>>}
=============================================================================
