------------------------------ MODULE JsUserIdm ------------------------------
(***************************************************************************)
(* The JavaScript binding of user_idm: the functions of                    *)
(* UserIdentityManager, and the callback objects IIdmCallback and          *)
(* GetInfoCallbackIDM that its async works give to UserIDMClient.          *)
(***************************************************************************)
EXTENDS JsCalls

ObjectMethods == {"addCredential", "updateCredential", "delUser", "delCred"}
UserIdmMethods == ObjectMethods \cup {"openSession", "closeSession", "cancel", "getAuthInfo"}

----------------------------------------------------------------------------
(* The arguments. *)

IsFunction(args, i) == i \in DOMAIN args /\ args[i] = "function"

\* Only an object gives the context its env, without which an answer finds no loop; an array is an
\* object too, but has no functions to refer to.
SaveCallback(args, i) ==
  CASE i \in DOMAIN args /\ args[i] = "callbacks"                    -> "callbacks"
    [] i \in DOMAIN args /\ args[i] \in {"uint8Array", "emptyArray"} -> "silent"
    [] OTHER                                                         -> "noEnv"

\* The bytes of an array argument; anything else is the one byte 0.
JudgeArrayType(args, i) ==
  CASE i \in DOMAIN args /\ args[i] = "uint8Array" -> 8
    [] i \in DOMAIN args /\ args[i] = "emptyArray" -> 0
    [] OTHER                                       -> 1

JudgeDelUserType(args) == SaveCallback(args, 2)

JudgeDelCredType(args) ==
  IF JudgeArrayType(args, 1) = 0 \/ JudgeArrayType(args, 2) = 0 THEN "noEnv" ELSE SaveCallback(args, 3)

----------------------------------------------------------------------------
(* The functions. *)

OpenSession(c) ==
  /\ Starts(c, "openSession")
  /\ \E args \in ArgumentLists(1) :
       QueueAsyncWork(c, "openSession", IF IsFunction(args, Len(args)) THEN "callback" ELSE "promise")

\* openSession has no callback object: its Complete tells what the library returned to its Execute.
OpenSessionComplete(c) ==
  /\ js = "free" /\ call[c].pc = "completing" /\ call[c].method = "openSession"
  /\ Become(c, [pc |-> "done", told |-> <<[by |-> call[c].form, code |-> "SUCCESS"]>>,
                refs |-> {}, context |-> "deleted", freed |-> 1])
  /\ UNCHANGED <<js, works>>

JudgeObjectType(c, m, args) ==
  IF Len(args) # 2 THEN Refuse(c, m) ELSE QueueAsyncWork(c, m, SaveCallback(args, 2))

AddCredential(c) ==
  /\ Starts(c, "addCredential")
  /\ \E args \in ArgumentLists(2) : JudgeObjectType(c, "addCredential", args)

UpdateCredential(c) ==
  /\ Starts(c, "updateCredential")
  /\ \E args \in ArgumentLists(2) : JudgeObjectType(c, "updateCredential", args)

DelUser(c) ==
  /\ Starts(c, "delUser")
  /\ \E args \in ArgumentLists(2) : QueueAsyncWork(c, "delUser", JudgeDelUserType(args))

\* Execute reads 8 bytes of the first array, shorter ones past their end.
DelCred(c) ==
  /\ Starts(c, "delCred")
  /\ \E args \in ArgumentLists(3) :
       /\ JudgeArrayType(args, 1) # 0
       /\ QueueAsyncWork(c, "delCred", JudgeDelCredType(args))

CloseSession(c) == Starts(c, "closeSession") /\ CallWithout(c, "closeSession")

Cancel(c) ==
  /\ Starts(c, "cancel")
  /\ \E args \in ArgumentLists(1) :
       IF JudgeArrayType(args, 1) < 8 THEN Refuse(c, "cancel") ELSE CallWithout(c, "cancel")

\* With no argument, what argv[0] holds is the runtime's choice: undefined, or nothing, which is refused.
GetAuthInfo(c) ==
  /\ Starts(c, "getAuthInfo")
  /\ \E args \in ArgumentLists(2) :
       \/ QueueAsyncWork(c, "getAuthInfo", IF IsFunction(args, Len(args)) THEN "callback" ELSE "promise")
       \/ args = <<>> /\ Refuse(c, "getAuthInfo")

----------------------------------------------------------------------------
(* The callback objects, on the client library's thread. *)

OnResult(c, code) ==
  /\ call[c].method \in ObjectMethods
  /\ \/ call[c].context # "callback" /\ IgnoreResult(c, code)
     \/ /\ call[c].context = "callback" /\ call[c].form = "noEnv"
        /\ Become(c, [context |-> "deleted", freed |-> 1, answers |-> Append(call[c].answers, code)])
        /\ UNCHANGED works
     \/ call[c].context = "callback" /\ call[c].form # "noEnv" /\ QueueResult(c, code)

OnAcquireInfo(c) ==
  /\ call[c].method \in ObjectMethods
  /\ IF call[c].context = "callback" /\ call[c].form # "noEnv" THEN QueueTip(c) ELSE IgnoreTip(c)

OnGetInfo(c) == call[c].method = "getAuthInfo" /\ TakeResult(c, "SUCCESS")

(* The uv works, on the JS thread. *)

OnResultWork(w) == w.kind = "result" /\ call[w.call].method \in ObjectMethods /\ TellOnResult(w)

OnAcquireInfoWork(w) == w.kind = "tip" /\ call[w.call].method \in ObjectMethods /\ TellTip(w)

\* Mutant: the reference to the callback stays.
OnGetInfoWorkKeepsReference(w) ==
  /\ w.kind = "result" /\ call[w.call].method = "getAuthInfo"
  /\ Become(w.call, [told |-> <<[by |-> call[w.call].form, code |-> "SUCCESS"]>>, context |-> "deleted"])
  /\ works' = works \ {w}
  /\ UNCHANGED js

OnGetInfoWork(w) ==
  /\ w.kind = "result" /\ call[w.call].method = "getAuthInfo"
  /\ TellAndDelete(w, <<[by |-> call[w.call].form, code |-> "SUCCESS"]>>)
=============================================================================
