----------------------------- MODULE JsUserAuth -----------------------------
(***************************************************************************)
(* The JavaScript binding of user_auth: the functions of UserAuthImpl, and *)
(* the callback objects AuthApiCallback, GetPropApiCallback and            *)
(* SetPropApiCallback it gives to UserAuthNative.                          *)
(***************************************************************************)
EXTENDS JsCalls

AuthMethods == {"auth", "authUser"}
PropertyMethods == {"getProperty", "setProperty"}
UserAuthImplMethods ==
  AuthMethods \cup PropertyMethods \cup {"execute", "getVersion", "getAvailableStatus", "cancelAuth"}

----------------------------------------------------------------------------
(* The functions that call the library without a callback. *)

GetVersion(c) == Starts(c, "getVersion") /\ CallWithout(c, "getVersion")

GetAvailableStatus(c) ==
  /\ Starts(c, "getAvailableStatus")
  /\ \E args \in ArgumentLists(2) :
       IF Len(args) = 2 /\ \A i \in 1..2 : args[i] = "number"
       THEN CallWithout(c, "getAvailableStatus")
       ELSE Refuse(c, "getAvailableStatus")

\* The id of a context is eight bytes; whatever else is given counts as 0, and so does the id 0.
GetUint8ArrayTo64(value) == IF value = "uint8Array" THEN {0, 1} ELSE {0}

CancelAuth(c) ==
  /\ Starts(c, "cancelAuth")
  /\ \E value \in Values \ {"emptyArray"} : \E contextId \in GetUint8ArrayTo64(value) :
       IF contextId = 0 THEN Refuse(c, "cancelAuth") ELSE CallWithout(c, "cancelAuth")

----------------------------------------------------------------------------
(* auth and authUser call the library on the JS thread. *)

\* Without an object there are no references, and the answer is told to nobody.
CallbackForm(value) == IF value = "callbacks" THEN "callbacks" ELSE "silent"

BuildAuthInfo(c, argc, last) ==
  IF argc # 4 THEN Refuse(c, "auth") ELSE CallWith(c, "auth", CallbackForm(last))

Auth(c) == Starts(c, "auth") /\ \E argc \in 0..5, last \in Values : BuildAuthInfo(c, argc, last)

BuildAuthUserInfo(c, argc, last) ==
  IF argc # 5 THEN Refuse(c, "authUser") ELSE CallWith(c, "authUser", CallbackForm(last))

AuthUser(c) ==
  Starts(c, "authUser") /\ \E argc \in 0..5, last \in Values : BuildAuthUserInfo(c, argc, last)

----------------------------------------------------------------------------
(* execute: the call of an older interface. *)

ExecuteArguments ==
  {<<>>, <<"function">>} \cup
  {<<type, level>> \o rest : type \in {"FACE_ONLY", "ALL", "text", "number"},
                             level \in {"S1", "text", "number"}, rest \in {<<>>, <<"function">>}}

ParseExecuteParametersZero(type) ==
  CASE type = "FACE_ONLY" -> "SUCCESS"
    [] type = "ALL"       -> "TYPE_NOT_SUPPORT"
    [] OTHER              -> "INVALID_PARAMETERS"

ParseExecuteParametersOne(level) == IF level = "S1" THEN "SUCCESS" ELSE "INVALID_PARAMETERS"

ParseExecuteParameters(args) ==
  CASE Len(args) < 2                                   -> "INVALID_PARAMETERS"
    [] ParseExecuteParametersZero(args[1]) # "SUCCESS" -> ParseExecuteParametersZero(args[1])
    [] OTHER                                           -> ParseExecuteParametersOne(args[2])

\* Bad parameters are answered through the callback object, which then goes with its last reference.
Execute(c) ==
  /\ Starts(c, "execute")
  /\ \E args \in ExecuteArguments :
       LET form == IF args # <<>> /\ args[Len(args)] = "function" THEN "callback" ELSE "promise"
           ret == ParseExecuteParameters(args) IN
       IF ret = "SUCCESS" THEN CallWith(c, "execute", form)
       ELSE /\ Become(c, [pc |-> "done", method |-> "execute", form |-> form, refs |-> RefsOf(form),
                          context |-> "work", result |-> ret, answers |-> <<ret>>])
            /\ works' = works \cup {Work(c, "result")}
            /\ UNCHANGED js

result2ExecuteResult ==
  [SUCCESS |-> "SUCCESS", FAIL |-> "COMPARE_FAILURE", TYPE_NOT_SUPPORT |-> "NO_SUPPORT",
   INVALID_PARAMETERS |-> "INVALID_PARAMETERS", GENERAL_ERROR |-> "GENERAL_ERROR"]

ExecuteResult(code) ==
  IF code \in DOMAIN result2ExecuteResult THEN result2ExecuteResult[code] ELSE "GENERAL_ERROR"

----------------------------------------------------------------------------
(* getProperty and setProperty: a second argument that is no function leaves nobody to tell. *)

PropertyForm(args) ==
  CASE Len(args) < 2         -> "promise"
    [] args[2] = "function"  -> "callback"
    [] OTHER                 -> "silent"

GetProperty(c) ==
  /\ Starts(c, "getProperty")
  /\ \E args \in ArgumentLists(2) : QueueAsyncWork(c, "getProperty", PropertyForm(args))

SetProperty(c) ==
  /\ Starts(c, "setProperty")
  /\ \E args \in ArgumentLists(2) : QueueAsyncWork(c, "setProperty", PropertyForm(args))

----------------------------------------------------------------------------
(* The callback objects, on the client library's thread. *)

AuthCallbackMethods == AuthMethods \cup {"execute"}

OnUserAuthResult(c, code) == call[c].method = "authUser" /\ TakeResult(c, code)

OnAuthResult(c, code) == call[c].method = "auth" /\ TakeResult(c, code)

OnExecuteResult(c, code) == call[c].method = "execute" /\ TakeResult(c, code)

onResult(c, code) == OnUserAuthResult(c, code) \/ OnAuthResult(c, code) \/ OnExecuteResult(c, code)

\* Mutant: a tip is queued whether the context is still there or not.
onAcquireInfoUnchecked(c) ==
  /\ call[c].method \in AuthCallbackMethods
  /\ IF call[c].method # "execute" THEN QueueTip(c) ELSE IgnoreTip(c)

onAcquireInfo(c) ==
  /\ call[c].method \in AuthCallbackMethods
  /\ IF call[c].method # "execute" /\ call[c].context = "callback" THEN QueueTip(c) ELSE IgnoreTip(c)

onGetProperty(c, code) == call[c].method = "getProperty" /\ TakeResult(c, code)

onSetProperty(c, code) == call[c].method = "setProperty" /\ TakeResult(c, code)

\* ~AuthApiCallback deletes a context it still owns; the destructors of the others leave theirs.
Destroyed(k) ==
  IF k.method \in AuthCallbackMethods /\ k.context = "callback"
  THEN [context |-> "deleted", refs |-> {}, freed |-> k.freed + 1]
  ELSE [context |-> k.context]

----------------------------------------------------------------------------
(* The uv works, on the JS thread. *)

OnUserAuthResultWork(w) == w.kind = "result" /\ call[w.call].method = "authUser" /\ TellOnResult(w)

OnAuthResultWork(w) == w.kind = "result" /\ call[w.call].method = "auth" /\ TellOnResult(w)

OnAuthAcquireInfo(w) == w.kind = "tip" /\ call[w.call].method \in AuthMethods /\ TellTip(w)

OnExecuteResultWork(w) ==
  LET k == call[w.call]
      code == ExecuteResult(k.result) IN
  /\ w.kind = "result" /\ k.method = "execute"
  /\ TellAndDelete(w, <<[by |-> IF k.form = "promise" /\ code # "SUCCESS" THEN "reject" ELSE k.form,
                         code |-> code]>>)

\* Tells the callback, or else resolves the promise, which a silent call has not got.
TellProperty(w) ==
  LET k == call[w.call] IN
  TellAndDelete(w, IF k.form = "silent" THEN <<>> ELSE <<[by |-> k.form, code |-> k.result]>>)

\* Mutant: only a callback is told.
GetPropertyInfoCallbackNoPromise(w) ==
  LET k == call[w.call] IN
  /\ w.kind = "result" /\ k.method = "getProperty"
  /\ TellAndDelete(w, IF k.form # "callback" THEN <<>> ELSE <<[by |-> k.form, code |-> k.result]>>)

GetPropertyInfoCallback(w) == w.kind = "result" /\ call[w.call].method = "getProperty" /\ TellProperty(w)

SetExecutorPropertyCallback(w) == w.kind = "result" /\ call[w.call].method = "setProperty" /\ TellProperty(w)
=============================================================================
