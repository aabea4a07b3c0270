----------------------------- MODULE JsBindings -----------------------------
(***************************************************************************)
(* Both JavaScript bindings in one process: calls of user_idm and          *)
(* user_auth share the JS thread, the workers and the queue of uv works.   *)
(***************************************************************************)
EXTENDS JsUserIdm, JsUserAuth

Init ==
  /\ js = "free"
  /\ call = [c \in Calls |-> Fresh]
  /\ works = {}

UserIdmFunction(c) ==
  \/ OpenSession(c) \/ CloseSession(c) \/ Cancel(c) \/ GetAuthInfo(c)
  \/ AddCredential(c) \/ UpdateCredential(c) \/ DelUser(c) \/ DelCred(c)

UserAuthFunction(c) ==
  \/ GetVersion(c) \/ GetAvailableStatus(c) \/ CancelAuth(c)
  \/ Auth(c) \/ AuthUser(c) \/ Execute(c) \/ GetProperty(c) \/ SetProperty(c)

\* A worker runs the Execute of an async work: it makes the callback object and calls the library.
WorkerExecutes(c) ==
  /\ call[c].pc = "queued"
  /\ Become(c, IF call[c].method = "openSession" THEN [pc |-> "executing"]
               ELSE [pc |-> "executing", context |-> "callback", library |-> "holds"])
  /\ UNCHANGED <<js, works>>

\* The library's function returns; a callback object it has dropped goes with its caller's reference.
LibraryReturns(c) ==
  LET k == call[c] IN
  /\ k.pc \in {"executing", "calling"}
  /\ Become(c, [pc |-> IF k.pc = "executing" THEN "completing" ELSE "done"] ++
               IF k.library = "dropped" THEN Destroyed(k) ELSE [context |-> k.context])
  /\ js' = IF k.pc = "calling" THEN "free" ELSE js
  /\ UNCHANGED works

LibraryAnswers(c, code) ==
  /\ call[c].library = "holds" /\ Len(call[c].answers) < MaxAnswers
  /\ \/ OnResult(c, code) \/ (code = "SUCCESS" /\ OnGetInfo(c))
     \/ onResult(c, code) \/ onGetProperty(c, code) \/ onSetProperty(c, code)
  /\ UNCHANGED js

LibraryReports(c) ==
  /\ call[c].library = "holds" /\ call[c].tips < MaxTips
  /\ OnAcquireInfo(c) \/ onAcquireInfo(c)
  /\ UNCHANGED js

LibraryDrops(c) ==
  /\ call[c].library = "holds"
  /\ Become(c, [library |-> "dropped"] ++
               IF call[c].pc \in {"executing", "calling"} THEN [context |-> call[c].context]
               ELSE Destroyed(call[c]))
  /\ UNCHANGED <<js, works>>

\* The loop of the JS thread takes up any uv work that is done.
Loop(w) ==
  /\ js = "free"
  /\ \/ OnResultWork(w) \/ OnAcquireInfoWork(w) \/ OnGetInfoWork(w)
     \/ OnUserAuthResultWork(w) \/ OnAuthResultWork(w) \/ OnAuthAcquireInfo(w) \/ OnExecuteResultWork(w)
     \/ GetPropertyInfoCallback(w) \/ SetExecutorPropertyCallback(w)

Next ==
  \/ \E c \in Calls :
       \/ UserIdmFunction(c) \/ UserAuthFunction(c)
       \/ WorkerExecutes(c) \/ OpenSessionComplete(c) \/ Complete(c)
       \/ LibraryReturns(c) \/ LibraryReports(c) \/ LibraryDrops(c)
       \/ \E code \in Codes : LibraryAnswers(c, code)
  \/ \E w \in works : Loop(w)

\* The workers, the loop and the functions of the library (ClientIpc!CallsReturn) make progress.
Fairness ==
  /\ \A c \in Calls : WF_vars(WorkerExecutes(c)) /\ WF_vars(LibraryReturns(c))
  /\ \A c \in Calls : WF_vars(OpenSessionComplete(c)) /\ WF_vars(Complete(c))
  /\ \A c \in Calls : WF_vars(\E w \in works : w.call = c /\ Loop(w))

Spec == Init /\ [][Next]_vars /\ Fairness

----------------------------------------------------------------------------
(* Properties *)

\* JavaScript hears at most one answer to a call, and it is the first that the library gave, whatever
\* comes after it; and no context is deleted twice (OnResult takes the context under the mutex, the
\* others when they queue the uv work).
HearsFirstAnswer ==
  \A c \in Calls :
    /\ call[c].freed <= 1 /\ Len(call[c].told) <= 1
    /\ call[c].told # <<>> /\ call[c].answers # <<>> =>
         call[c].told[1].code = IF call[c].method = "execute" THEN ExecuteResult(call[c].answers[1])
                                ELSE call[c].answers[1]

\* A queued uv work finds what it will use: a result its context; a tip the reference to onAcquireInfo,
\* unless the answer has overtaken it in the queue or the callback object went unanswered
\* (OnAcquireInfoWork and OnAuthAcquireInfo use a copy of the reference that they do not own).
WorksFindTheirContext ==
  \A w \in works :
    LET k == call[w.call] IN
    /\ w.kind = "result" => k.context = "work"
    /\ w.kind = "tip" /\ k.form = "callbacks" /\ "onAcquireInfo" \notin k.refs =>
         \/ k.told # <<>> /\ w.answers = 0
         \/ k.library = "dropped" /\ k.answers = <<>>

\* Once the library has answered, JavaScript is told (by the callback or the promise that the arguments
\* of the call allow), even if the JS thread was inside another call when the answer came.
AnsweredIsTold ==
  \A c \in Calls : (call[c].answers # <<>> /\ call[c].form \in {"callbacks", "callback", "promise"})
                     ~> (call[c].told # <<>>)

\* The context of a call and its references to JS functions are deleted in the end: once the library
\* has answered, or has dropped the callback object of auth, authUser or execute.
NothingLeaks ==
  \A c \in Calls :
    (call[c].answers # <<>> \/ (call[c].library = "dropped" /\ call[c].method \in AuthCallbackMethods))
      ~> (call[c].context = "deleted" /\ call[c].refs = {})
=============================================================================
