------------------------------ MODULE UserAuth ------------------------------
(***************************************************************************)
(* The life of an authentication context in services/user_auth: the IPC    *)
(* thread in Auth or AuthUser, the thread of GROUP_AUTH that is retained   *)
(* for the context and runs OnFinishHandle and OnAcquireInfoHandle, the    *)
(* IPC thread in CancelAuth, and the schedules of the context in co_auth,  *)
(* known here by the contract of module ScheduleContract only.             *)
(***************************************************************************)
EXTENDS Naturals, Sequences, FiniteSets

CONSTANTS
  Contexts,       \* context ids GenerateContextId draws, one per request
  MaxSchedules,   \* bound on the schedules BeginAuthentication returns
  ThreadNum,      \* GROUP_MAX_THREAD_NUM
  OtherThreads,   \* how many of them contexts outside Contexts may hold
  MaxTips,        \* bound on the acquire infos that wait in a thread's queue
  MaxAnswers      \* bound on the answers of a context from which on each schedule
                  \*   answers once only

ASSUME UserAuthAssumption ==
  /\ MaxSchedules \in Nat
  /\ ThreadNum \in Nat \ {0}
  /\ OtherThreads \in Nat
  /\ MaxTips \in Nat
  /\ MaxAnswers \in Nat

VARIABLES
  kind,       \* kind[c]: which of Auth and AuthUser was called
  request,    \* request[c]: where the thread in Auth or AuthUser stands
  scheduleNum,\* scheduleNum[c]: how many schedules GenerateSolution produced
  begun,      \* begun[c]: how many of them CoAuth has passed to BeginSchedule
  contexts_,  \* contexts in UserAuthDataMgr::contexts_
  retains_,   \* contexts that have a thread, and an entry in saveCoAuthCallback_
  status,     \* status[<<c, k>>], told[<<c, k>>]: the k-th schedule of c,
  told,       \*   as ScheduleContract keeps it
  queue,      \* queue[c]: the tasks posted for c that its thread has not begun
  task,       \* task[c]: where the thread stands in OnFinishHandle
  verdict,    \* verdict[c]: resultCode of that task, and whether it has a token
  nowCount,   \* nowCount[c]: callbackNowCount_
  undone,     \* undone[<<c, k>>]: the answers of that schedule which the device
              \*   has taken with E_RET_UNDONE
  done,       \* done[c]: isResultDoneFlag_
  cancel,     \* cancel[c]: where the thread in CancelAuth stands
  results     \* results[c]: what the client's onResult was called with

vars == <<kind, request, scheduleNum, begun, contexts_, retains_, status, told, queue,
          task, verdict, nowCount, undone, done, cancel, results>>

requestVars  == <<kind, request, scheduleNum, begun>>
scheduleVars == <<status, told>>
handledVars  == <<verdict, nowCount, undone>>
taskVars     == <<task, handledVars>>

ScheduleIds == Contexts \X (1..MaxSchedules)

CoAuth == INSTANCE ScheduleContract WITH Schedules <- ScheduleIds

\* coAuthInfo.sessionIds is never filled, so its size is 0.
CallbackCount == 0

FinishCodes == {"SUCCESS", "FAIL", "CANCELED"}

\* What OnFinish is called with: by the executors, because an OnBeginExecute
\* failed, and by the timer.
AnswerCodes == FinishCodes \cup {"ERROR", "TIMEOUT"}

KindOf(code) ==
  IF code = "ERROR" THEN "failure" ELSE IF code = "TIMEOUT" THEN "timeout" ELSE "verdict"

\* An OnFinishHandle, or an OnAcquireInfoHandle, which is of no schedule.
Tip == [code |-> "TIP", schedule |-> 0]

Tasks == [code : AnswerCodes, schedule : 1..MaxSchedules] \cup {Tip}

Results == [code : AnswerCodes \cup {"BUSY"}, token : BOOLEAN]

RequestStates == {"idle", "check", "solve", "save", "begin", "returned", "failed"}

TaskStates == {"idle", "report", "cancel", "delete", "release", "flag"}

CancelStates == {"idle", "device", "schedules", "delete"}

TypeOK ==
  /\ kind \in [Contexts -> {"Auth", "AuthUser"}]
  /\ request \in [Contexts -> RequestStates]
  /\ scheduleNum \in [Contexts -> 0..MaxSchedules]
  /\ begun \in [Contexts -> 0..MaxSchedules]
  /\ contexts_ \in SUBSET Contexts
  /\ retains_ \in SUBSET Contexts
  /\ CoAuth!TypeOK
  /\ queue \in [Contexts -> Seq(Tasks)]
  /\ task \in [Contexts -> TaskStates]
  /\ verdict \in [Contexts -> Results]
  /\ nowCount \in [Contexts -> Nat]
  /\ undone \in [ScheduleIds -> SUBSET CoAuth!Kinds]
  /\ done \in [Contexts -> BOOLEAN]
  /\ cancel \in [Contexts -> CancelStates]
  /\ results \in [Contexts -> Seq(Results)]

Result(code, token) == [code |-> code, token |-> token]

Init ==
  /\ kind \in [Contexts -> {"Auth", "AuthUser"}]
  /\ request = [c \in Contexts |-> "idle"]
  /\ scheduleNum = [c \in Contexts |-> 0]
  /\ begun = [c \in Contexts |-> 0]
  /\ contexts_ = {}
  /\ retains_ = {}
  /\ CoAuth!Init
  /\ queue = [c \in Contexts |-> <<>>]
  /\ task = [c \in Contexts |-> "idle"]
  /\ verdict = [c \in Contexts |-> Result("ERROR", FALSE)]
  /\ nowCount = [c \in Contexts |-> 0]
  /\ undone = [s \in ScheduleIds |-> {}]
  /\ done = [c \in Contexts |-> FALSE]
  /\ cancel = [c \in Contexts |-> "idle"]
  /\ results = [c \in Contexts |-> <<>>]

\* callback_->onResult
OnResult(c, code, token) == results' = [results EXCEPT ![c] = Append(@, Result(code, token))]

RequestTo(c, from, to) ==
  /\ request[c] = from
  /\ request' = [request EXCEPT ![c] = to]

(***************************************************************************)
(* The IPC thread in UserAuthService::Auth and ::AuthUser                  *)
(***************************************************************************)

\* Refused before a context exists: AuthUser's permission check, and the trust
\* level in GetControllerData.
RefuseRequest(c) ==
  /\ RequestTo(c, "idle", "failed")
  /\ OnResult(c, "ERROR", FALSE)
  /\ UNCHANGED <<kind, scheduleNum, begun, contexts_, retains_, scheduleVars, queue, taskVars,
                 done, cancel>>

\* GetControllerData: GenerateContextId and AddContextId.
AddContextId(c) ==
  /\ RequestTo(c, "idle", IF kind[c] = "Auth" THEN "check" ELSE "solve")
  /\ contexts_' = contexts_ \cup {c}
  /\ UNCHANGED <<kind, scheduleNum, begun, retains_, scheduleVars, queue, taskVars, done,
                 cancel, results>>

\* Auth checks the permission and the calling user after the context exists.
CheckCaller(c) ==
  /\ RequestTo(c, "check", "solve")
  /\ UNCHANGED <<kind, scheduleNum, begun, contexts_, retains_, scheduleVars, queue, taskVars,
                 done, cancel, results>>

\* GenerateSolution: BeginAuthentication, and SetScheduleIds with its answer,
\* which may be an empty list.
GenerateSolution(c) ==
  /\ RequestTo(c, "solve", "save")
  /\ \E n \in 0..MaxSchedules : scheduleNum' = [scheduleNum EXCEPT ![c] = n]
  /\ UNCHANGED <<kind, begun, contexts_, retains_, scheduleVars, queue, taskVars, done, cancel,
                 results>>

\* SaveCoAuthCallback: RetainTaskThread, and the entry in saveCoAuthCallback_.
SaveCoAuthCallback(c) ==
  /\ RequestTo(c, "save", "begin")
  /\ Cardinality(retains_) < ThreadNum
  /\ retains_' = retains_ \cup {c}
  /\ UNCHANGED <<kind, scheduleNum, begun, contexts_, scheduleVars, queue, taskVars, done, cancel,
                 results>>

\* The request fails after its context was added: in Auth's checks, in
\* GenerateSolution, or because the group has no thread left.  AuthUser
\* deletes the context, Auth does not.
FailRequest(c) ==
  /\ \/ RequestTo(c, "check", "failed")
     \/ RequestTo(c, "solve", "failed")
     \/ RequestTo(c, "save", "failed") /\ Cardinality(retains_) + OtherThreads >= ThreadNum
  /\ contexts_' = IF kind[c] = "AuthUser" THEN contexts_ \ {c} ELSE contexts_
  /\ OnResult(c, "ERROR", FALSE)
  /\ UNCHANGED <<kind, scheduleNum, begun, retains_, scheduleVars, queue, taskVars, done, cancel>>

\* The loop of UserAuthAdapter::CoAuth.  No schedule is refused outright:
\* CopyScheduleInfo lets none without executors through.
BeginSchedule(c) ==
  /\ request[c] = "begin" /\ begun[c] < scheduleNum[c]
  /\ begun' = [begun EXCEPT ![c] = @ + 1]
  /\ CoAuth!Open(<<c, begun[c] + 1>>)
  /\ UNCHANGED <<kind, request, scheduleNum, contexts_, retains_, queue, taskVars, done, cancel,
                 results>>

\* Only now does the caller learn the context id.
ReturnContextId(c) ==
  /\ begun[c] = scheduleNum[c]
  /\ RequestTo(c, "begin", "returned")
  /\ UNCHANGED <<kind, scheduleNum, begun, contexts_, retains_, scheduleVars, queue, taskVars,
                 done, cancel, results>>

(***************************************************************************)
(* Calls from co_auth: UserAuthCallbackImplCoAuth                          *)
(***************************************************************************)

AnswersOf(c) == {a \in (1..MaxSchedules) \X CoAuth!Kinds : a[2] \in told[<<c, a[1]>>]}

\* OnFinish posts OnFinishHandle to the thread of the context; when the thread
\* is gone, the client is told BUSY at once, whatever it was told before.
OnFinish(c, k, code) ==
  /\ told[<<c, k>>] = {} \/ Cardinality(AnswersOf(c)) < MaxAnswers
  /\ CoAuth!Tell(<<c, k>>, KindOf(code))
  /\ IF c \in retains_
     THEN /\ queue' = [queue EXCEPT ![c] = Append(@, [code |-> code, schedule |-> k])]
          /\ UNCHANGED <<results, done>>
     ELSE /\ OnResult(c, "BUSY", FALSE)
          /\ done' = [done EXCEPT ![c] = TRUE]
          /\ UNCHANGED queue
  /\ UNCHANGED <<requestVars, contexts_, retains_, taskVars, cancel>>

VerdictArrives(c, k) == \E code \in FinishCodes : OnFinish(c, k, code)

\* BeginSchedule itself answers when an OnBeginExecute has failed.
FailureArrives(c, k) == OnFinish(c, k, "ERROR")

TimeoutArrives(c, k) == OnFinish(c, k, "TIMEOUT")

ScheduleReleased(c, k) ==
  /\ CoAuth!Release(<<c, k>>)
  /\ UNCHANGED <<requestVars, contexts_, retains_, queue, taskVars, done, cancel, results>>

\* OnAcquireInfo: without a thread the info is dropped and the flag is set.
OnAcquireInfo(c, k) ==
  /\ status[<<c, k>>] = "open"
  /\ Len(SelectSeq(queue[c], LAMBDA t : t = Tip)) < MaxTips
  /\ IF c \in retains_
     THEN queue' = [queue EXCEPT ![c] = Append(@, Tip)] /\ UNCHANGED done
     ELSE done' = [done EXCEPT ![c] = TRUE] /\ UNCHANGED queue
  /\ UNCHANGED <<requestVars, contexts_, retains_, scheduleVars, taskVars, cancel, results>>

(***************************************************************************)
(* The retained thread: one task at a time, in the order of the queue      *)
(***************************************************************************)

TaskTo(c, from, to) ==
  /\ task[c] = from
  /\ task' = [task EXCEPT ![c] = to]

\* OnAcquireInfoHandle: the info reaches the client unless the flag is set.
AcquireInfoHandle(c) ==
  /\ task[c] = "idle" /\ queue[c] # <<>> /\ Head(queue[c]) = Tip
  /\ queue' = [queue EXCEPT ![c] = Tail(@)]
  /\ UNCHANGED <<requestVars, contexts_, retains_, scheduleVars, taskVars, done, cancel, results>>

\* What UpdateAuthenticationResult may return: a token only for a schedule
\* that succeeded, E_RET_UNDONE whenever the device waits for more.
DeviceAnswers(code) ==
  {"FAIL", "UNDONE"} \cup (IF code = "SUCCESS" THEN {"SUCCESS"} ELSE {})

\* The device keeps what it was handed and waits for more.
DeviceWaits(c) ==
  LET s == <<c, Head(queue[c]).schedule>>
      code == Head(queue[c]).code
  IN  /\ "UNDONE" \in DeviceAnswers(code)
      /\ undone' = [undone EXCEPT ![s] = @ \cup {KindOf(code)}]

\* Mutant: the flag is not looked at.
FinishHandleIgnoresFlag(c) ==
  /\ task[c] = "idle" /\ queue[c] # <<>> /\ Head(queue[c]) # Tip
  /\ queue' = [queue EXCEPT ![c] = Tail(@)]
  /\ nowCount' = [nowCount EXCEPT ![c] = @ + 1]
  /\ LET code == Head(queue[c]).code IN
     \/ DeviceWaits(c) /\ UNCHANGED <<task, verdict>>
     \/ /\ \E ret \in DeviceAnswers(code) \ {"UNDONE"} :
             verdict' = [verdict EXCEPT ![c] = Result(code, ret = "SUCCESS")]
        /\ task' = [task EXCEPT ![c] = "report"]
        /\ UNCHANGED undone
  /\ UNCHANGED <<requestVars, contexts_, retains_, scheduleVars, done, cancel, results>>

\* OnFinishHandle up to the device's answer.  CANCELED is not passed on to the
\* device.
FinishHandle(c) ==
  /\ task[c] = "idle" /\ queue[c] # <<>> /\ Head(queue[c]) # Tip
  /\ queue' = [queue EXCEPT ![c] = Tail(@)]
  /\ nowCount' = [nowCount EXCEPT ![c] = @ + 1]
  /\ LET code == Head(queue[c]).code IN
     \/ /\ done[c]
        /\ UNCHANGED <<task, verdict, undone, contexts_, retains_, results, done>>
     \/ /\ ~done[c] /\ code = "CANCELED"
        /\ task' = [task EXCEPT ![c] = "report"]
        /\ verdict' = [verdict EXCEPT ![c] = Result(code, FALSE)]
        /\ UNCHANGED <<undone, contexts_, retains_, results, done>>
     \/ /\ ~done[c] /\ code # "CANCELED"
        /\ \E ret \in DeviceAnswers(code) \ {"UNDONE"} :
             verdict' = [verdict EXCEPT ![c] = Result(code, ret = "SUCCESS")]
        /\ task' = [task EXCEPT ![c] = "report"]
        /\ UNCHANGED <<undone, contexts_, retains_, results, done>>
     \/ /\ ~done[c] /\ code # "CANCELED" /\ DeviceWaits(c)
        /\ IF nowCount'[c] = CallbackCount
           THEN /\ contexts_' = contexts_ \ {c}
                /\ retains_' = retains_ \ {c}
                /\ OnResult(c, "ERROR", FALSE)
                /\ done' = [done EXCEPT ![c] = TRUE]
           ELSE UNCHANGED <<contexts_, retains_, results, done>>
        /\ UNCHANGED <<task, verdict>>
  /\ UNCHANGED <<requestVars, scheduleVars, cancel>>

\* GetPropAuthInfoCoAuth ends in onResult, with the executor's result code and
\* the token the device gave.
ReportResult(c) ==
  /\ TaskTo(c, "report", "cancel")
  /\ OnResult(c, verdict[c].code, verdict[c].token)
  /\ UNCHANGED <<requestVars, contexts_, retains_, scheduleVars, queue, handledVars, done,
                 cancel>>

\* DealFinishData asks co_auth to cancel the schedules that are left; it tells
\* their executors, and the schedules still answer for themselves.
CancelSchedules(c) ==
  /\ TaskTo(c, "cancel", "delete")
  /\ UNCHANGED <<requestVars, contexts_, retains_, scheduleVars, queue, handledVars, done,
                 cancel, results>>

\* Mutant: the context id stays.
DeleteContextIdForgotten(c) ==
  /\ TaskTo(c, "delete", "release")
  /\ UNCHANGED <<requestVars, contexts_, retains_, scheduleVars, queue, handledVars, done,
                 cancel, results>>

\* Mutant: the flag is set before the rest is cleaned up.
DeleteContextIdFlagsFirst(c) ==
  /\ TaskTo(c, "delete", "release")
  /\ contexts_' = contexts_ \ {c}
  /\ done' = [done EXCEPT ![c] = TRUE]
  /\ UNCHANGED <<requestVars, retains_, scheduleVars, queue, handledVars, cancel, results>>

DeleteContextId(c) ==
  /\ TaskTo(c, "delete", "release")
  /\ contexts_' = contexts_ \ {c}
  /\ UNCHANGED <<requestVars, retains_, scheduleVars, queue, handledVars, done, cancel,
                 results>>

\* Mutant: only the entry of saveCoAuthCallback_ goes.
DeleteCoAuthCallbackKeepsThread(c) ==
  /\ TaskTo(c, "release", "flag")
  /\ UNCHANGED <<requestVars, contexts_, retains_, scheduleVars, queue, handledVars, done,
                 cancel, results>>

\* ReleaseTaskThread, and the entry of saveCoAuthCallback_ goes.
DeleteCoAuthCallback(c) ==
  /\ TaskTo(c, "release", "flag")
  /\ retains_' = retains_ \ {c}
  /\ UNCHANGED <<requestVars, contexts_, scheduleVars, queue, handledVars, done, cancel,
                 results>>

\* Mutant: the flag is not set.
SetDoneFlagForgotten(c) ==
  /\ TaskTo(c, "flag", "idle")
  /\ UNCHANGED <<requestVars, contexts_, retains_, scheduleVars, queue, handledVars, done,
                 cancel, results>>

SetDoneFlag(c) ==
  /\ TaskTo(c, "flag", "idle")
  /\ done' = [done EXCEPT ![c] = TRUE]
  /\ UNCHANGED <<requestVars, contexts_, retains_, scheduleVars, queue, handledVars, cancel,
                 results>>

(***************************************************************************)
(* The IPC thread in UserAuthService::CancelAuth                           *)
(***************************************************************************)

CancelTo(c, from, to) ==
  /\ cancel[c] = from
  /\ cancel' = [cancel EXCEPT ![c] = to]

\* A client that got the context id cancels; IsContextIdExist must hold.
CancelAuth(c) ==
  /\ request[c] = "returned"
  /\ c \in contexts_
  /\ CancelTo(c, "idle", "device")
  /\ UNCHANGED <<requestVars, contexts_, retains_, scheduleVars, queue, taskVars, done, results>>

\* CancelAuthentication: when the device refuses, CancelAuth gives up.
CancelContext(c) ==
  /\ CancelTo(c, "device", "schedules") \/ CancelTo(c, "device", "idle")
  /\ UNCHANGED <<requestVars, contexts_, retains_, scheduleVars, queue, taskVars, done, results>>

\* GetScheduleIds and Cancel of each; when the context has gone meanwhile
\* there is nothing to cancel.
CancelItsSchedules(c) ==
  /\ CancelTo(c, "schedules", "delete")
  /\ UNCHANGED <<requestVars, contexts_, retains_, scheduleVars, queue, taskVars, done, results>>

CancelDeletesContext(c) ==
  /\ CancelTo(c, "delete", "idle")
  /\ contexts_' = contexts_ \ {c}
  /\ UNCHANGED <<requestVars, retains_, scheduleVars, queue, taskVars, done, results>>

RequestStep(c) ==
  \/ CheckCaller(c) \/ GenerateSolution(c) \/ SaveCoAuthCallback(c) \/ FailRequest(c)
  \/ BeginSchedule(c) \/ ReturnContextId(c)

TaskStep(c) ==
  \/ AcquireInfoHandle(c) \/ FinishHandle(c) \/ ReportResult(c) \/ CancelSchedules(c)
  \/ DeleteContextId(c) \/ DeleteCoAuthCallback(c) \/ SetDoneFlag(c)

ScheduleStep(c, k) ==
  \/ VerdictArrives(c, k) \/ FailureArrives(c, k) \/ TimeoutArrives(c, k)
  \/ ScheduleReleased(c, k)

CancelStep(c) == CancelContext(c) \/ CancelItsSchedules(c) \/ CancelDeletesContext(c)

Next ==
  \E c \in Contexts :
    \/ RefuseRequest(c) \/ AddContextId(c) \/ RequestStep(c)
    \/ TaskStep(c)
    \/ CancelAuth(c) \/ CancelStep(c)
    \/ \E k \in 1..MaxSchedules : ScheduleStep(c, k) \/ OnAcquireInfo(c, k)

\* Threads run on.  A schedule in the pool is told and released: that is what
\* module CoAuth shows of co_auth (ImplementsContract).
Fairness ==
  \A c \in Contexts :
    /\ WF_vars(RequestStep(c)) /\ WF_vars(TaskStep(c)) /\ WF_vars(CancelStep(c))
    /\ \A k \in 1..MaxSchedules :
         WF_vars(status[<<c, k>>] = "open" /\ ScheduleStep(c, k))

Spec == Init /\ [][Next]_vars

FairSpec == Spec /\ Fairness

(***************************************************************************)
(* Properties                                                              *)
(***************************************************************************)

\* Once isResultDoneFlag_ is set nothing of the context is left: its thread is
\* back in the group, its id is gone and the client was answered.  OnFinish,
\* OnAcquireInfo and DealFinishData set the flag on three threads.
DoneMeansReleased ==
  \A c \in Contexts : done[c] => c \notin retains_ /\ c \notin contexts_ /\ results[c] # <<>>

\* A client that has its result has no context any more: its id is gone from
\* contexts_, unless DealFinishData has yet to take it out, or Auth failed after
\* GetControllerData and returned without DeleteContextId, as AuthUser does not.
NoContextOutlivesItsAnswer ==
  \A c \in contexts_ :
    results[c] # <<>> =>
      task[c] \in {"cancel", "delete"} \/ (request[c] = "failed" /\ kind[c] = "Auth")

\* OnAcquireInfoHandle passes an acquire info on to the client only before the
\* client has its result.
TipsPrecedeResult ==
  [][\A c \in Contexts :
       task[c] = "idle" /\ queue[c] # <<>> /\ Head(queue[c]) = Tip /\ queue'[c] = Tail(queue[c])
         => done[c] \/ results[c] = <<>>]_vars

\* The device leaves the request undecided: every schedule has answered, of
\* which there may be none, and it took each answer with E_RET_UNDONE.
Undecided(c) ==
  /\ request[c] = "returned"
  /\ \A k \in 1..scheduleNum[c] : told[<<c, k>>] # {} /\ undone[<<c, k>>] = told[<<c, k>>]

\* Every thread that a context retains goes back to the group, unless the
\* device leaves the request undecided: OnFinishHandle then waits for an answer
\* more, which no schedule owes it.
ThreadReturned == \A c \in Contexts : c \in retains_ ~> c \notin retains_ \/ Undecided(c)

Client ==
  INSTANCE ClientContract WITH
    Requests <- Contexts,
    Codes <- AnswerCodes,
    asked <- [c \in Contexts |->
                IF request[c] = "idle" THEN "no" ELSE IF Undecided(c) THEN "undecided" ELSE "yes"]

\* Auth and AuthUser keep the contract with the client.
ImplementsClient == Client!Spec

\* ohos.UserIAM.userAuth.d.ts: "If the authentication is passed, the
\* authentication token is returned in extrainfo".
SuccessCarriesToken ==
  \A c \in Contexts : \A i \in DOMAIN results[c] :
    results[c][i].code = "SUCCESS" => results[c][i].token
=============================================================================
