------------------------------- MODULE CoAuth -------------------------------
(***************************************************************************)
(* The life of a collaborative schedule in services/co_auth: CoAuthManager *)
(* inserts it into the schedule pool, arms the timeout of CallMonitor and  *)
(* starts the executors; each executor reports back through                *)
(* ExecutorMessenger on an IPC thread of its own; the timeout runs on the  *)
(* one thread of the event runner.  Every pool operation takes scheMutex_  *)
(* or authMutex_ for itself only, so every pool operation is a step and    *)
(* the sequences of CoAuthHandle, Finish and TimeOut interleave.  A call   *)
(* of OnBeginExecute arrives and returns in steps of its own: an executor  *)
(* may report back before it returned, and although it returned an error.  *)
(***************************************************************************)
EXTENDS Naturals, Sequences

CONSTANTS
  Schedules,     \* schedule ids: the driver never hands one out twice
  AuthTypes,     \* the authentication types executors register for
  Executors,     \* executor ids: the keys of authResPool_, in their order
  TypeOf,        \* TypeOf[x]: the authentication type of executor x
  MaxExecutors   \* bound on ScheduleInfo.executors

ASSUME CoAuthAssumption ==
  /\ MaxExecutors \in Nat \ {0}
  /\ Executors \subseteq Nat \ {0}
  /\ TypeOf \in [Executors -> AuthTypes]

VARIABLES
  executor,     \* executor[x]: the entry of x in authResPool_ and its process
  scheResPool,  \* schedules that have an entry in scheResPool_
  executors,    \* executors[s]: ScheduleInfo.executors, as their auth types
  executorNum,  \* executorNum[s]: the count in the entry of s
  handle,       \* handle[s]: where the thread in CoAuthHandle(s) stands
  index,        \* index[s]: the loop variable of BeginExecute
  callee,       \* callee[s][i]: who is called or at work for the i-th type of s, or 0
  executeRet,   \* executeRet[s]: did an OnBeginExecute fail?
  worker,       \* worker[s][i]: the i-th executor of s and its call of Finish
  tips,         \* tips[s]: executors with a SendData between find and delivery
  timer,        \* timer[s]: the timeout task of s in CallMonitor's handler
  cancelIdx,    \* cancelIdx[c][s]: the loop variable of Cancel, 0 outside it
  answers       \* answers[s]: what the callback's OnFinish was called with

vars == <<executor, scheResPool, executors, executorNum, handle, index, callee,
          executeRet, worker, tips, timer, cancelIdx, answers>>

poolVars   == <<scheResPool, executorNum>>
handleVars == <<executors, handle, index, callee, executeRet>>

Slots == 1..MaxExecutors

SlotsOf(s) == 1..Len(executors[s])

\* Whose word a call of the callback's OnFinish is: the last executor's result
\* code, the failure of CoAuthHandle itself, or the TIMEOUT of TimeOut.
Kinds == {"verdict", "failure", "timeout"}

\* "out": no entry, "up": registered and alive, "dead": its process died and
\* its entry is still there.
ExecutorStates == {"out", "up", "dead"}

HandleStates == {"idle", "monitor", "execute", "call", "wait", "report", "erase",
                 "unmonitor", "done"}

\* At work: "working" until an OnEndExecute arrived ("ending") or failed on its
\* way ("missed").  None of them keeps the executor from calling Finish.
AtWork == {"working", "ending", "missed"}

\* "idle": its OnBeginExecute never arrived; "failed": it arrived and the
\* executor refused; "dead": its process died at work; "count" to "erase":
\* inside Finish; "counted": Finish returned after ScheduleCountMinus;
\* "finished": it returned otherwise.
WorkerStates == AtWork \cup {"idle", "failed", "dead", "count", "minus", "unmonitor",
                             "find", "report", "erase", "counted", "finished"}

TimerStates == {"idle", "armed", "removed", "find", "report", "lookup", "cancel",
                "erase", "done"}

Cancellers == {"api", "timer"}

\* The entries of authResPool_ for an authentication type.
Entries(type) == {x \in Executors : executor[x] # "out" /\ TypeOf[x] = type}

\* FindExecutorCallback walks a map in the order of its keys: it finds the
\* entry with the lowest id, be it the one at work or not.
Finds(type, x) == x \in Entries(type) /\ \A y \in Entries(type) : x <= y

\* Executor x is at work on s, for the i-th type of its list.
AtWorkFor(x, s, i) == callee[s][i] = x /\ worker[s][i] \in AtWork

\* The event runner has one thread: it is busy with the timeout of s.
Running(s) == timer[s] \in {"find", "report", "lookup", "cancel", "erase"}

TypeOK ==
  /\ executor \in [Executors -> ExecutorStates]
  /\ scheResPool \in SUBSET Schedules
  /\ executors \in [Schedules -> Seq(AuthTypes)]
  /\ \A s \in Schedules : Len(executors[s]) <= MaxExecutors
  /\ executorNum \in [Schedules -> 0..MaxExecutors]
  /\ handle \in [Schedules -> HandleStates]
  /\ index \in [Schedules -> 1..(MaxExecutors + 1)]
  /\ \A s \in Schedules : handle[s] \in {"call", "wait"} => index[s] \in SlotsOf(s)
  /\ callee \in [Schedules -> [Slots -> Executors \cup {0}]]
  /\ executeRet \in [Schedules -> {"SUCCESS", "FAIL"}]
  /\ worker \in [Schedules -> [Slots -> WorkerStates]]
  /\ tips \in [Schedules -> SUBSET Slots]
  /\ timer \in [Schedules -> TimerStates]
  /\ cancelIdx \in [Cancellers -> [Schedules -> 0..MaxExecutors]]
  /\ answers \in [Schedules -> Seq(Kinds)]

Init ==
  /\ executor \in [Executors -> {"out", "up"}]
  /\ scheResPool = {}
  /\ executors = [s \in Schedules |-> <<>>]
  /\ executorNum = [s \in Schedules |-> 0]
  /\ handle = [s \in Schedules |-> "idle"]
  /\ index = [s \in Schedules |-> 1]
  /\ callee = [s \in Schedules |-> [i \in Slots |-> 0]]
  /\ executeRet = [s \in Schedules |-> "SUCCESS"]
  /\ worker = [s \in Schedules |-> [i \in Slots |-> "idle"]]
  /\ tips = [s \in Schedules |-> {}]
  /\ timer = [s \in Schedules |-> "idle"]
  /\ cancelIdx = [c \in Cancellers |-> [s \in Schedules |-> 0]]
  /\ answers = [s \in Schedules |-> <<>>]

(***************************************************************************)
(* Shared effects                                                          *)
(***************************************************************************)

\* callback->OnFinish(code, ...)
Answer(s, kind) == answers' = [answers EXCEPT ![s] = Append(@, kind)]

\* AuthResPool::DeleteScheduleCallback; without an entry it changes nothing.
DeleteScheduleCallback(s) == scheResPool' = scheResPool \ {s}

\* CallMonitor::MonitorRemoveCall: a task that already runs is not stopped.
MonitorRemoveCall(s) ==
  timer' = IF timer[s] = "armed" THEN [timer EXCEPT ![s] = "removed"] ELSE timer

\* The i-th executor of s is not at work any more.
LeaveWork(s, i, to) ==
  /\ worker[s][i] \in AtWork
  /\ worker' = [worker EXCEPT ![s][i] = to]
  /\ callee' = [callee EXCEPT ![s][i] = 0]

(***************************************************************************)
(* The thread in CoAuthManager::CoAuthHandle                               *)
(***************************************************************************)

\* No executors: the callback is told at once and nothing is saved.
RejectSchedule(s) ==
  /\ handle[s] = "idle"
  /\ handle' = [handle EXCEPT ![s] = "done"]
  /\ Answer(s, "failure")
  /\ UNCHANGED <<executor, poolVars, executors, index, callee, executeRet, worker, tips,
                 timer, cancelIdx>>

\* Mutant: one count too many.
SaveScheduleOvercounts(s) ==
  /\ handle[s] = "idle"
  /\ \E n \in Slots : \E types \in [1..n -> AuthTypes] :
       /\ executors' = [executors EXCEPT ![s] = types]
       /\ executorNum' = [executorNum EXCEPT ![s] = n + 1]
  /\ scheResPool' = scheResPool \cup {s}
  /\ handle' = [handle EXCEPT ![s] = "monitor"]
  /\ UNCHANGED <<executor, index, callee, executeRet, worker, tips, timer, cancelIdx,
                 answers>>

\* SaveScheduleCallback: the entry starts with one count per executor.
SaveSchedule(s) ==
  /\ handle[s] = "idle"
  /\ \E n \in Slots : \E types \in [1..n -> AuthTypes] :
       /\ executors' = [executors EXCEPT ![s] = types]
       /\ executorNum' = [executorNum EXCEPT ![s] = n]
  /\ scheResPool' = scheResPool \cup {s}
  /\ handle' = [handle EXCEPT ![s] = "monitor"]
  /\ UNCHANGED <<executor, index, callee, executeRet, worker, tips, timer, cancelIdx,
                 answers>>

\* Mutant: the timeout is not armed.
MonitorCallForgotten(s) ==
  /\ handle[s] = "monitor"
  /\ handle' = [handle EXCEPT ![s] = "execute"]
  /\ UNCHANGED <<executor, poolVars, executors, index, callee, executeRet, worker, tips,
                 timer, cancelIdx, answers>>

\* CallMonitor::MonitorCall(delay_time, scheduleId, TimeOut)
MonitorCall(s) ==
  /\ handle[s] = "monitor"
  /\ handle' = [handle EXCEPT ![s] = "execute"]
  /\ timer' = [timer EXCEPT ![s] = "armed"]
  /\ UNCHANGED <<executor, poolVars, executors, index, callee, executeRet, worker, tips,
                 cancelIdx, answers>>

\* FindExecutorCallback in the loop of BeginExecute: a type nobody registered
\* is skipped without an error.
FindExecutor(s) ==
  /\ handle[s] = "execute"
  /\ index[s] \in SlotsOf(s)
  /\ \/ /\ Entries(executors[s][index[s]]) = {}
        /\ index' = [index EXCEPT ![s] = @ + 1]
        /\ UNCHANGED <<handle, callee>>
     \/ \E x \in Executors :
          /\ Finds(executors[s][index[s]], x)
          /\ callee' = [callee EXCEPT ![s][index[s]] = x]
          /\ handle' = [handle EXCEPT ![s] = "call"]
          /\ UNCHANGED index
  /\ UNCHANGED <<executor, poolVars, executors, executeRet, worker, tips, timer,
                 cancelIdx, answers>>

\* OnBeginExecute on its way: it arrives at a living executor, which is at work
\* from then on, or fails on the way; a failure is remembered.
BeginExecutor(s) ==
  /\ handle[s] = "call"
  /\ \/ /\ executor[callee[s][index[s]]] = "up"
        /\ worker' = [worker EXCEPT ![s][index[s]] = "working"]
        /\ handle' = [handle EXCEPT ![s] = "wait"]
        /\ UNCHANGED <<index, callee, executeRet>>
     \/ /\ executeRet' = [executeRet EXCEPT ![s] = "FAIL"]
        /\ handle' = [handle EXCEPT ![s] = "execute"]
        /\ index' = [index EXCEPT ![s] = @ + 1]
        /\ callee' = [callee EXCEPT ![s][index[s]] = 0]
        /\ UNCHANGED worker
  /\ UNCHANGED <<executor, poolVars, executors, tips, timer, cancelIdx, answers>>

\* OnBeginExecute returns.  An error says little: the executor may be at work
\* all the same, may be done and have called Finish, or its process is dead.
BeginReturns(s) ==
  /\ handle[s] = "wait"
  /\ handle' = [handle EXCEPT ![s] = "execute"]
  /\ index' = [index EXCEPT ![s] = @ + 1]
  /\ \/ UNCHANGED <<executeRet, worker, callee>>
     \/ /\ executeRet' = [executeRet EXCEPT ![s] = "FAIL"]
        /\ \/ UNCHANGED <<worker, callee>>
           \/ LeaveWork(s, index[s], "failed")
  /\ UNCHANGED <<executor, poolVars, executors, tips, timer, cancelIdx, answers>>

\* The end of the loop, and the test of executeRet after it.
EndBeginExecute(s) ==
  /\ handle[s] = "execute"
  /\ index[s] \notin SlotsOf(s)
  /\ handle' = [handle EXCEPT ![s] = IF executeRet[s] = "SUCCESS" THEN "done" ELSE "report"]
  /\ UNCHANGED <<executor, poolVars, executors, index, callee, executeRet, worker, tips,
                 timer, cancelIdx, answers>>

ReportFailure(s) ==
  /\ handle[s] = "report"
  /\ handle' = [handle EXCEPT ![s] = "erase"]
  /\ Answer(s, "failure")
  /\ UNCHANGED <<executor, poolVars, executors, index, callee, executeRet, worker, tips,
                 timer, cancelIdx>>

EraseFailed(s) ==
  /\ handle[s] = "erase"
  /\ handle' = [handle EXCEPT ![s] = "unmonitor"]
  /\ DeleteScheduleCallback(s)
  /\ UNCHANGED <<executor, executors, executorNum, index, callee, executeRet, worker,
                 tips, timer, cancelIdx, answers>>

UnmonitorFailed(s) ==
  /\ handle[s] = "unmonitor"
  /\ handle' = [handle EXCEPT ![s] = "done"]
  /\ MonitorRemoveCall(s)
  /\ UNCHANGED <<executor, poolVars, executors, index, callee, executeRet, worker, tips,
                 cancelIdx, answers>>

(***************************************************************************)
(* The IPC threads in ExecutorMessenger::SendData and ::Finish             *)
(***************************************************************************)

SetWorker(s, i, from, to) ==
  /\ worker[s][i] = from
  /\ worker' = [worker EXCEPT ![s][i] = to]

\* SendData looks the callback up; the command's mutex keeps an executor from
\* having two messages, or a message and a Finish, on the way.
SendDataFind(s, i) ==
  /\ worker[s][i] \in AtWork
  /\ i \notin tips[s]
  /\ s \in scheResPool
  /\ tips' = [tips EXCEPT ![s] = @ \cup {i}]
  /\ UNCHANGED <<executor, poolVars, handleVars, worker, timer, cancelIdx, answers>>

\* callback->OnAcquireInfo with the callback found before.
SendDataDeliver(s, i) ==
  /\ i \in tips[s]
  /\ tips' = [tips EXCEPT ![s] = @ \ {i}]
  /\ UNCHANGED <<executor, poolVars, handleVars, worker, timer, cancelIdx, answers>>

FinishCall(s, i) ==
  /\ i \notin tips[s]
  /\ LeaveWork(s, i, "count")
  /\ UNCHANGED <<executor, poolVars, executors, handle, index, executeRet, tips, timer,
                 cancelIdx, answers>>

\* Mutant: off by one in the test of the count.
FinishCountOffByOne(s, i) ==
  /\ \/ s \in scheResPool /\ executorNum[s] > 2 /\ SetWorker(s, i, "count", "minus")
     \/ s \in scheResPool /\ executorNum[s] <= 2 /\ SetWorker(s, i, "count", "unmonitor")
     \/ s \notin scheResPool /\ SetWorker(s, i, "count", "unmonitor")
  /\ UNCHANGED <<executor, poolVars, handleVars, tips, timer, cancelIdx, answers>>

\* GetScheduleCount.  scheCount has no initial value: when the schedule has
\* no entry any more, the test `scheCount > 1' may go either way.
FinishCount(s, i) ==
  /\ \/ s \in scheResPool /\ executorNum[s] > 1 /\ SetWorker(s, i, "count", "minus")
     \/ s \in scheResPool /\ executorNum[s] <= 1 /\ SetWorker(s, i, "count", "unmonitor")
     \/ s \notin scheResPool /\ SetWorker(s, i, "count", "minus")
     \/ s \notin scheResPool /\ SetWorker(s, i, "count", "unmonitor")
  /\ UNCHANGED <<executor, poolVars, handleVars, tips, timer, cancelIdx, answers>>

\* ScheduleCountMinus does nothing without an entry or with a count of 0.
FinishMinus(s, i) ==
  /\ SetWorker(s, i, "minus", "counted")
  /\ executorNum' = IF s \in scheResPool /\ executorNum[s] > 0
                    THEN [executorNum EXCEPT ![s] = @ - 1]
                    ELSE executorNum
  /\ UNCHANGED <<executor, scheResPool, handleVars, tips, timer, cancelIdx, answers>>

FinishUnmonitor(s, i) ==
  /\ SetWorker(s, i, "unmonitor", "find")
  /\ MonitorRemoveCall(s)
  /\ UNCHANGED <<executor, poolVars, handleVars, tips, cancelIdx, answers>>

FinishFind(s, i) ==
  /\ SetWorker(s, i, "find", IF s \in scheResPool THEN "report" ELSE "finished")
  /\ UNCHANGED <<executor, poolVars, handleVars, tips, timer, cancelIdx, answers>>

\* The code is the executor's, or FAIL when its finalResult is nullptr.
FinishReport(s, i) ==
  /\ SetWorker(s, i, "report", "erase")
  /\ Answer(s, "verdict")
  /\ UNCHANGED <<executor, poolVars, handleVars, tips, timer, cancelIdx>>

FinishErase(s, i) ==
  /\ SetWorker(s, i, "erase", "finished")
  /\ DeleteScheduleCallback(s)
  /\ UNCHANGED <<executor, executorNum, handleVars, tips, timer, cancelIdx, answers>>

(***************************************************************************)
(* CoAuthManager::Cancel, called by the services and by TimeOut            *)
(***************************************************************************)

\* What OnEndExecute leaves of the runs of s that executor x is at work on.
EndRuns(s, x, states, state) ==
  worker' = [worker EXCEPT ![s] = [i \in Slots |->
               IF AtWorkFor(x, s, i) /\ worker[s][i] \in states THEN state ELSE worker[s][i]]]

\* Mutant: the loop ends one executor too early.
EndExecutorOffByOne(c, s) ==
  /\ cancelIdx[c][s] \in SlotsOf(s)
  /\ cancelIdx' = [cancelIdx EXCEPT ![c][s] = IF @ = Len(executors[s]) THEN 0 ELSE @ + 1]
  /\ \/ /\ Entries(executors[s][cancelIdx[c][s]]) = {} \/ cancelIdx[c][s] = Len(executors[s])
        /\ UNCHANGED worker
     \/ \E x \in Executors :
          /\ Finds(executors[s][cancelIdx[c][s]], x)
          /\ cancelIdx[c][s] < Len(executors[s])
          /\ executor[x] = "up"
          /\ EndRuns(s, x, AtWork, "ending")

\* One round of Cancel's loop: OnEndExecute(scheduleId) to the executor that is
\* found for the type, which ends every run of s it is at work on, or to which
\* the call fails.  Lookup and call are one step: an executor that registers or
\* dies between the two changes nothing that the call failing does not.
EndExecutor(c, s) ==
  /\ cancelIdx[c][s] \in SlotsOf(s)
  /\ cancelIdx' = [cancelIdx EXCEPT ![c][s] = IF @ = Len(executors[s]) THEN 0 ELSE @ + 1]
  /\ \/ /\ Entries(executors[s][cancelIdx[c][s]]) = {}
        /\ UNCHANGED worker
     \/ \E x \in Executors :
          /\ Finds(executors[s][cancelIdx[c][s]], x)
          /\ \/ executor[x] = "up" /\ EndRuns(s, x, AtWork, "ending")
             \/ EndRuns(s, x, {"working"}, "missed")

\* Cancel by a service; GetScheduleInfo fails when the schedule has no entry.
CancelLookup(s) ==
  /\ cancelIdx["api"][s] = 0
  /\ s \in scheResPool
  /\ cancelIdx' = [cancelIdx EXCEPT !["api"][s] = 1]
  /\ UNCHANGED <<executor, poolVars, handleVars, worker, tips, timer, answers>>

CancelNext(s) ==
  /\ EndExecutor("api", s)
  /\ UNCHANGED <<executor, poolVars, handleVars, tips, timer, answers>>

(***************************************************************************)
(* The event runner's thread in CoAuthManager::TimeOut                     *)
(***************************************************************************)

SetTimer(s, from, to) ==
  /\ timer[s] = from
  /\ timer' = [timer EXCEPT ![s] = to]

\* delay_time is over, perhaps while an OnBeginExecute blocks: the task leaves
\* the queue and runs, one at a time.
TimerFires(s) ==
  /\ SetTimer(s, "armed", "find")
  /\ \A t \in Schedules : ~Running(t)
  /\ UNCHANGED <<executor, poolVars, handleVars, worker, tips, cancelIdx, answers>>

TimeOutFind(s) ==
  /\ SetTimer(s, "find", IF s \in scheResPool THEN "report" ELSE "done")
  /\ UNCHANGED <<executor, poolVars, handleVars, worker, tips, cancelIdx, answers>>

TimeOutReport(s) ==
  /\ SetTimer(s, "report", "lookup")
  /\ Answer(s, "timeout")
  /\ UNCHANGED <<executor, poolVars, handleVars, worker, tips, cancelIdx>>

TimeOutLookup(s) ==
  /\ \/ /\ s \in scheResPool
        /\ SetTimer(s, "lookup", "cancel")
        /\ cancelIdx' = [cancelIdx EXCEPT !["timer"][s] = 1]
     \/ /\ s \notin scheResPool
        /\ SetTimer(s, "lookup", "erase")
        /\ UNCHANGED cancelIdx
  /\ UNCHANGED <<executor, poolVars, handleVars, worker, tips, answers>>

TimeOutCancel(s) ==
  /\ SetTimer(s, "cancel", IF cancelIdx["timer"][s] = Len(executors[s]) THEN "erase" ELSE "cancel")
  /\ EndExecutor("timer", s)
  /\ UNCHANGED <<executor, poolVars, handleVars, tips, answers>>

\* Mutant: the entry stays in the pool.
TimeOutEraseForgotten(s) ==
  /\ SetTimer(s, "erase", "done")
  /\ UNCHANGED <<executor, poolVars, handleVars, worker, tips, cancelIdx, answers>>

TimeOutErase(s) ==
  /\ SetTimer(s, "erase", "done")
  /\ DeleteScheduleCallback(s)
  /\ UNCHANGED <<executor, executorNum, handleVars, worker, tips, cancelIdx, answers>>

(***************************************************************************)
(* Executors come and go (AuthResManager::Register, OnRemoteDied)          *)
(***************************************************************************)

\* The driver's ids are random: a later executor may have the lower id.  An id
\* serves again, for another executor, when nobody holds the old callback.
RegisterExecutor(x) ==
  /\ executor[x] = "out"
  /\ \A s \in Schedules : ~(handle[s] = "call" /\ callee[s][index[s]] = x)
  /\ executor' = [executor EXCEPT ![x] = "up"]
  /\ UNCHANGED <<poolVars, handleVars, worker, tips, timer, cancelIdx, answers>>

\* The executor's process dies: it never calls Finish for what it was working
\* on.  Calls already inside the service run on.
ExecutorDied(x) ==
  /\ executor[x] = "up"
  /\ executor' = [executor EXCEPT ![x] = "dead"]
  /\ worker' = [s \in Schedules |-> [i \in Slots |->
                  IF AtWorkFor(x, s, i) THEN "dead" ELSE worker[s][i]]]
  /\ callee' = [s \in Schedules |-> [i \in Slots |->
                  IF AtWorkFor(x, s, i) THEN 0 ELSE callee[s][i]]]
  /\ UNCHANGED <<poolVars, executors, handle, index, executeRet, tips, timer, cancelIdx,
                 answers>>

\* The death recipient erases the entry, some time later.
OnRemoteDied(x) ==
  /\ executor[x] = "dead"
  /\ executor' = [executor EXCEPT ![x] = "out"]
  /\ UNCHANGED <<poolVars, handleVars, worker, tips, timer, cancelIdx, answers>>

HandleStep(s) ==
  \/ MonitorCall(s) \/ FindExecutor(s) \/ BeginExecutor(s) \/ EndBeginExecute(s)
  \/ ReportFailure(s) \/ EraseFailed(s) \/ UnmonitorFailed(s)

FinishStep(s, i) ==
  \/ FinishCount(s, i) \/ FinishMinus(s, i) \/ FinishUnmonitor(s, i)
  \/ FinishFind(s, i) \/ FinishReport(s, i) \/ FinishErase(s, i)

TimeOutStep(s) ==
  \/ TimerFires(s) \/ TimeOutFind(s) \/ TimeOutReport(s)
  \/ TimeOutLookup(s) \/ TimeOutCancel(s) \/ TimeOutErase(s)

Next ==
  \/ \E s \in Schedules :
       \/ RejectSchedule(s) \/ SaveSchedule(s) \/ HandleStep(s) \/ BeginReturns(s)
       \/ TimeOutStep(s)
       \/ CancelLookup(s) \/ CancelNext(s)
       \/ \E i \in Slots : \/ SendDataFind(s, i) \/ SendDataDeliver(s, i)
                           \/ FinishCall(s, i) \/ FinishStep(s, i)
  \/ \E x \in Executors : RegisterExecutor(x) \/ ExecutorDied(x) \/ OnRemoteDied(x)

\* Threads of the service run on and the event runner fires its timers; that
\* an executor ever calls Finish, or returns from OnBeginExecute, is up to the
\* executor and not assumed.
Fairness ==
  \A s \in Schedules :
    /\ WF_vars(HandleStep(s))
    /\ WF_vars(TimeOutStep(s))
    /\ \A i \in Slots : WF_vars(FinishStep(s, i))

Spec == Init /\ [][Next]_vars

FairSpec == Spec /\ Fairness

-----------------------------------------------------------------------------

(***************************************************************************)
(* Properties                                                              *)
(***************************************************************************)

\* Every entry of the pool is watched: its timeout is pending or running, or a
\* thread is on its way to erase it; and no timeout stays armed for an entry
\* that is gone, except until the failing CoAuthHandle removes it.
\* (coauth_manager.cpp:50-64 and 226-243, executor_messenger.cpp:76-96)
PoolAndMonitorAgree ==
  \A s \in Schedules :
    /\ s \in scheResPool =>
         \/ timer[s] = "armed" \/ Running(s)
         \/ handle[s] \in {"monitor", "report", "erase"}
         \/ \E i \in Slots : worker[s][i] \in {"find", "report", "erase"}
    /\ timer[s] = "armed" => s \in scheResPool \/ handle[s] = "unmonitor"

\* Finish tells the callback on behalf of the last executor only: all others
\* have been counted before, and none has a message on its way, so no tip can
\* follow the verdict.  (executor_messenger.cpp:71-76, `The last one will sign
\* the token')
LastExecutorReports ==
  \A s \in Schedules : \A i \in SlotsOf(s) : worker[s][i] \in {"report", "erase"} =>
    \A j \in SlotsOf(s) \ {i} : worker[s][j] = "counted" /\ j \notin tips[s]

\* The races between Finish, a failing CoAuthHandle and TimeOut can make the
\* callback hear three times, but each of them speaks once: however many
\* executors call Finish, before or despite a failing OnBeginExecute, only one
\* of them speaks for the schedule.
\* (coauth_manager.cpp:59-61 and 226-238, executor_messenger.cpp:70-97)
OneVerdict ==
  \A s \in Schedules : \A a, b \in DOMAIN answers[s] :
    a # b => answers[s][a] # answers[s][b]

\* An executor of the same type that the lookup by type finds first.
Overtaken(s, i) == \E y \in Entries(executors[s][i]) : y < callee[s][i]

\* An executor at work when the timeout starts to cancel is told to end, or it
\* ends by itself, whoever registers, dies or finishes meanwhile, and be its
\* OnBeginExecute back or not.  The exceptions are the code's: the call to it
\* failed, another executor of its type has a lower id, or CoAuthHandle failed
\* and may have erased the entry that Cancel starts from.
\* (coauth_manager.cpp:239-242 and 113-156, auth_res_pool.cpp:77-85)
TimeoutEndsExecutors ==
  \A s \in Schedules : \A i \in Slots :
    timer[s] = "lookup" /\ s \in scheResPool /\ worker[s][i] = "working"
    ~> \/ worker[s][i] # "working"
       \/ Overtaken(s, i)
       \/ executeRet[s] = "FAIL"

(***************************************************************************)
(* The contract towards the callers of BeginSchedule                       *)
(***************************************************************************)

contractStatus ==
  [s \in Schedules |-> IF s \in scheResPool THEN "open"
                       ELSE IF handle[s] = "idle" THEN "idle" ELSE "released"]

contractTold ==
  [s \in Schedules |-> {answers[s][k] : k \in DOMAIN answers[s]}]

Contract == INSTANCE ScheduleContract WITH status <- contractStatus, told <- contractTold

\* The pool, the monitor and the executors' threads implement the contract.
ImplementsContract == Contract!Spec
=============================================================================
