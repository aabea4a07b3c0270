---------------------------- MODULE CoAuthProofs ----------------------------
(***************************************************************************)
(* Proofs about CoAuth, for every set of schedules and authentication      *)
(* types and every bound on the executors of a schedule: its types, the    *)
(* count of a schedule's executors, what its callback hears, whom the      *)
(* timeout tells to end, and the contract.                                 *)
(***************************************************************************)
EXTENDS CoAuth, FiniteSets, FiniteSetTheorems, TLAPS

\* A function on 1..n is a sequence of length n.
LEMMA TypesAreSequences ==
  ASSUME NEW n \in Slots, NEW types \in [1..n -> AuthTypes]
  PROVE  types \in Seq(AuthTypes) /\ Len(types) = n
  BY CoAuthAssumption DEF Slots

\* Changing one component of a function of functions keeps its type.
LEMMA TableUpdate ==
  ASSUME NEW R, NEW C, NEW V, NEW f \in [R -> [C -> V]],
         NEW r \in R, NEW c \in C, NEW v \in V
  PROVE  [f EXCEPT ![r][c] = v] \in [R -> [C -> V]]
  OBVIOUS

\* OnEndExecute leaves whom it reaches, or misses, at work.
LEMMA EndsLeaveAtWork ==
  ASSUME TypeOK, NEW s \in Schedules, NEW c \in Cancellers, EndExecutor(c, s)
  PROVE  /\ worker' \in [Schedules -> [Slots -> WorkerStates]]
         /\ \A r \in Schedules : \A j \in Slots :
              \/ worker'[r][j] = worker[r][j]
              \/ r = s /\ worker[r][j] \in AtWork /\ worker'[r][j] \in AtWork
<1>1. ASSUME NEW x, NEW states \in SUBSET AtWork, NEW state \in {"ending", "missed"},
             EndRuns(s, x, states, state)
      PROVE  /\ worker' \in [Schedules -> [Slots -> WorkerStates]]
             /\ \A r \in Schedules : \A j \in Slots :
                  \/ worker'[r][j] = worker[r][j]
                  \/ r = s /\ worker[r][j] \in AtWork /\ worker'[r][j] \in AtWork
  BY <1>1 DEF EndRuns, TypeOK, AtWorkFor, AtWork, WorkerStates
<1>2. AtWork \in SUBSET AtWork /\ {"working"} \in SUBSET AtWork
  BY DEF AtWork
<1>3. CASE worker' = worker
  BY <1>3 DEF TypeOK
<1> QED
  BY <1>1, <1>2, <1>3 DEF EndExecutor

\* The call of an OnBeginExecute, and its return, change one executor at most.
LEMMA CallTypes ==
  ASSUME TypeOK, NEW s \in Schedules, BeginExecutor(s) \/ BeginReturns(s)
  PROVE  /\ worker' \in [Schedules -> [Slots -> WorkerStates]]
         /\ callee' \in [Schedules -> [Slots -> Executors \cup {0}]]
<1>1. index[s] \in Slots
  BY CoAuthAssumption DEF TypeOK, BeginExecutor, BeginReturns, SlotsOf, Slots
<1>2. /\ worker \in [Schedules -> [Slots -> WorkerStates]]
      /\ callee \in [Schedules -> [Slots -> Executors \cup {0}]]
  BY DEF TypeOK
<1>3. \/ worker' = worker
      \/ worker' = [worker EXCEPT ![s][index[s]] = "working"]
      \/ worker' = [worker EXCEPT ![s][index[s]] = "failed"]
  BY DEF BeginExecutor, BeginReturns, LeaveWork
<1>4. callee' = callee \/ callee' = [callee EXCEPT ![s][index[s]] = 0]
  BY DEF BeginExecutor, BeginReturns, LeaveWork
<1>5. "working" \in WorkerStates /\ "failed" \in WorkerStates /\ 0 \in Executors \cup {0}
  BY DEF WorkerStates, AtWork
<1>6. ASSUME NEW v \in WorkerStates
      PROVE  [worker EXCEPT ![s][index[s]] = v] \in [Schedules -> [Slots -> WorkerStates]]
  BY <1>1, <1>2, TableUpdate
<1>7. [callee EXCEPT ![s][index[s]] = 0] \in [Schedules -> [Slots -> Executors \cup {0}]]
  BY <1>1, <1>2, <1>5, TableUpdate
<1> QED
  BY <1>2, <1>3, <1>4, <1>5, <1>6, <1>7

\* All variables keep their types. (coauth_manager.cpp, executor_messenger.cpp)
THEOREM TypeCorrect == Spec => []TypeOK
<1>1. Init => TypeOK
  BY CoAuthAssumption DEF Init, TypeOK, ExecutorStates, HandleStates, WorkerStates, TimerStates,
     Cancellers, Slots
<1>2. TypeOK /\ [Next]_vars => TypeOK'
  <2> SUFFICES ASSUME TypeOK, [Next]_vars
               PROVE  TypeOK'
    OBVIOUS
  <2> USE CoAuthAssumption DEF TypeOK, HandleStates, WorkerStates, TimerStates, Cancellers,
          Slots, SlotsOf, Kinds, AtWork, ExecutorStates
  <2>1. ASSUME NEW s \in Schedules, RejectSchedule(s)
        PROVE  TypeOK'
    <3>1. \A r \in Schedules : handle'[r] \in {"call", "wait"} => index'[r] \in SlotsOf(r)'
      BY <2>1 DEF RejectSchedule
    <3>2. answers' \in [Schedules -> Seq(Kinds)]
      BY <2>1 DEF RejectSchedule, Answer
    <3> QED
      BY <2>1, <3>1, <3>2 DEF RejectSchedule, poolVars
  <2>2. ASSUME NEW s \in Schedules, SaveSchedule(s)
        PROVE  TypeOK'
    <3> PICK n \in Slots : \E types \in [1..n -> AuthTypes] :
          /\ executors' = [executors EXCEPT ![s] = types]
          /\ executorNum' = [executorNum EXCEPT ![s] = n]
      BY <2>2 DEF SaveSchedule
    <3> PICK types \in [1..n -> AuthTypes] :
          /\ executors' = [executors EXCEPT ![s] = types]
          /\ executorNum' = [executorNum EXCEPT ![s] = n]
      OBVIOUS
    <3>1. types \in Seq(AuthTypes) /\ Len(types) = n
      BY TypesAreSequences
    <3>2. /\ executors' \in [Schedules -> Seq(AuthTypes)]
          /\ \A r \in Schedules : Len(executors'[r]) <= MaxExecutors
      BY <3>1
    <3>3. \A r \in Schedules : handle'[r] \in {"call", "wait"} => index'[r] \in SlotsOf(r)'
      BY <2>2 DEF SaveSchedule
    <3> QED
      BY <2>2, <3>2, <3>3 DEF SaveSchedule
  <2>3. ASSUME NEW s \in Schedules, HandleStep(s)
        PROVE  TypeOK'
    <3>1. CASE MonitorCall(s)
      BY <3>1 DEF MonitorCall, poolVars
    <3>2. CASE FindExecutor(s)
      <4>1. index[s] \in SlotsOf(s) /\ index[s] \in Slots /\ index[s] + 1 \in 1..(MaxExecutors + 1)
        BY <3>2 DEF FindExecutor
      <4>2. CASE handle' = handle
        <5>1. /\ UNCHANGED <<callee, executors>>
              /\ index' = index \/ index' = [index EXCEPT ![s] = @ + 1]
          BY <3>2, <4>2 DEF FindExecutor
        <5>2. index' \in [Schedules -> 1..(MaxExecutors + 1)]
          BY <4>1, <5>1
        <5>3. \A r \in Schedules : handle'[r] \in {"call", "wait"} => index'[r] \in SlotsOf(r)'
          BY <3>2, <4>2, <5>1 DEF FindExecutor
        <5> QED
          BY <3>2, <4>2, <5>1, <5>2, <5>3 DEF FindExecutor, poolVars
      <4>3. CASE handle' # handle
        <5>1. PICK x \in Executors : callee' = [callee EXCEPT ![s][index[s]] = x]
          BY <3>2, <4>3 DEF FindExecutor
        <5>2. callee' \in [Schedules -> [Slots -> Executors \cup {0}]]
          BY <4>1, <5>1
        <5>3. handle' = [handle EXCEPT ![s] = "call"] /\ index' = index
          BY <3>2, <4>3 DEF FindExecutor
        <5> QED
          BY <3>2, <4>1, <5>2, <5>3 DEF FindExecutor, poolVars
      <4> QED
        BY <4>2, <4>3
    <3>3. CASE BeginExecutor(s)
      <4>1. index[s] \in SlotsOf(s) /\ index[s] \in Slots /\ index[s] + 1 \in 1..(MaxExecutors + 1)
        BY <3>3 DEF BeginExecutor
      <4>2. worker' \in [Schedules -> [Slots -> WorkerStates]]
        BY <3>3, CallTypes
      <4>3. callee' \in [Schedules -> [Slots -> Executors \cup {0}]]
        BY <3>3, CallTypes
      <4>5. executeRet' \in [Schedules -> {"SUCCESS", "FAIL"}] /\ handle' \in [Schedules -> HandleStates]
        BY <3>3 DEF BeginExecutor
      <4>6. index' \in [Schedules -> 1..(MaxExecutors + 1)]
        BY <3>3, <4>1 DEF BeginExecutor
      <4>4. \A r \in Schedules : handle'[r] \in {"call", "wait"} => index'[r] \in SlotsOf(r)'
        BY <3>3, <4>1 DEF BeginExecutor
      <4> QED
        BY <3>3, <4>2, <4>3, <4>4, <4>5, <4>6 DEF BeginExecutor, poolVars
    <3>4. CASE EndBeginExecute(s)
      BY <3>4 DEF EndBeginExecute, poolVars
    <3>5. CASE ReportFailure(s)
      BY <3>5 DEF ReportFailure, Answer, poolVars
    <3>6. CASE EraseFailed(s)
      BY <3>6 DEF EraseFailed, DeleteScheduleCallback
    <3>7. CASE UnmonitorFailed(s)
      BY <3>7 DEF UnmonitorFailed, MonitorRemoveCall, poolVars
    <3> QED
      BY <2>3, <3>1, <3>2, <3>3, <3>4, <3>5, <3>6, <3>7 DEF HandleStep
  <2>4. ASSUME NEW s \in Schedules, TimeOutStep(s)
        PROVE  TypeOK'
    <3> USE DEF SetTimer, poolVars, handleVars
    <3>1. CASE TimerFires(s)
      BY <3>1 DEF TimerFires
    <3>2. CASE TimeOutFind(s)
      BY <3>2 DEF TimeOutFind
    <3>3. CASE TimeOutReport(s)
      BY <3>3 DEF TimeOutReport, Answer
    <3>4. CASE TimeOutLookup(s)
      <4>1. CASE s \in scheResPool
        <5>1. "timer" \in Cancellers /\ 1 \in 0..MaxExecutors
          BY DEF Cancellers
        <5>2. cancelIdx' = [cancelIdx EXCEPT !["timer"][s] = 1]
          BY <3>4, <4>1 DEF TimeOutLookup
        <5>3. cancelIdx' \in [Cancellers -> [Schedules -> 0..MaxExecutors]]
          BY <5>1, <5>2, TableUpdate DEF TypeOK
        <5> QED
          BY <3>4, <4>1, <5>3 DEF TimeOutLookup
      <4>2. CASE s \notin scheResPool
        BY <3>4, <4>2 DEF TimeOutLookup
      <4> QED
        BY <4>1, <4>2
    <3>5. CASE TimeOutCancel(s)
      <4>1. cancelIdx' \in [Cancellers -> [Schedules -> 0..MaxExecutors]]
        BY <3>5 DEF TimeOutCancel, EndExecutor
      <4>2. worker' \in [Schedules -> [Slots -> WorkerStates]]
        BY <3>5, EndsLeaveAtWork DEF TimeOutCancel
      <4> QED
        BY <3>5, <4>1, <4>2 DEF TimeOutCancel
    <3>6. CASE TimeOutErase(s)
      BY <3>6 DEF TimeOutErase, DeleteScheduleCallback
    <3> QED
      BY <2>4, <3>1, <3>2, <3>3, <3>4, <3>5, <3>6 DEF TimeOutStep
  <2>5. ASSUME NEW s \in Schedules, CancelLookup(s)
        PROVE  TypeOK'
    BY <2>5 DEF CancelLookup, poolVars, handleVars
  <2>6. ASSUME NEW s \in Schedules, CancelNext(s)
        PROVE  TypeOK'
    <3>1. cancelIdx' \in [Cancellers -> [Schedules -> 0..MaxExecutors]]
      BY <2>6 DEF CancelNext, EndExecutor
    <3>2. worker' \in [Schedules -> [Slots -> WorkerStates]]
      BY <2>6, EndsLeaveAtWork DEF CancelNext
    <3> QED
      BY <2>6, <3>1, <3>2 DEF CancelNext, poolVars, handleVars
  <2>7. ASSUME NEW s \in Schedules, NEW i \in Slots,
               SendDataFind(s, i) \/ SendDataDeliver(s, i) \/ FinishCall(s, i)
        PROVE  TypeOK'
    <3> USE DEF poolVars, handleVars
    <3>1. CASE SendDataFind(s, i)
      BY <3>1 DEF SendDataFind
    <3>2. CASE SendDataDeliver(s, i)
      BY <3>2 DEF SendDataDeliver
    <3>3. CASE FinishCall(s, i)
      BY <3>3 DEF FinishCall, LeaveWork
    <3> QED
      BY <2>7, <3>1, <3>2, <3>3
  <2>8. ASSUME NEW s \in Schedules, NEW i \in Slots, FinishStep(s, i)
        PROVE  TypeOK'
    <3> USE DEF SetWorker, poolVars, handleVars
    <3>1. CASE FinishCount(s, i)
      <4>1. PICK to \in {"minus", "unmonitor"} : SetWorker(s, i, "count", to)
        BY <3>1 DEF FinishCount
      <4> QED
        BY <3>1, <4>1 DEF FinishCount
    <3>2. CASE FinishMinus(s, i)
      <4>1. executorNum' \in [Schedules -> 0..MaxExecutors]
        BY <3>2 DEF FinishMinus
      <4> QED
        BY <3>2, <4>1 DEF FinishMinus
    <3>3. CASE FinishUnmonitor(s, i)
      BY <3>3 DEF FinishUnmonitor, MonitorRemoveCall
    <3>4. CASE FinishFind(s, i)
      BY <3>4 DEF FinishFind
    <3>5. CASE FinishReport(s, i)
      BY <3>5 DEF FinishReport, Answer
    <3>6. CASE FinishErase(s, i)
      BY <3>6 DEF FinishErase, DeleteScheduleCallback
    <3> QED
      BY <2>8, <3>1, <3>2, <3>3, <3>4, <3>5, <3>6 DEF FinishStep
  <2>9. ASSUME NEW x \in Executors, RegisterExecutor(x) \/ ExecutorDied(x) \/ OnRemoteDied(x)
        PROVE  TypeOK'
    <3> USE DEF poolVars, handleVars
    <3>1. CASE RegisterExecutor(x) \/ OnRemoteDied(x)
      BY <3>1 DEF RegisterExecutor, OnRemoteDied
    <3>2. CASE ExecutorDied(x)
      <4>1. worker' \in [Schedules -> [Slots -> WorkerStates]]
        BY <3>2 DEF ExecutorDied
      <4>2. callee' \in [Schedules -> [Slots -> Executors \cup {0}]]
        BY <3>2 DEF ExecutorDied
      <4> QED
        BY <3>2, <4>1, <4>2 DEF ExecutorDied
    <3> QED
      BY <2>9, <3>1, <3>2
  <2>10. ASSUME NEW s \in Schedules, BeginReturns(s)
         PROVE  TypeOK'
    <3>1. index[s] \in SlotsOf(s) /\ index[s] \in Slots /\ index[s] + 1 \in 1..(MaxExecutors + 1)
      BY <2>10 DEF BeginReturns
    <3>2. worker' \in [Schedules -> [Slots -> WorkerStates]]
      BY <2>10, CallTypes
    <3>3. callee' \in [Schedules -> [Slots -> Executors \cup {0}]]
      BY <2>10, CallTypes
    <3>4. \A r \in Schedules : handle'[r] \in {"call", "wait"} => index'[r] \in SlotsOf(r)'
      BY <2>10, <3>1 DEF BeginReturns
    <3> QED
      BY <2>10, <3>1, <3>2, <3>3, <3>4 DEF BeginReturns, poolVars
  <2>11. CASE UNCHANGED vars
    BY <2>11 DEF vars
  <2> QED
    BY <2>1, <2>2, <2>3, <2>4, <2>5, <2>6, <2>7, <2>8, <2>9, <2>10, <2>11 DEF Next
<1> QED
  BY <1>1, <1>2, PTL DEF Spec

-----------------------------------------------------------------------------

(***************************************************************************)
(* Every entry of the pool is watched.  PoolAndMonitorAgree is not         *)
(* inductive: it needs that executors beyond the loop index have not been  *)
(* started, that the timeout is armed before any of them is, and that a    *)
(* Finish past MonitorRemoveCall has left no timeout armed.                *)
(***************************************************************************)

Past(s) == \E i \in Slots : worker[s][i] \in {"find", "report", "erase"}

Watched(s) ==
  timer[s] = "armed" \/ Running(s) \/ handle[s] \in {"monitor", "report", "erase"} \/ Past(s)

\* The loop of BeginExecute has not come to the j-th executor, or its call of
\* OnBeginExecute has not arrived yet.
NotBegun(s, j) == j > index[s] \/ (j = index[s] /\ handle[s] # "wait")

WatchInv(s) ==
  /\ s \in scheResPool => Watched(s)
  /\ timer[s] = "armed" => s \in scheResPool \/ handle[s] = "unmonitor"
  /\ handle[s] \in {"idle", "monitor"} => index[s] = 1 /\ timer[s] = "idle"
  /\ handle[s] = "monitor" => s \in scheResPool
  /\ handle[s] = "unmonitor" => s \notin scheResPool
  /\ \A j \in Slots : NotBegun(s, j) => worker[s][j] = "idle"
  /\ Past(s) => timer[s] # "armed"

AllWatched == \A s \in Schedules : WatchInv(s)

\* What a schedule's invariant says depends on its own state only.
LEMMA WatchFrame ==
  ASSUME NEW s \in Schedules, WatchInv(s),
         s \in scheResPool' <=> s \in scheResPool, handle'[s] = handle[s],
         index'[s] = index[s], worker'[s] = worker[s], timer'[s] = timer[s]
  PROVE  WatchInv(s)'
  BY DEF WatchInv, Watched, Past, Running, NotBegun

\* Neither does it matter how an executor's work goes.
LEMMA WatchWork ==
  ASSUME NEW s \in Schedules, WatchInv(s),
         s \in scheResPool' <=> s \in scheResPool, handle'[s] = handle[s],
         index'[s] = index[s], timer'[s] = timer[s],
         \A j \in Slots : \/ worker'[s][j] = worker[s][j]
                          \/ /\ worker[s][j] \in AtWork
                             /\ worker'[s][j] \notin {"find", "report", "erase"}
  PROVE  WatchInv(s)'
<1>1. Past(s)' <=> Past(s)
  BY DEF Past, AtWork
<1>2. \A j \in Slots : worker[s][j] = "idle" => worker'[s][j] = "idle"
  BY DEF AtWork
<1> QED
  BY <1>1, <1>2 DEF WatchInv, Watched, Running, NotBegun

\* Every schedule keeps this invariant, whichever schedule a step is of.
LEMMA AlwaysWatched == Spec => []AllWatched
<1>1. Init => AllWatched
  <2> SUFFICES ASSUME Init, NEW s \in Schedules
               PROVE  WatchInv(s)
    BY DEF AllWatched
  <2>1. /\ scheResPool = {} /\ handle[s] = "idle" /\ index[s] = 1 /\ timer[s] = "idle"
        /\ \A i \in Slots : worker[s][i] = "idle"
    BY DEF Init
  <2> QED
    BY <2>1 DEF WatchInv, Past, NotBegun
<1>2. TypeOK /\ AllWatched /\ [Next]_vars => AllWatched'
  <2> SUFFICES ASSUME TypeOK, AllWatched, [Next]_vars, NEW r \in Schedules
               PROVE  WatchInv(r)'
    BY DEF AllWatched
  <2> WatchInv(r)
    BY DEF AllWatched
  <2> USE CoAuthAssumption DEF TypeOK, Slots
  <2>1. ASSUME NEW s \in Schedules, RejectSchedule(s)
        PROVE  WatchInv(r)'
    <3>1. CASE r # s
      BY <2>1, <3>1, WatchFrame DEF RejectSchedule, poolVars
    <3>2. CASE r = s
      BY <2>1, <3>2 DEF RejectSchedule, poolVars, WatchInv, Watched, Past, Running, NotBegun
    <3> QED
      BY <3>1, <3>2
  <2>2. ASSUME NEW s \in Schedules, SaveSchedule(s)
        PROVE  WatchInv(r)'
    <3>1. CASE r # s
      BY <2>2, <3>1, WatchFrame DEF SaveSchedule
    <3>2. CASE r = s
      BY <2>2, <3>2 DEF SaveSchedule, WatchInv, Watched, Past, Running, NotBegun
    <3> QED
      BY <3>1, <3>2
  <2>3. ASSUME NEW s \in Schedules, MonitorCall(s)
        PROVE  WatchInv(r)'
    <3>1. CASE r # s
      BY <2>3, <3>1, WatchFrame DEF MonitorCall, poolVars
    <3>2. CASE r = s
      BY <2>3, <3>2 DEF MonitorCall, poolVars, WatchInv, Watched, Past, Running, NotBegun
    <3> QED
      BY <3>1, <3>2
  <2>4. ASSUME NEW s \in Schedules, FindExecutor(s) \/ BeginExecutor(s) \/ BeginReturns(s)
        PROVE  WatchInv(r)'
    <3>1. CASE r # s
      <4>1. worker'[r] = worker[r]
        BY <2>4, <3>1 DEF FindExecutor, BeginExecutor, BeginReturns, LeaveWork
      <4> QED
        BY <2>4, <3>1, <4>1, WatchFrame DEF FindExecutor, BeginExecutor, BeginReturns, poolVars
    <3>2. CASE r = s
      <4>1. index[s] \in Slots /\ (index'[s] = index[s] \/ index'[s] = index[s] + 1)
        BY <2>4 DEF FindExecutor, BeginExecutor, BeginReturns, SlotsOf
      <4>2. /\ handle[s] \in {"execute", "call", "wait"} /\ handle'[s] \in {"execute", "call", "wait"}
            /\ (s \in scheResPool' <=> s \in scheResPool) /\ timer'[s] = timer[s]
        BY <2>4 DEF FindExecutor, BeginExecutor, BeginReturns, poolVars
      <4>3. /\ \A j \in Slots \ {index[s]} : worker'[s][j] = worker[s][j]
            /\ \/ worker'[s][index[s]] = worker[s][index[s]]
               \/ worker[s][index[s]] = "idle" /\ worker'[s][index[s]] = "working"
               \/ worker[s][index[s]] \in AtWork /\ worker'[s][index[s]] = "failed"
        <5>1. CASE FindExecutor(s)
          BY <5>1 DEF FindExecutor
        <5>2. CASE BeginExecutor(s)
          <6>1. worker[s][index[s]] = "idle"
            BY <3>2, <4>1, <5>2 DEF BeginExecutor, WatchInv, NotBegun
          <6> QED
            BY <4>1, <5>2, <6>1 DEF BeginExecutor
        <5>3. CASE BeginReturns(s)
          BY <4>1, <5>3 DEF BeginReturns, LeaveWork
        <5> QED
          BY <2>4, <5>1, <5>2, <5>3
      <4>4. Past(s) <=> Past(s)'
        BY <4>1, <4>3 DEF Past, AtWork
      <4>5. \A j \in Slots : NotBegun(s, j)' => worker'[s][j] = "idle"
        <5>1. ASSUME NEW j \in Slots, NotBegun(s, j)'
              PROVE  j # index[s] \/ (handle[s] # "wait" /\ worker'[s][j] = worker[s][j])
          <6>1. CASE FindExecutor(s)
            BY <6>1 DEF FindExecutor
          <6>2. CASE BeginExecutor(s)
            BY <4>1, <5>1, <6>2 DEF BeginExecutor, NotBegun
          <6>3. CASE BeginReturns(s)
            BY <4>1, <5>1, <6>3 DEF BeginReturns, NotBegun
          <6> QED
            BY <2>4, <6>1, <6>2, <6>3
        <5>2. ASSUME NEW j \in Slots, NotBegun(s, j)'
              PROVE  j >= index[s]
          BY <4>1, <5>2 DEF NotBegun
        <5>3. ASSUME NEW j \in Slots, NotBegun(s, j)'
              PROVE  NotBegun(s, j) /\ worker'[s][j] = worker[s][j]
          BY <4>1, <4>3, <5>1, <5>2, <5>3 DEF NotBegun
        <5> QED
          BY <3>2, <5>3 DEF WatchInv
      <4> QED
        BY <3>2, <4>2, <4>4, <4>5 DEF WatchInv, Watched, Running
    <3> QED
      BY <3>1, <3>2
  <2>5. ASSUME NEW s \in Schedules, EndBeginExecute(s)
        PROVE  WatchInv(r)'
    <3>1. CASE r # s
      BY <2>5, <3>1, WatchFrame DEF EndBeginExecute, poolVars
    <3>2. CASE r = s
      BY <2>5, <3>2 DEF EndBeginExecute, poolVars, WatchInv, Watched, Past, Running, NotBegun
    <3> QED
      BY <3>1, <3>2
  <2>6. ASSUME NEW s \in Schedules, ReportFailure(s)
        PROVE  WatchInv(r)'
    <3>1. CASE r # s
      BY <2>6, <3>1, WatchFrame DEF ReportFailure, poolVars
    <3>2. CASE r = s
      BY <2>6, <3>2 DEF ReportFailure, poolVars, WatchInv, Watched, Past, Running, NotBegun
    <3> QED
      BY <3>1, <3>2
  <2>7. ASSUME NEW s \in Schedules, EraseFailed(s)
        PROVE  WatchInv(r)'
    <3>1. CASE r # s
      BY <2>7, <3>1, WatchFrame DEF EraseFailed, DeleteScheduleCallback
    <3>2. CASE r = s
      BY <2>7, <3>2 DEF EraseFailed, DeleteScheduleCallback, WatchInv, Watched, Past, Running, NotBegun
    <3> QED
      BY <3>1, <3>2
  <2>8. ASSUME NEW s \in Schedules, UnmonitorFailed(s)
        PROVE  WatchInv(r)'
    <3>1. CASE r # s
      BY <2>8, <3>1, WatchFrame DEF UnmonitorFailed, MonitorRemoveCall, poolVars
    <3>2. CASE r = s
      BY <2>8, <3>2 DEF UnmonitorFailed, MonitorRemoveCall, poolVars, WatchInv, Watched, Past, Running, NotBegun
    <3> QED
      BY <3>1, <3>2
  <2>9. ASSUME NEW s \in Schedules, TimerFires(s)
        PROVE  WatchInv(r)'
    <3>1. CASE r # s
      BY <2>9, <3>1, WatchFrame DEF TimerFires, SetTimer, poolVars, handleVars
    <3>2. CASE r = s
      BY <2>9, <3>2 DEF TimerFires, SetTimer, poolVars, handleVars, WatchInv, Watched, Past, Running, NotBegun
    <3> QED
      BY <3>1, <3>2
  <2>10. ASSUME NEW s \in Schedules, TimeOutFind(s)
        PROVE  WatchInv(r)'
    <3>1. CASE r # s
      BY <2>10, <3>1, WatchFrame DEF TimeOutFind, SetTimer, poolVars, handleVars
    <3>2. CASE r = s
      BY <2>10, <3>2 DEF TimeOutFind, SetTimer, poolVars, handleVars, WatchInv, Watched, Past, Running, NotBegun
    <3> QED
      BY <3>1, <3>2
  <2>11. ASSUME NEW s \in Schedules, TimeOutReport(s)
        PROVE  WatchInv(r)'
    <3>1. CASE r # s
      BY <2>11, <3>1, WatchFrame DEF TimeOutReport, SetTimer, poolVars, handleVars
    <3>2. CASE r = s
      BY <2>11, <3>2 DEF TimeOutReport, SetTimer, poolVars, handleVars, WatchInv, Watched, Past, Running, NotBegun
    <3> QED
      BY <3>1, <3>2
  <2>12. ASSUME NEW s \in Schedules, TimeOutLookup(s)
        PROVE  WatchInv(r)'
    <3>1. CASE r # s
      BY <2>12, <3>1, WatchFrame DEF TimeOutLookup, SetTimer, poolVars, handleVars
    <3>2. CASE r = s
      BY <2>12, <3>2 DEF TimeOutLookup, SetTimer, poolVars, handleVars, WatchInv, Watched, Past, Running, NotBegun
    <3> QED
      BY <3>1, <3>2
  <2>13. ASSUME NEW s \in Schedules, TimeOutCancel(s)
        PROVE  WatchInv(r)'
    <3>1. \A j \in Slots : \/ worker'[r][j] = worker[r][j]
                           \/ worker[r][j] \in AtWork /\ worker'[r][j] \in AtWork
      BY <2>13, EndsLeaveAtWork DEF TimeOutCancel, Cancellers
    <3>2. \A j \in Slots : \/ worker'[r][j] = worker[r][j]
                           \/ /\ worker[r][j] \in AtWork
                              /\ worker'[r][j] \notin {"find", "report", "erase"}
      BY <3>1 DEF AtWork
    <3>3. CASE r # s
      BY <2>13, <3>2, <3>3, WatchWork DEF TimeOutCancel, SetTimer, poolVars, handleVars
    <3>4. CASE r = s
      <4>1. Past(s)' <=> Past(s)
        BY <3>2, <3>4 DEF Past, AtWork
      <4>2. \A j \in Slots : worker[s][j] = "idle" => worker'[s][j] = "idle"
        BY <3>2, <3>4 DEF AtWork
      <4> QED
        BY <2>13, <3>4, <4>1, <4>2
        DEF TimeOutCancel, SetTimer, poolVars, handleVars, WatchInv, Watched, Running, NotBegun
    <3> QED
      BY <3>3, <3>4
  <2>14. ASSUME NEW s \in Schedules, TimeOutErase(s)
        PROVE  WatchInv(r)'
    <3>1. CASE r # s
      BY <2>14, <3>1, WatchFrame DEF TimeOutErase, SetTimer, DeleteScheduleCallback, handleVars
    <3>2. CASE r = s
      BY <2>14, <3>2 DEF TimeOutErase, SetTimer, DeleteScheduleCallback, handleVars, WatchInv, Watched, Past, Running, NotBegun
    <3> QED
      BY <3>1, <3>2
  <2>15. ASSUME NEW s \in Schedules, CancelLookup(s)
        PROVE  WatchInv(r)'
    <3>1. CASE r # s
      BY <2>15, <3>1, WatchFrame DEF CancelLookup, poolVars, handleVars
    <3>2. CASE r = s
      BY <2>15, <3>2 DEF CancelLookup, poolVars, handleVars, WatchInv, Watched, Past, Running, NotBegun
    <3> QED
      BY <3>1, <3>2
  <2>16. ASSUME NEW s \in Schedules, CancelNext(s)
        PROVE  WatchInv(r)'
    <3>1. \A j \in Slots : \/ worker'[r][j] = worker[r][j]
                           \/ worker[r][j] \in AtWork /\ worker'[r][j] \in AtWork
      BY <2>16, EndsLeaveAtWork DEF CancelNext, Cancellers
    <3>2. \A j \in Slots : \/ worker'[r][j] = worker[r][j]
                           \/ /\ worker[r][j] \in AtWork
                              /\ worker'[r][j] \notin {"find", "report", "erase"}
      BY <3>1 DEF AtWork
    <3> QED
      BY <2>16, <3>2, WatchWork DEF CancelNext, poolVars, handleVars
  <2>17. ASSUME NEW s \in Schedules, NEW i \in Slots, SendDataFind(s, i)
        PROVE  WatchInv(r)'
    <3>1. CASE r # s
      BY <2>17, <3>1, WatchFrame DEF SendDataFind, poolVars, handleVars
    <3>2. CASE r = s
      BY <2>17, <3>2 DEF SendDataFind, poolVars, handleVars, WatchInv, Watched, Past, Running, NotBegun
    <3> QED
      BY <3>1, <3>2
  <2>18. ASSUME NEW s \in Schedules, NEW i \in Slots, SendDataDeliver(s, i)
        PROVE  WatchInv(r)'
    <3>1. CASE r # s
      BY <2>18, <3>1, WatchFrame DEF SendDataDeliver, poolVars, handleVars
    <3>2. CASE r = s
      BY <2>18, <3>2 DEF SendDataDeliver, poolVars, handleVars, WatchInv, Watched, Past, Running, NotBegun
    <3> QED
      BY <3>1, <3>2
  <2>19. ASSUME NEW s \in Schedules, NEW i \in Slots, FinishCall(s, i)
        PROVE  WatchInv(r)'
    <3>1. \A j \in Slots : \/ worker'[r][j] = worker[r][j]
                           \/ /\ worker[r][j] \in AtWork
                              /\ worker'[r][j] \notin {"find", "report", "erase"}
      BY <2>19 DEF FinishCall, LeaveWork
    <3> QED
      BY <2>19, <3>1, WatchWork DEF FinishCall, poolVars
  <2>20. ASSUME NEW s \in Schedules, NEW i \in Slots, FinishCount(s, i)
        PROVE  WatchInv(r)'
    <3>1. CASE r # s
      BY <2>20, <3>1, WatchFrame DEF FinishCount, SetWorker, poolVars, handleVars
    <3>2. CASE r = s
      BY <2>20, <3>2 DEF FinishCount, SetWorker, poolVars, handleVars, WatchInv, Watched, Past, Running, NotBegun
    <3> QED
      BY <3>1, <3>2
  <2>21. ASSUME NEW s \in Schedules, NEW i \in Slots, FinishMinus(s, i)
        PROVE  WatchInv(r)'
    <3>1. CASE r # s
      BY <2>21, <3>1, WatchFrame DEF FinishMinus, SetWorker, handleVars
    <3>2. CASE r = s
      BY <2>21, <3>2 DEF FinishMinus, SetWorker, handleVars, WatchInv, Watched, Past, Running, NotBegun
    <3> QED
      BY <3>1, <3>2
  <2>22. ASSUME NEW s \in Schedules, NEW i \in Slots, FinishUnmonitor(s, i)
        PROVE  WatchInv(r)'
    <3>1. CASE r # s
      BY <2>22, <3>1, WatchFrame DEF FinishUnmonitor, SetWorker, MonitorRemoveCall, poolVars, handleVars
    <3>2. CASE r = s
      BY <2>22, <3>2 DEF FinishUnmonitor, SetWorker, MonitorRemoveCall, poolVars, handleVars, WatchInv, Watched, Past, Running, NotBegun
    <3> QED
      BY <3>1, <3>2
  <2>23. ASSUME NEW s \in Schedules, NEW i \in Slots, FinishFind(s, i)
        PROVE  WatchInv(r)'
    <3>1. CASE r # s
      BY <2>23, <3>1, WatchFrame DEF FinishFind, SetWorker, poolVars, handleVars
    <3>2. CASE r = s
      BY <2>23, <3>2 DEF FinishFind, SetWorker, poolVars, handleVars, WatchInv, Watched, Past, Running, NotBegun
    <3> QED
      BY <3>1, <3>2
  <2>24. ASSUME NEW s \in Schedules, NEW i \in Slots, FinishReport(s, i)
        PROVE  WatchInv(r)'
    <3>1. CASE r # s
      BY <2>24, <3>1, WatchFrame DEF FinishReport, SetWorker, poolVars, handleVars
    <3>2. CASE r = s
      BY <2>24, <3>2 DEF FinishReport, SetWorker, poolVars, handleVars, WatchInv, Watched, Past, Running, NotBegun
    <3> QED
      BY <3>1, <3>2
  <2>25. ASSUME NEW s \in Schedules, NEW i \in Slots, FinishErase(s, i)
        PROVE  WatchInv(r)'
    <3>1. CASE r # s
      BY <2>25, <3>1, WatchFrame DEF FinishErase, SetWorker, DeleteScheduleCallback, handleVars
    <3>2. CASE r = s
      <4>1. timer[s] # "armed" /\ s \notin scheResPool'
        BY <2>25, <3>2 DEF FinishErase, SetWorker, DeleteScheduleCallback, WatchInv, Past
      <4>2. \A j \in Slots : worker'[s][j] = IF j = i THEN "finished" ELSE worker[s][j]
        BY <2>25 DEF FinishErase, SetWorker
      <4>3. worker[s][i] = "erase"
        BY <2>25 DEF FinishErase, SetWorker
      <4>4. ~NotBegun(s, i)
        BY <3>2, <4>3 DEF WatchInv
      <4>5. handle[s] # "monitor"
        BY <3>2, <4>4 DEF WatchInv, NotBegun
      <4>6. \A j \in Slots : NotBegun(s, j) => worker'[s][j] = "idle"
        BY <3>2, <4>2, <4>4 DEF WatchInv
      <4>7. handle'[s] = handle[s] /\ index'[s] = index[s] /\ timer'[s] = timer[s]
        BY <2>25 DEF FinishErase, handleVars
      <4> QED
        BY <3>2, <4>1, <4>5, <4>6, <4>7 DEF WatchInv, NotBegun
    <3> QED
      BY <3>1, <3>2
  <2>26. ASSUME NEW x \in Executors, RegisterExecutor(x) \/ OnRemoteDied(x)
        PROVE  WatchInv(r)'
    BY <2>26, WatchFrame DEF RegisterExecutor, OnRemoteDied, poolVars, handleVars
  <2>27. ASSUME NEW x \in Executors, ExecutorDied(x)
        PROVE  WatchInv(r)'
    <3>1. \A j \in Slots : \/ worker'[r][j] = worker[r][j]
                           \/ /\ worker[r][j] \in AtWork
                              /\ worker'[r][j] \notin {"find", "report", "erase"}
      BY <2>27 DEF ExecutorDied, AtWorkFor
    <3> QED
      BY <2>27, <3>1, WatchWork DEF ExecutorDied, poolVars
  <2>28. CASE UNCHANGED vars
    BY <2>28, WatchFrame DEF vars
  <2> QED
    BY <2>1, <2>2, <2>3, <2>4, <2>5, <2>6, <2>7, <2>8, <2>9, <2>10, <2>11, <2>12, <2>13, <2>14, <2>15, <2>16, <2>17, <2>18, <2>19, <2>20, <2>21, <2>22, <2>23, <2>24, <2>25, <2>26, <2>27, <2>28
    DEF Next, HandleStep, TimeOutStep, FinishStep
<1> QED
  BY <1>1, <1>2, TypeCorrect, PTL DEF Spec

\* The pool and the monitor agree, in every state.
THEOREM PoolIsWatched == Spec => []PoolAndMonitorAgree
<1>1. AllWatched => PoolAndMonitorAgree
  BY DEF AllWatched, WatchInv, Watched, Past, PoolAndMonitorAgree
<1> QED
  BY <1>1, AlwaysWatched, PTL

(***************************************************************************)
(* The count of the entry is the number of executors not counted yet, as   *)
(* long as there is an entry.  So an executor that finds 1 there has all   *)
(* others behind it; one that reads an uninitialized count finds no entry  *)
(* in FinishFind, for an entry that is gone never comes back.              *)
(***************************************************************************)

Counted(s) == {j \in SlotsOf(s) : worker[s][j] = "counted"}

OthersCounted(s, i) == \A j \in SlotsOf(s) \ {i} : worker[s][j] = "counted"

\* Who may have a message on its way.
MaySend == AtWork \cup {"failed", "dead"}

\* A Finish that will report, unless the entry goes.
Reporting(s, i) ==
  \/ worker[s][i] \in {"report", "erase"}
  \/ worker[s][i] \in {"unmonitor", "find"} /\ s \in scheResPool

CountInv(s) ==
  /\ \A i \in Slots : worker[s][i] # "idle" => i \in SlotsOf(s)
  /\ \A i \in tips[s] : worker[s][i] \in MaySend
  /\ s \in scheResPool => executorNum[s] = Len(executors[s]) - Cardinality(Counted(s))
  /\ \A i \in Slots : Reporting(s, i) => OthersCounted(s, i)

AllCounted == \A s \in Schedules : CountInv(s)

\* A step that leaves a schedule's executors alone, and may erase its entry.
LEMMA CountFrame ==
  ASSUME NEW s \in Schedules, CountInv(s),
         s \in scheResPool' => s \in scheResPool, executors'[s] = executors[s],
         executorNum'[s] = executorNum[s], worker'[s] = worker[s],
         tips'[s] \subseteq tips[s]
  PROVE  CountInv(s)'
<1>1. Counted(s)' = Counted(s) /\ SlotsOf(s)' = SlotsOf(s)
  BY DEF Counted, SlotsOf
<1> QED
  BY <1>1 DEF CountInv, Reporting, OthersCounted

\* A step of one executor that does not come from or go to "counted".
LEMMA MoveFrame ==
  ASSUME NEW s \in Schedules, CountInv(s), NEW i \in SlotsOf(s), NEW to,
         tips[s] \subseteq Slots, SlotsOf(s) \subseteq Slots,
         \A j \in Slots : worker'[s][j] = IF j = i THEN to ELSE worker[s][j],
         worker[s][i] # "counted", to # "counted",
         s \in scheResPool' => s \in scheResPool, executors'[s] = executors[s],
         executorNum'[s] = executorNum[s], tips'[s] = tips[s],
         i \notin tips[s] \/ to \in MaySend,
         Reporting(s, i)' => OthersCounted(s, i)
  PROVE  CountInv(s)'
<1>1. SlotsOf(s)' = SlotsOf(s)
  BY DEF SlotsOf
<1>2. Counted(s)' = Counted(s)
  BY <1>1 DEF Counted
<1>3. \A j \in Slots : worker'[s][j] # "idle" => j \in SlotsOf(s)'
  BY <1>1 DEF CountInv
<1>4. \A j \in tips'[s] : worker'[s][j] \in MaySend
  BY DEF CountInv
<1>5. s \in scheResPool' => executorNum'[s] = Len(executors'[s]) - Cardinality(Counted(s)')
  BY <1>2 DEF CountInv
<1>6. ASSUME NEW j \in Slots, Reporting(s, j)'
      PROVE  OthersCounted(s, j)'
  <2>1. CASE j = i
    BY <1>1, <1>6, <2>1 DEF OthersCounted
  <2>2. CASE j # i
    <3>1. Reporting(s, j)
      BY <1>6, <2>2 DEF Reporting
    <3>2. OthersCounted(s, j)
      BY <3>1 DEF CountInv
    <3>3. worker[s][i] = "counted"
      BY <2>2, <3>2 DEF OthersCounted
    <3> QED
      BY <3>3
  <2> QED
    BY <2>1, <2>2
<1> QED
  BY <1>3, <1>4, <1>5, <1>6 DEF CountInv

\* Executors at work stay so, or fail, or die.
LEMMA WorkFrame ==
  ASSUME NEW s \in Schedules, CountInv(s), tips[s] \subseteq Slots, SlotsOf(s) \subseteq Slots,
         \A j \in Slots : \/ worker'[s][j] = worker[s][j]
                          \/ worker[s][j] \in AtWork /\ worker'[s][j] \in MaySend,
         s \in scheResPool' <=> s \in scheResPool, executors'[s] = executors[s],
         executorNum'[s] = executorNum[s], tips'[s] = tips[s]
  PROVE  CountInv(s)'
<1>1. SlotsOf(s)' = SlotsOf(s)
  BY DEF SlotsOf
<1>2. \A j \in Slots : worker'[s][j] = "counted" <=> worker[s][j] = "counted"
  BY DEF AtWork, MaySend
<1>3. Counted(s)' = Counted(s)
  BY <1>1, <1>2 DEF Counted
<1>4. \A j \in Slots : Reporting(s, j)' => OthersCounted(s, j)'
  <2> SUFFICES ASSUME NEW j \in Slots, Reporting(s, j)'
               PROVE  OthersCounted(s, j)'
    OBVIOUS
  <2>1. Reporting(s, j)
    BY DEF Reporting, AtWork, MaySend
  <2> QED
    BY <1>1, <1>2, <2>1 DEF CountInv, OthersCounted
<1>5. \A j \in Slots : worker'[s][j] # "idle" => j \in SlotsOf(s)'
  BY <1>1 DEF CountInv, AtWork
<1>6. \A j \in tips'[s] : worker'[s][j] \in MaySend
  BY DEF CountInv
<1> QED
  BY <1>3, <1>4, <1>5, <1>6 DEF CountInv

\* The executors that are counted are finitely many, and no more than there are.
LEMMA CountedIsFinite ==
  ASSUME TypeOK, NEW s \in Schedules
  PROVE  /\ IsFiniteSet(SlotsOf(s)) /\ Cardinality(SlotsOf(s)) = Len(executors[s])
         /\ IsFiniteSet(Counted(s)) /\ Cardinality(Counted(s)) \in Nat
         /\ Len(executors[s]) \in Nat /\ SlotsOf(s) \subseteq Slots
<1>1. Len(executors[s]) \in Nat /\ Len(executors[s]) <= MaxExecutors
  BY DEF TypeOK
<1>2. IsFiniteSet(SlotsOf(s)) /\ Cardinality(SlotsOf(s)) = Len(executors[s])
  BY <1>1, FS_Interval DEF SlotsOf
<1>3. IsFiniteSet(Counted(s))
  BY <1>2, FS_Subset DEF Counted
<1>4. Cardinality(Counted(s)) \in Nat
  BY <1>3, FS_CardinalityType
<1>5. SlotsOf(s) \subseteq Slots
  BY <1>1, CoAuthAssumption DEF SlotsOf, Slots
<1> QED
  BY <1>1, <1>2, <1>3, <1>4, <1>5

\* An executor that finds a count of 1 or less is the last.
LEMMA LastOfCount ==
  ASSUME TypeOK, NEW s \in Schedules, CountInv(s), s \in scheResPool, executorNum[s] <= 1,
         NEW i \in SlotsOf(s), worker[s][i] # "counted"
  PROVE  OthersCounted(s, i)
<1> DEFINE Others == SlotsOf(s) \ {i}
<1>1. IsFiniteSet(Others) /\ Cardinality(Others) = Len(executors[s]) - 1
  BY CountedIsFinite, FS_RemoveElement
<1>2. Counted(s) \subseteq Others
  BY DEF Counted
<1>3. Cardinality(Counted(s)) <= Cardinality(Others)
  BY <1>1, <1>2, FS_Subset
<1>4. Cardinality(Counted(s)) >= Len(executors[s]) - 1
  BY CountedIsFinite DEF CountInv
<1>5. Cardinality(Counted(s)) = Cardinality(Others)
  BY <1>1, <1>3, <1>4, CountedIsFinite
<1>6. Counted(s) = Others
  BY <1>1, <1>2, <1>5, FS_Subset
<1> QED
  BY <1>6 DEF Counted, OthersCounted

\* The steps of a schedule that its executors' counts do not see.
LEMMA QuietSteps ==
  ASSUME TypeOK, AllCounted, NEW r \in Schedules, NEW s \in Schedules,
         \/ RejectSchedule(s) \/ MonitorCall(s) \/ FindExecutor(s) \/ EndBeginExecute(s)
         \/ ReportFailure(s) \/ EraseFailed(s) \/ UnmonitorFailed(s) \/ TimeOutStep(s)
         \/ CancelLookup(s) \/ CancelNext(s)
  PROVE  CountInv(r)'
<1> USE DEF poolVars, handleVars
<1>1. CountInv(r)
  BY DEF AllCounted
<1>2. CASE UNCHANGED <<scheResPool, executors, executorNum, worker, tips>>
  BY <1>1, <1>2, CountFrame
<1>3. CASE DeleteScheduleCallback(s) /\ UNCHANGED <<executors, executorNum, worker, tips>>
  BY <1>1, <1>3, CountFrame DEF DeleteScheduleCallback
<1>4. CASE TimeOutCancel(s) \/ CancelNext(s)
  <2>1. \A k \in Slots : \/ worker'[r][k] = worker[r][k]
                         \/ worker[r][k] \in AtWork /\ worker'[r][k] \in MaySend
    BY <1>4, EndsLeaveAtWork DEF TimeOutCancel, CancelNext, Cancellers, MaySend
  <2>2. UNCHANGED <<scheResPool, executors, executorNum, tips>>
    BY <1>4 DEF TimeOutCancel, CancelNext
  <2>3. SlotsOf(r) \subseteq Slots /\ tips[r] \subseteq Slots
    BY CountedIsFinite DEF TypeOK
  <2> QED
    BY <1>1, <2>1, <2>2, <2>3, WorkFrame
<1> QED
  BY <1>2, <1>3, <1>4 DEF RejectSchedule, MonitorCall, FindExecutor, EndBeginExecute,
     ReportFailure, EraseFailed, UnmonitorFailed, TimeOutStep, TimerFires, TimeOutFind,
     TimeOutReport, TimeOutLookup, TimeOutErase, CancelLookup

\* A new schedule starts with one count for each of its executors.
LEMMA SaveCounts ==
  ASSUME TypeOK, AllWatched, AllCounted, NEW r \in Schedules, NEW s \in Schedules, SaveSchedule(s)
  PROVE  CountInv(r)'
<1>1. CASE r # s
  BY <1>1, CountFrame DEF SaveSchedule, AllCounted, TypeOK
<1>2. CASE r = s
  <2>1. PICK n \in Slots : \E types \in [1..n -> AuthTypes] :
          /\ executors' = [executors EXCEPT ![s] = types]
          /\ executorNum' = [executorNum EXCEPT ![s] = n]
    BY DEF SaveSchedule
  <2>2. PICK types \in [1..n -> AuthTypes] :
          /\ executors' = [executors EXCEPT ![s] = types]
          /\ executorNum' = [executorNum EXCEPT ![s] = n]
    BY <2>1
  <2>3. executorNum'[s] = n /\ Len(executors'[s]) = n /\ n \in Nat
    BY <2>2, TypesAreSequences, CoAuthAssumption DEF TypeOK, Slots
  <2>4. /\ \A j \in Slots : worker'[s][j] = "idle"
        /\ \A j \in SlotsOf(s)' : j \in Slots
    BY <2>3, CoAuthAssumption DEF SaveSchedule, AllWatched, WatchInv, NotBegun, Slots, SlotsOf
  <2>5. Counted(s)' = {}
    BY <2>4 DEF Counted
  <2>6. Cardinality(Counted(s)') = 0
    BY <2>5, FS_EmptySet
  <2>7. tips'[s] = {}
    <3>1. \A j \in Slots : worker[s][j] = "idle"
      BY CoAuthAssumption DEF SaveSchedule, AllWatched, WatchInv, NotBegun, Slots
    <3>2. tips[s] = {}
      BY <3>1 DEF AllCounted, CountInv, TypeOK, MaySend, AtWork
    <3> QED
      BY <3>2 DEF SaveSchedule
  <2>8. \A j \in Slots : ~Reporting(s, j)'
    BY <2>4 DEF Reporting
  <2>9. \A j \in tips'[s] : worker'[s][j] \in MaySend
    BY <2>7
  <2>10. executorNum'[s] = Len(executors'[s]) - Cardinality(Counted(s)')
    BY <2>3, <2>6
  <2> QED
    BY <1>2, <2>4, <2>8, <2>9, <2>10 DEF CountInv
<1> QED
  BY <1>1, <1>2

\* OnBeginExecute arrives at an executor that has done nothing yet; it returns
\* while the executor is at work, or past it.
LEMMA BeginCounts ==
  ASSUME TypeOK, AllWatched, AllCounted, NEW r \in Schedules, NEW s \in Schedules,
         BeginExecutor(s) \/ BeginReturns(s)
  PROVE  CountInv(r)'
<1> USE DEF poolVars
<1>1. index[s] \in SlotsOf(s) /\ index[s] \in Slots /\ SlotsOf(s) \subseteq Slots /\ SlotsOf(r) \subseteq Slots
  BY CountedIsFinite DEF TypeOK, BeginExecutor, BeginReturns
<1>2. UNCHANGED <<scheResPool, executors, executorNum, tips>>
  BY DEF BeginExecutor, BeginReturns
<1>3. CountInv(s) /\ CountInv(r) /\ tips[s] \subseteq Slots /\ tips[r] \subseteq Slots
  BY DEF AllCounted, TypeOK
<1>4. CASE worker' = worker
  BY <1>2, <1>3, <1>4, CountFrame
<1>5. CASE worker' # worker /\ BeginExecutor(s)
  <2>1. worker[s][index[s]] = "idle"
    BY <1>1, <1>5 DEF BeginExecutor, AllWatched, WatchInv, NotBegun
  <2>2. /\ \A j \in Slots : worker'[s][j] = IF j = index[s] THEN "working" ELSE worker[s][j]
        /\ r # s => worker'[r] = worker[r]
        /\ worker'[s][index[s]] = "working"
    BY <1>1, <1>5 DEF BeginExecutor, TypeOK
  <2>3. index[s] \notin tips[s]
    BY <1>3, <2>1 DEF CountInv, MaySend, AtWork
  <2>4. CountInv(s)'
    <3>1. PICK i \in SlotsOf(s) : i = index[s]
      BY <1>1
    <3>2. /\ ~Reporting(s, i)' /\ i \notin tips[s] /\ worker[s][i] = "idle"
          /\ \A j \in Slots : worker'[s][j] = IF j = i THEN "working" ELSE worker[s][j]
      BY <2>1, <2>2, <2>3, <3>1 DEF Reporting
    <3> QED
      BY <1>1, <1>2, <1>3, <3>2, MoveFrame
  <2> QED
    BY <1>2, <1>3, <2>2, <2>4, CountFrame
<1>6. CASE worker' # worker /\ BeginReturns(s)
  <2>1. worker[s][index[s]] \in AtWork /\ worker' = [worker EXCEPT ![s][index[s]] = "failed"]
    BY <1>6 DEF BeginReturns, LeaveWork
  <2>2. /\ \A j \in Slots : worker'[s][j] = IF j = index[s] THEN "failed" ELSE worker[s][j]
        /\ r # s => worker'[r] = worker[r]
    BY <1>1, <2>1 DEF TypeOK
  <2>3. \A j \in Slots : \/ worker'[s][j] = worker[s][j]
                         \/ worker[s][j] \in AtWork /\ worker'[s][j] \in MaySend
    BY <2>1, <2>2 DEF MaySend
  <2>4. CountInv(s)'
    BY <1>1, <1>2, <1>3, <2>3, WorkFrame
  <2> QED
    BY <1>2, <1>3, <2>2, <2>4, CountFrame
<1> QED
  BY <1>4, <1>5, <1>6

\* SendData, and a Finish that is called.
LEMMA SendCounts ==
  ASSUME TypeOK, AllCounted, NEW r \in Schedules, NEW s \in Schedules, NEW i \in Slots,
         SendDataFind(s, i) \/ SendDataDeliver(s, i) \/ FinishCall(s, i)
  PROVE  CountInv(r)'
<1> USE DEF poolVars, handleVars
<1>1. CASE r # s
  BY <1>1, CountFrame DEF SendDataFind, SendDataDeliver, FinishCall, LeaveWork, AllCounted, TypeOK
<1>2. CASE r = s /\ SendDataDeliver(s, i)
  BY <1>2, CountFrame DEF SendDataDeliver, AllCounted, TypeOK
<1>3. CASE r = s /\ SendDataFind(s, i)
  <2>1. Counted(s)' = Counted(s) /\ SlotsOf(s)' = SlotsOf(s)
    BY <1>3 DEF SendDataFind, Counted, SlotsOf
  <2> QED
    BY <1>3, <2>1 DEF SendDataFind, AllCounted, CountInv, Reporting, OthersCounted, TypeOK, MaySend
<1>4. CASE r = s /\ FinishCall(s, i)
  <2>1. /\ i \in SlotsOf(s) /\ SlotsOf(s) \subseteq Slots /\ tips[s] \subseteq Slots /\ i \notin tips[s]
        /\ worker[s][i] \in AtWork
    BY <1>4, CountedIsFinite DEF FinishCall, LeaveWork, AllCounted, CountInv, TypeOK, AtWork
  <2>2. \A j \in Slots : worker'[s][j] = IF j = i THEN "count" ELSE worker[s][j]
    BY <1>4 DEF FinishCall, LeaveWork, TypeOK
  <2>3. ~Reporting(s, i)'
    BY <2>2 DEF Reporting
  <2> QED
    BY <1>4, <2>1, <2>2, <2>3, MoveFrame DEF FinishCall, AllCounted, AtWork
<1> QED
  BY <1>1, <1>2, <1>3, <1>4

\* Finish: a count that is read leads to a report only when the others are
\* behind it, and counting down takes one executor out of the count.
LEMMA FinishCounts ==
  ASSUME TypeOK, AllCounted, NEW r \in Schedules, NEW s \in Schedules, NEW i \in Slots,
         FinishStep(s, i)
  PROVE  CountInv(r)'
<1> USE DEF SetWorker, poolVars, handleVars
<1>1. CASE r # s
  <2>1. /\ executors'[r] = executors[r] /\ tips' = tips /\ worker'[r] = worker[r]
        /\ executorNum'[r] = executorNum[r] /\ (r \in scheResPool' => r \in scheResPool)
    BY <1>1 DEF FinishStep, FinishCount, FinishMinus, FinishUnmonitor, FinishFind, FinishReport,
       FinishErase, DeleteScheduleCallback, TypeOK
  <2> QED
    BY <1>1, <2>1, CountFrame DEF AllCounted
<1>2. CountInv(s)'
  <2>1. CountInv(s) /\ SlotsOf(s) \subseteq Slots /\ tips[s] \subseteq Slots
    BY CountedIsFinite DEF AllCounted, TypeOK
  <2>2. worker[s][i] \in {"count", "minus", "unmonitor", "find", "report", "erase"}
    BY DEF FinishStep, FinishCount, FinishMinus, FinishUnmonitor, FinishFind, FinishReport, FinishErase
  <2>3. i \in SlotsOf(s) /\ i \notin tips[s]
    BY <2>1, <2>2 DEF CountInv, MaySend, AtWork
  <2>4. ASSUME NEW to, to # "counted", worker' = [worker EXCEPT ![s][i] = to],
               s \in scheResPool' => s \in scheResPool,
               executors' = executors, executorNum' = executorNum, tips' = tips,
               Reporting(s, i)' => OthersCounted(s, i)
        PROVE  CountInv(s)'
    <3>1. \A j \in Slots : worker'[s][j] = IF j = i THEN to ELSE worker[s][j]
      BY <2>4 DEF TypeOK
    <3> QED
      BY <2>1, <2>2, <2>3, <2>4, <3>1, MoveFrame
  <2>5. ASSUME NEW to, worker' = [worker EXCEPT ![s][i] = to]
        PROVE  worker'[s][i] = to
    BY <2>5 DEF TypeOK
  <2>6. CASE FinishCount(s, i)
    <3>1. PICK to \in {"minus", "unmonitor"} : worker' = [worker EXCEPT ![s][i] = to]
      BY <2>6 DEF FinishCount
    <3>2. ASSUME Reporting(s, i)'
          PROVE  OthersCounted(s, i)
      <4>1. s \in scheResPool /\ executorNum[s] <= 1 /\ worker[s][i] # "counted"
        BY <2>2, <2>5, <2>6, <3>1, <3>2 DEF FinishCount, Reporting
      <4> QED
        BY <2>1, <2>3, <4>1, LastOfCount
    <3> QED
      BY <2>4, <2>6, <3>1, <3>2 DEF FinishCount
  <2>7. CASE FinishMinus(s, i)
    <3>1. \A j \in Slots : worker'[s][j] = IF j = i THEN "counted" ELSE worker[s][j]
      BY <2>7 DEF FinishMinus, TypeOK
    <3>2. /\ UNCHANGED <<scheResPool, executors, tips>> /\ SlotsOf(s)' = SlotsOf(s)
          /\ worker[s][i] = "minus"
      BY <2>7 DEF FinishMinus, SlotsOf
    <3>3. Counted(s)' = Counted(s) \cup {i}
      BY <2>1, <2>3, <3>1, <3>2 DEF Counted
    <3>4. Cardinality(Counted(s)') = Cardinality(Counted(s)) + 1
      <4>1. i \notin Counted(s)
        BY <3>2 DEF Counted
      <4> QED
        BY <3>3, <4>1, CountedIsFinite, FS_AddElement
    <3>5. s \in scheResPool' => executorNum'[s] = Len(executors'[s]) - Cardinality(Counted(s)')
      <4> SUFFICES ASSUME s \in scheResPool
                   PROVE  executorNum'[s] = Len(executors[s]) - Cardinality(Counted(s)')
        BY <3>2
      <4>1. executorNum[s] = Len(executors[s]) - Cardinality(Counted(s))
        BY <2>1 DEF CountInv
      <4>2. executorNum[s] > 0
        <5>1. Cardinality(Counted(s)) + 1 <= Len(executors[s])
          <6>1. Counted(s) \cup {i} \in SUBSET SlotsOf(s)
            BY <2>3 DEF Counted
          <6>2. Cardinality(Counted(s) \cup {i}) <= Cardinality(SlotsOf(s))
            BY <6>1, CountedIsFinite, FS_Subset
          <6> QED
            BY <3>3, <3>4, <6>2, CountedIsFinite
        <5> QED
          BY <4>1, <5>1, CountedIsFinite
      <4>3. executorNum'[s] = executorNum[s] - 1
        BY <2>7, <4>2 DEF FinishMinus, TypeOK
      <4> QED
        BY <3>4, <4>1, <4>3, CountedIsFinite
    <3>6. \A j \in Slots : worker'[s][j] # "idle" => j \in SlotsOf(s)'
      BY <2>1, <2>3, <3>1, <3>2 DEF CountInv
    <3>7. \A j \in tips'[s] : worker'[s][j] \in MaySend
      BY <2>1, <2>3, <3>1, <3>2 DEF CountInv
    <3>8. ASSUME NEW j \in Slots, Reporting(s, j)'
          PROVE  OthersCounted(s, j)'
      <4>1. j # i /\ Reporting(s, j)
        BY <3>1, <3>2, <3>8 DEF Reporting
      <4>2. OthersCounted(s, j)
        BY <2>1, <4>1 DEF CountInv
      <4> QED
        BY <2>1, <3>1, <3>2, <4>2 DEF OthersCounted
    <3> QED
      BY <3>5, <3>6, <3>7, <3>8 DEF CountInv
  <2>8. CASE FinishUnmonitor(s, i)
    <3>1. Reporting(s, i)' => OthersCounted(s, i)
      BY <2>1, <2>8 DEF FinishUnmonitor, Reporting, CountInv
    <3> QED
      BY <2>4, <2>8, <3>1 DEF FinishUnmonitor
  <2>9. CASE FinishFind(s, i)
    <3>1. PICK to \in {"report", "finished"} : worker' = [worker EXCEPT ![s][i] = to] /\ (to = "report" => s \in scheResPool)
      BY <2>9 DEF FinishFind
    <3>2. Reporting(s, i)' => OthersCounted(s, i)
      BY <2>1, <2>5, <2>9, <3>1 DEF FinishFind, Reporting, CountInv
    <3> QED
      BY <2>4, <2>9, <3>1, <3>2 DEF FinishFind
  <2>10. CASE FinishReport(s, i)
    <3>1. Reporting(s, i)' => OthersCounted(s, i)
      BY <2>1, <2>10 DEF FinishReport, Reporting, CountInv
    <3> QED
      BY <2>4, <2>10, <3>1 DEF FinishReport
  <2>11. CASE FinishErase(s, i)
    <3>1. Reporting(s, i)' => OthersCounted(s, i)
      BY <2>1, <2>11 DEF FinishErase, Reporting, CountInv
    <3> QED
      BY <2>4, <2>11, <3>1 DEF FinishErase, DeleteScheduleCallback
  <2> QED
    BY <2>6, <2>7, <2>8, <2>9, <2>10, <2>11 DEF FinishStep
<1>3. CASE r = s
  BY <1>2, <1>3
<1> QED
  BY <1>1, <1>3

\* A process that dies takes its executors from work; none of them was counted.
LEMMA DeathCounts ==
  ASSUME TypeOK, AllCounted, NEW r \in Schedules, NEW x \in Executors, ExecutorDied(x)
  PROVE  CountInv(r)'
<1>1. \A j \in Slots : \/ worker'[r][j] = worker[r][j]
                       \/ worker[r][j] \in AtWork /\ worker'[r][j] \in MaySend
  BY DEF ExecutorDied, AtWorkFor, MaySend
<1>2. UNCHANGED <<scheResPool, executors, executorNum, tips>>
  BY DEF ExecutorDied, poolVars
<1>3. CountInv(r) /\ SlotsOf(r) \subseteq Slots /\ tips[r] \subseteq Slots
  BY CountedIsFinite DEF AllCounted, TypeOK
<1> QED
  BY <1>1, <1>2, <1>3, WorkFrame

LEMMA CountInvariant == Spec => []AllCounted
<1>1. Init => AllCounted
  <2> SUFFICES ASSUME Init, NEW s \in Schedules
               PROVE  CountInv(s)
    BY DEF AllCounted
  <2>1. scheResPool = {} /\ tips[s] = {} /\ \A i \in Slots : worker[s][i] = "idle"
    BY DEF Init
  <2> QED
    BY <2>1 DEF CountInv, Reporting
<1>2. TypeOK /\ AllWatched /\ AllCounted /\ [Next]_vars => AllCounted'
  <2> SUFFICES ASSUME TypeOK, AllWatched, AllCounted, [Next]_vars, NEW r \in Schedules
               PROVE  CountInv(r)'
    BY DEF AllCounted
  <2>1. CASE Next
    <3>1. ASSUME NEW x \in Executors, RegisterExecutor(x) \/ OnRemoteDied(x)
          PROVE  CountInv(r)'
      BY <3>1, CountFrame DEF RegisterExecutor, OnRemoteDied, poolVars, handleVars, AllCounted
    <3> QED
      BY <2>1, <3>1, QuietSteps, SaveCounts, BeginCounts, SendCounts, FinishCounts, DeathCounts
      DEF Next, HandleStep
  <2>2. CASE UNCHANGED vars
    BY <2>2, CountFrame DEF vars, AllCounted
  <2> QED
    BY <2>1, <2>2
<1> QED
  BY <1>1, <1>2, TypeCorrect, AlwaysWatched, PTL DEF Spec

\* Whoever reports a verdict is the last: the count cannot let two executors
\* through, nor one whose fellow still has a message on its way.
THEOREM LastReports == Spec => []LastExecutorReports
<1>1. TypeOK /\ AllCounted => LastExecutorReports
  <2> SUFFICES ASSUME TypeOK, AllCounted, NEW s \in Schedules, NEW i \in SlotsOf(s),
                      worker[s][i] \in {"report", "erase"}, NEW j \in SlotsOf(s) \ {i}
               PROVE  worker[s][j] = "counted" /\ j \notin tips[s]
    BY DEF LastExecutorReports
  <2>1. OthersCounted(s, i)
    BY CountedIsFinite DEF AllCounted, CountInv, Reporting
  <2>2. tips[s] \subseteq Slots /\ "counted" \notin MaySend /\ j \in Slots
    BY CountedIsFinite DEF TypeOK, MaySend, AtWork
  <2> QED
    BY <2>1, <2>2 DEF OthersCounted, AllCounted, CountInv
<1> QED
  BY <1>1, TypeCorrect, CountInvariant, PTL

(***************************************************************************)
(* What a step may do to one schedule, action by action: the facts that    *)
(* the invariants about answers and the contract need of a step.           *)
(***************************************************************************)

\* One run of an executor: to its Finish and through it, never back.
WorkMove(r, j) ==
  \/ worker'[r][j] = worker[r][j]
  \/ /\ worker[r][j] \in AtWork \cup {"idle", "count", "minus", "unmonitor"}
     /\ worker'[r][j] \notin {"report", "erase"}
  \/ worker[r][j] = "find" /\ worker'[r][j] \in {"report", "finished"}
  \/ worker[r][j] = "report" /\ worker'[r][j] = "erase" /\ FinishReport(r, j)
  \/ worker[r][j] = "erase" /\ worker'[r][j] = "finished"

LEMMA WorkMoves ==
  ASSUME TypeOK, AllWatched, [Next]_vars, NEW r \in Schedules, NEW j \in Slots
  PROVE  WorkMove(r, j)
<1> USE DEF SetWorker, poolVars, handleVars
<1>1. CASE worker' = worker
  BY <1>1 DEF WorkMove
<1>2. ASSUME NEW s \in Schedules, NEW i \in Slots, NEW to, worker' = [worker EXCEPT ![s][i] = to]
      PROVE  worker'[r][j] = IF r = s /\ j = i THEN to ELSE worker[r][j]
  BY <1>2 DEF TypeOK
<1>3. ASSUME NEW s \in Schedules, BeginExecutor(s), worker' # worker
      PROVE  WorkMove(r, j)
  <2>1. PICK i \in Slots : i = index[s]
    BY <1>3, CountedIsFinite DEF BeginExecutor, TypeOK
  <2>2. worker[s][i] = "idle"
    BY <1>3, <2>1 DEF BeginExecutor, AllWatched, WatchInv, NotBegun
  <2>3. worker' = [worker EXCEPT ![s][i] = "working"]
    BY <1>3, <2>1 DEF BeginExecutor
  <2> QED
    BY <1>2, <2>2, <2>3 DEF WorkMove
<1>4. ASSUME NEW s \in Schedules, BeginReturns(s), worker' # worker
      PROVE  WorkMove(r, j)
  <2>1. PICK i \in Slots : i = index[s]
    BY <1>4, CountedIsFinite DEF BeginReturns, TypeOK
  <2>2. worker[s][i] \in AtWork /\ worker' = [worker EXCEPT ![s][i] = "failed"]
    BY <1>4, <2>1 DEF BeginReturns, LeaveWork
  <2> QED
    BY <1>2, <2>2 DEF WorkMove, AtWork
<1>5. ASSUME NEW s \in Schedules, CancelNext(s) \/ TimeOutCancel(s)
      PROVE  WorkMove(r, j)
  BY <1>5, EndsLeaveAtWork DEF CancelNext, TimeOutCancel, Cancellers, WorkMove, AtWork
<1>6. ASSUME NEW x \in Executors, ExecutorDied(x)
      PROVE  WorkMove(r, j)
  BY <1>6 DEF ExecutorDied, AtWorkFor, WorkMove, AtWork
<1>7. ASSUME NEW s \in Schedules, NEW i \in Slots, FinishCall(s, i) \/ FinishStep(s, i)
      PROVE  WorkMove(r, j)
  <2>1. CASE FinishReport(s, i)
    <3>1. worker[s][i] = "report" /\ worker' = [worker EXCEPT ![s][i] = "erase"]
      BY <2>1 DEF FinishReport
    <3> QED
      BY <1>2, <2>1, <3>1 DEF WorkMove
  <2>2. CASE FinishFind(s, i)
    <3>1. PICK to \in {"report", "finished"} : worker[s][i] = "find" /\ worker' = [worker EXCEPT ![s][i] = to]
      BY <2>2 DEF FinishFind
    <3> QED
      BY <1>2, <3>1 DEF WorkMove
  <2>3. CASE FinishErase(s, i)
    <3>1. worker[s][i] = "erase" /\ worker' = [worker EXCEPT ![s][i] = "finished"]
      BY <2>3 DEF FinishErase
    <3> QED
      BY <1>2, <3>1 DEF WorkMove
  <2>4. CASE FinishCall(s, i) \/ FinishCount(s, i) \/ FinishMinus(s, i) \/ FinishUnmonitor(s, i)
    <3>1. PICK to \in {"count", "minus", "unmonitor", "counted", "find"} :
             /\ worker' = [worker EXCEPT ![s][i] = to]
             /\ worker[s][i] \in AtWork \cup {"count", "minus", "unmonitor"}
      BY <2>4 DEF FinishCall, LeaveWork, FinishCount, FinishMinus, FinishUnmonitor
    <3> QED
      BY <1>2, <3>1 DEF WorkMove
  <2> QED
    BY <1>7, <2>1, <2>2, <2>3, <2>4 DEF FinishStep
<1>8. CASE Next
  <2>1. ASSUME NEW s \in Schedules, RejectSchedule(s) \/ SaveSchedule(s) \/ CancelLookup(s)
        PROVE  worker' = worker
    BY <2>1 DEF RejectSchedule, SaveSchedule, CancelLookup
  <2>2. ASSUME NEW s \in Schedules, HandleStep(s), ~BeginExecutor(s)
        PROVE  worker' = worker
    BY <2>2 DEF HandleStep, MonitorCall, FindExecutor, EndBeginExecute, ReportFailure, EraseFailed,
       UnmonitorFailed
  <2>3. ASSUME NEW s \in Schedules, TimeOutStep(s), ~TimeOutCancel(s)
        PROVE  worker' = worker
    BY <2>3 DEF TimeOutStep, TimerFires, TimeOutFind, TimeOutReport, TimeOutLookup, TimeOutErase
  <2>4. ASSUME NEW s \in Schedules, NEW i \in Slots, SendDataFind(s, i) \/ SendDataDeliver(s, i)
        PROVE  worker' = worker
    BY <2>4 DEF SendDataFind, SendDataDeliver
  <2>5. ASSUME NEW x \in Executors, RegisterExecutor(x) \/ OnRemoteDied(x)
        PROVE  worker' = worker
    BY <2>5 DEF RegisterExecutor, OnRemoteDied
  <2> QED
    BY <1>1, <1>3, <1>4, <1>5, <1>6, <1>7, <1>8, <2>1, <2>2, <2>3, <2>4, <2>5 DEF Next
<1> QED
  BY <1>1, <1>8 DEF vars

\* CoAuthHandle: a schedule begins once, and the failing path is not left.
HandleMove(r) ==
  \/ handle'[r] = handle[r] /\ executors'[r] = executors[r]
  \/ RejectSchedule(r) /\ handle'[r] = "done" /\ executors'[r] = executors[r]
  \/ SaveSchedule(r) /\ handle'[r] = "monitor" /\ r \in scheResPool'
  \/ /\ handle[r] \notin {"idle", "report", "erase", "unmonitor"}
     /\ handle'[r] \notin {"idle", "monitor", "erase", "unmonitor"}
     /\ executors'[r] = executors[r] /\ handle[r] # "done"
  \/ ReportFailure(r) /\ handle'[r] = "erase" /\ executors'[r] = executors[r]
  \/ handle[r] = "erase" /\ handle'[r] = "unmonitor" /\ executors'[r] = executors[r]
  \/ handle[r] = "unmonitor" /\ handle'[r] = "done" /\ executors'[r] = executors[r]

LEMMA HandleMoves ==
  ASSUME TypeOK, [Next]_vars, NEW r \in Schedules
  PROVE  HandleMove(r)
<1> USE DEF poolVars, handleVars
<1>1. CASE handle' = handle /\ executors' = executors
  BY <1>1 DEF HandleMove
<1>2. ASSUME NEW s \in Schedules, RejectSchedule(s) \/ ReportFailure(s)
      PROVE  HandleMove(r)
  BY <1>2 DEF RejectSchedule, ReportFailure, HandleMove, TypeOK
<1>3. ASSUME NEW s \in Schedules, SaveSchedule(s)
      PROVE  HandleMove(r)
  <2>1. CASE r = s
    BY <1>3, <2>1 DEF SaveSchedule, HandleMove, TypeOK
  <2>2. CASE r # s
    <3>1. PICK n \in Slots : \E types \in [1..n -> AuthTypes] :
            executors' = [executors EXCEPT ![s] = types]
      BY <1>3 DEF SaveSchedule
    <3>2. executors'[r] = executors[r] /\ handle'[r] = handle[r]
      BY <1>3, <2>2, <3>1 DEF SaveSchedule, TypeOK
    <3> QED
      BY <3>2 DEF HandleMove
  <2> QED
    BY <2>1, <2>2
<1>4. ASSUME NEW s \in Schedules, MonitorCall(s) \/ FindExecutor(s) \/ BeginExecutor(s) \/ BeginReturns(s)
                                  \/ EndBeginExecute(s)
      PROVE  HandleMove(r)
  BY <1>4 DEF MonitorCall, FindExecutor, BeginExecutor, BeginReturns, EndBeginExecute, HandleMove, TypeOK
<1>5. ASSUME NEW s \in Schedules, EraseFailed(s) \/ UnmonitorFailed(s)
      PROVE  HandleMove(r)
  BY <1>5 DEF EraseFailed, UnmonitorFailed, HandleMove, TypeOK
<1>6. ASSUME NEW s \in Schedules, TimeOutStep(s) \/ CancelLookup(s) \/ CancelNext(s)
      PROVE  handle' = handle /\ executors' = executors
  BY <1>6 DEF TimeOutStep, TimerFires, TimeOutFind, TimeOutReport, TimeOutLookup, TimeOutCancel,
     TimeOutErase, CancelLookup, CancelNext
<1>7. ASSUME NEW s \in Schedules, NEW i \in Slots,
             SendDataFind(s, i) \/ SendDataDeliver(s, i) \/ FinishCall(s, i) \/ FinishStep(s, i)
      PROVE  handle' = handle /\ executors' = executors
  BY <1>7 DEF SendDataFind, SendDataDeliver, FinishCall, FinishStep, FinishCount, FinishMinus,
     FinishUnmonitor, FinishFind, FinishReport, FinishErase
<1>8. ASSUME NEW x \in Executors, RegisterExecutor(x) \/ ExecutorDied(x) \/ OnRemoteDied(x)
      PROVE  handle' = handle /\ executors' = executors
  BY <1>8 DEF RegisterExecutor, ExecutorDied, OnRemoteDied
<1> QED
  BY <1>1, <1>2, <1>3, <1>4, <1>5, <1>6, <1>7, <1>8 DEF Next, HandleStep, vars

\* The timer's task goes forward, and only by telling past its report.
TimerMove(r) ==
  \/ timer'[r] = timer[r]
  \/ timer[r] \in {"idle", "armed", "find"} /\ timer'[r] \notin {"lookup", "cancel", "erase"}
  \/ TimeOutReport(r) /\ timer[r] = "report" /\ timer'[r] = "lookup"
  \/ timer[r] \in {"lookup", "cancel", "erase"} /\ timer'[r] \in {"cancel", "erase", "done"}

LEMMA TimerMoves ==
  ASSUME TypeOK, AllWatched, [Next]_vars, NEW r \in Schedules
  PROVE  TimerMove(r)
<1> USE DEF poolVars, handleVars
<1>1. CASE timer' = timer
  BY <1>1 DEF TimerMove
<1>2. ASSUME NEW s \in Schedules, MonitorRemoveCall(s)
      PROVE  TimerMove(r)
  BY <1>2 DEF MonitorRemoveCall, TimerMove, TypeOK
<1>3. ASSUME NEW s \in Schedules, TimeOutStep(s)
      PROVE  TimerMove(r)
  BY <1>3 DEF TimeOutStep, TimerFires, TimeOutFind, TimeOutReport, TimeOutLookup, TimeOutCancel,
     TimeOutErase, SetTimer, TimerMove, TypeOK
<1>4. ASSUME NEW s \in Schedules, MonitorCall(s)
      PROVE  TimerMove(r)
  <2>1. timer[s] = "idle"
    BY <1>4 DEF MonitorCall, AllWatched, WatchInv
  <2> QED
    BY <1>4, <2>1 DEF MonitorCall, TimerMove, TypeOK
<1>5. ASSUME NEW s \in Schedules,
             RejectSchedule(s) \/ SaveSchedule(s) \/ HandleStep(s) \/ BeginReturns(s)
             \/ CancelLookup(s) \/ CancelNext(s)
      PROVE  timer' = timer \/ MonitorCall(s) \/ MonitorRemoveCall(s)
  BY <1>5 DEF RejectSchedule, SaveSchedule, HandleStep, BeginReturns, FindExecutor, BeginExecutor,
     EndBeginExecute, ReportFailure, EraseFailed, UnmonitorFailed, CancelLookup, CancelNext
<1>6. ASSUME NEW s \in Schedules, NEW i \in Slots,
             SendDataFind(s, i) \/ SendDataDeliver(s, i) \/ FinishCall(s, i) \/ FinishStep(s, i)
      PROVE  timer' = timer \/ MonitorRemoveCall(s)
  BY <1>6 DEF SendDataFind, SendDataDeliver, FinishCall, FinishStep, FinishCount, FinishMinus,
     FinishUnmonitor, FinishFind, FinishReport, FinishErase
<1>7. ASSUME NEW x \in Executors, RegisterExecutor(x) \/ ExecutorDied(x) \/ OnRemoteDied(x)
      PROVE  timer' = timer
  BY <1>7 DEF RegisterExecutor, ExecutorDied, OnRemoteDied
<1> QED
  BY <1>1, <1>2, <1>3, <1>4, <1>5, <1>6, <1>7 DEF Next, vars

\* The pool: an entry comes with SaveSchedule and goes with an erasure.
PoolMove(r) ==
  \/ r \in scheResPool' <=> r \in scheResPool
  \/ SaveSchedule(r)
  \/ /\ r \notin scheResPool'
     /\ handle[r] = "erase" \/ timer[r] = "erase" \/ \E i \in Slots : worker[r][i] = "erase"

LEMMA PoolMoves ==
  ASSUME TypeOK, [Next]_vars, NEW r \in Schedules
  PROVE  PoolMove(r)
<1> USE DEF poolVars, handleVars
<1>1. CASE scheResPool' = scheResPool
  BY <1>1 DEF PoolMove
<1>2. ASSUME NEW s \in Schedules,
             RejectSchedule(s) \/ SaveSchedule(s) \/ HandleStep(s) \/ BeginReturns(s)
             \/ CancelLookup(s) \/ CancelNext(s)
      PROVE  PoolMove(r)
  BY <1>2 DEF RejectSchedule, SaveSchedule, HandleStep, BeginReturns, MonitorCall, FindExecutor,
     BeginExecutor, EndBeginExecute, ReportFailure, EraseFailed, UnmonitorFailed, CancelLookup,
     CancelNext, DeleteScheduleCallback, PoolMove
<1>3. ASSUME NEW s \in Schedules, TimeOutStep(s)
      PROVE  PoolMove(r)
  BY <1>3 DEF TimeOutStep, TimerFires, TimeOutFind, TimeOutReport, TimeOutLookup, TimeOutCancel,
     TimeOutErase, SetTimer, DeleteScheduleCallback, PoolMove
<1>4. ASSUME NEW s \in Schedules, NEW i \in Slots,
             SendDataFind(s, i) \/ SendDataDeliver(s, i) \/ FinishCall(s, i) \/ FinishStep(s, i)
      PROVE  PoolMove(r)
  BY <1>4 DEF SendDataFind, SendDataDeliver, FinishCall, FinishStep, FinishCount, FinishMinus,
     FinishUnmonitor, FinishFind, FinishReport, FinishErase, SetWorker, DeleteScheduleCallback, PoolMove
<1>5. ASSUME NEW x \in Executors, RegisterExecutor(x) \/ ExecutorDied(x) \/ OnRemoteDied(x)
      PROVE  scheResPool' = scheResPool
  BY <1>5 DEF RegisterExecutor, ExecutorDied, OnRemoteDied
<1> QED
  BY <1>1, <1>2, <1>3, <1>4, <1>5 DEF Next, vars

\* Who answers, and with what.
AnswerMove(r) ==
  \/ answers'[r] = answers[r]
  \/ RejectSchedule(r) /\ Answer(r, "failure")
  \/ ReportFailure(r) /\ Answer(r, "failure")
  \/ TimeOutReport(r) /\ Answer(r, "timeout")
  \/ \E i \in Slots : FinishReport(r, i) /\ Answer(r, "verdict")

LEMMA AnswerMoves ==
  ASSUME TypeOK, [Next]_vars, NEW r \in Schedules
  PROVE  AnswerMove(r)
<1> USE DEF poolVars, handleVars
<1>1. CASE answers' = answers
  BY <1>1 DEF AnswerMove
<1>2. ASSUME NEW s \in Schedules, NEW kind, Answer(s, kind)
      PROVE  r = s \/ answers'[r] = answers[r]
  BY <1>2 DEF Answer, TypeOK
<1>3. ASSUME NEW s \in Schedules, RejectSchedule(s)
      PROVE  AnswerMove(r)
  BY <1>2, <1>3 DEF RejectSchedule, AnswerMove
<1>4. ASSUME NEW s \in Schedules, ReportFailure(s)
      PROVE  AnswerMove(r)
  BY <1>2, <1>4 DEF ReportFailure, AnswerMove
<1>5. ASSUME NEW s \in Schedules, TimeOutReport(s)
      PROVE  AnswerMove(r)
  BY <1>2, <1>5 DEF TimeOutReport, AnswerMove
<1>6. ASSUME NEW s \in Schedules, NEW i \in Slots, FinishReport(s, i)
      PROVE  AnswerMove(r)
  BY <1>2, <1>6 DEF FinishReport, AnswerMove
<1>7. ASSUME NEW s \in Schedules, SaveSchedule(s) \/ HandleStep(s) \/ BeginReturns(s) \/ TimeOutStep(s)
                                  \/ CancelLookup(s) \/ CancelNext(s)
      PROVE  answers' = answers \/ ReportFailure(s) \/ TimeOutReport(s)
  BY <1>7 DEF SaveSchedule, HandleStep, BeginReturns, MonitorCall, FindExecutor,
     BeginExecutor, EndBeginExecute, EraseFailed, UnmonitorFailed, CancelLookup, CancelNext,
     TimeOutStep, TimerFires, TimeOutFind, TimeOutLookup, TimeOutCancel, TimeOutErase
<1>8. ASSUME NEW s \in Schedules, NEW i \in Slots,
             SendDataFind(s, i) \/ SendDataDeliver(s, i) \/ FinishCall(s, i) \/ FinishStep(s, i)
      PROVE  answers' = answers \/ FinishReport(s, i)
  BY <1>8 DEF SendDataFind, SendDataDeliver, FinishCall, FinishStep, FinishCount, FinishMinus,
     FinishUnmonitor, FinishFind, FinishErase
<1>9. ASSUME NEW x \in Executors, RegisterExecutor(x) \/ ExecutorDied(x) \/ OnRemoteDied(x)
      PROVE  answers' = answers
  BY <1>9 DEF RegisterExecutor, ExecutorDied, OnRemoteDied
<1> QED
  BY <1>1, <1>3, <1>4, <1>5, <1>6, <1>7, <1>8, <1>9 DEF Next, vars

(***************************************************************************)
(* What the callback hears.  A verdict comes from the last executor, who   *)
(* has all others counted behind it; the failure from CoAuthHandle on its  *)
(* one way to an end; a timeout from the timer's one task.                 *)
(***************************************************************************)

Says(s, kind) == \E a \in DOMAIN answers[s] : answers[s][a] = kind

SaidOnce(s) == \A a, b \in DOMAIN answers[s] : a # b => answers[s][a] # answers[s][b]

TellInv(s) ==
  /\ handle[s] = "idle" => answers[s] = <<>>
  /\ Says(s, "failure") => handle[s] \in {"erase", "unmonitor", "done"}
  /\ \A i \in Slots : worker[s][i] = "report" => ~Says(s, "verdict")
  /\ Says(s, "verdict") =>
       \E i \in SlotsOf(s) : worker[s][i] \in {"erase", "finished"} /\ OthersCounted(s, i)
  /\ Says(s, "timeout") => timer[s] \in {"lookup", "cancel", "erase", "done"}
  /\ SaidOnce(s)

AllTold == \A s \in Schedules : TellInv(s)

\* One more answer.
LEMMA AnswerAdds ==
  ASSUME TypeOK, NEW s \in Schedules, NEW kind \in Kinds, Answer(s, kind)
  PROVE  /\ \A k \in Kinds : Says(s, k)' <=> Says(s, k) \/ k = kind
         /\ ~Says(s, kind) /\ SaidOnce(s) => SaidOnce(s)'
<1>1. answers[s] \in Seq(Kinds) /\ answers' = [answers EXCEPT ![s] = Append(answers[s], kind)]
  BY DEF TypeOK, Answer
<1>2. answers'[s] = Append(answers[s], kind)
  BY <1>1 DEF TypeOK
<1>3. PICK n \in Nat : n = Len(answers[s])
  BY <1>1
<1>4. DOMAIN answers[s] = 1..n /\ DOMAIN answers'[s] = 1..(n + 1)
  BY <1>1, <1>2, <1>3
<1>5. answers'[s][n + 1] = kind /\ \A a \in 1..n : answers'[s][a] = answers[s][a]
  BY <1>1, <1>2, <1>3
<1>6. \A a \in 1..(n + 1) : a \in 1..n \/ a = n + 1
  OBVIOUS
<1>7. 1..n \subseteq 1..(n + 1) /\ n + 1 \in 1..(n + 1) /\ n + 1 \notin 1..n
  OBVIOUS
<1>8. \A k \in Kinds : Says(s, k)' <=> Says(s, k) \/ k = kind
  BY <1>4, <1>5, <1>6, <1>7 DEF Says
<1>9. ~Says(s, kind) /\ SaidOnce(s) => SaidOnce(s)'
  BY <1>4, <1>5, <1>6, <1>7 DEF Says, SaidOnce
<1> QED
  BY <1>8, <1>9

\* No step takes an answer back.
LEMMA AnswersStay ==
  ASSUME TypeOK, [Next]_vars, NEW s \in Schedules, NEW kind \in Kinds
  PROVE  Says(s, kind) => Says(s, kind)'
<1>1. CASE answers'[s] = answers[s]
  BY <1>1 DEF Says
<1>2. CASE \E k \in Kinds : Answer(s, k)
  BY <1>2, AnswerAdds
<1> QED
  BY <1>1, <1>2, AnswerMoves DEF AnswerMove, Kinds

\* Once a verdict was told nobody is on the way to another.
LEMMA VerdictIsLast ==
  ASSUME TypeOK, [Next]_vars, AllWatched, NEW s \in Schedules, CountInv(s), TellInv(s),
         Says(s, "verdict")
  PROVE  /\ \E i \in SlotsOf(s)' : worker'[s][i] \in {"erase", "finished"} /\ OthersCounted(s, i)'
         /\ \A j \in Slots : worker'[s][j] # "report"
<1>1. PICK i \in SlotsOf(s) : worker[s][i] \in {"erase", "finished"} /\ OthersCounted(s, i)
  BY DEF TellInv
<1>2. SlotsOf(s) \subseteq Slots
  BY CountedIsFinite
<1>3. SlotsOf(s)' = SlotsOf(s)
  <2>1. handle[s] # "idle"
    BY <1>1 DEF TellInv, Says
  <2>2. executors'[s] = executors[s]
    BY <2>1, HandleMoves DEF HandleMove, SaveSchedule
  <2> QED
    BY <2>2 DEF SlotsOf
<1>4. worker'[s][i] \in {"erase", "finished"}
  BY <1>1, <1>2, WorkMoves DEF WorkMove, AtWork
<1>5. \A j \in SlotsOf(s) \ {i} : worker'[s][j] = "counted"
  BY <1>1, <1>2, WorkMoves DEF WorkMove, OthersCounted, AtWork
<1>6. ASSUME NEW j \in Slots, worker'[s][j] = "report"
      PROVE  FALSE
  <2>1. worker[s][j] \in {"find", "report"}
    BY <1>6, WorkMoves DEF WorkMove
  <2>2. j \in SlotsOf(s) /\ j # i
    BY <1>1, <2>1 DEF CountInv
  <2> QED
    BY <1>5, <1>6, <2>2
<1> QED
  BY <1>1, <1>3, <1>4, <1>5, <1>6 DEF OthersCounted

LEMMA TellInvariant == Spec => []AllTold
<1>1. Init => AllTold
  <2> SUFFICES ASSUME Init, NEW s \in Schedules
               PROVE  TellInv(s)
    BY DEF AllTold
  <2>1. answers[s] = <<>> /\ \A i \in Slots : worker[s][i] = "idle"
    BY DEF Init
  <2> QED
    BY <2>1 DEF TellInv, Says, SaidOnce
<1>2. TypeOK /\ AllWatched /\ AllCounted /\ AllTold /\ [Next]_vars => AllTold'
  <2> SUFFICES ASSUME TypeOK, AllWatched, AllCounted, AllTold, [Next]_vars, NEW s \in Schedules
               PROVE  TellInv(s)'
    BY DEF AllTold
  <2>1. TellInv(s) /\ CountInv(s) /\ SlotsOf(s) \subseteq Slots
    BY CountedIsFinite DEF AllTold, AllCounted
  <2>2. HandleMove(s) /\ TimerMove(s) /\ \A j \in Slots : WorkMove(s, j)
    BY HandleMoves, TimerMoves, WorkMoves
  <2>3. "failure" \in Kinds /\ "timeout" \in Kinds /\ "verdict" \in Kinds
    BY DEF Kinds
  <2>4. CASE answers'[s] = answers[s]
    <3>1. /\ \A kind \in Kinds : Says(s, kind)' <=> Says(s, kind)
          /\ SaidOnce(s)'
      BY <2>1, <2>4 DEF Says, SaidOnce, TellInv
    <3>2. handle'[s] = "idle" => answers'[s] = <<>>
      BY <2>1, <2>2, <2>4 DEF HandleMove, TellInv
    <3>3. Says(s, "failure") => handle'[s] \in {"erase", "unmonitor", "done"}
      BY <2>1, <2>2 DEF HandleMove, TellInv, SaveSchedule, ReportFailure
    <3>4. Says(s, "timeout") => timer'[s] \in {"lookup", "cancel", "erase", "done"}
      BY <2>1, <2>2 DEF TimerMove, TellInv
    <3> QED
      BY <2>1, <2>3, <3>1, <3>2, <3>3, <3>4, VerdictIsLast DEF TellInv
  <2>5. CASE (RejectSchedule(s) \/ ReportFailure(s)) /\ Answer(s, "failure")
    <3>1. /\ \A kind \in Kinds : Says(s, kind)' <=> Says(s, kind) \/ kind = "failure"
          /\ ~Says(s, "failure") => SaidOnce(s)'
      BY <2>1, <2>3, <2>5, AnswerAdds DEF TellInv
    <3>2. ~Says(s, "failure") /\ handle'[s] \in {"erase", "done"} /\ worker' = worker /\ timer' = timer
      BY <2>1, <2>5 DEF RejectSchedule, ReportFailure, TellInv, TypeOK
    <3> QED
      BY <2>1, <2>3, <3>1, <3>2, VerdictIsLast DEF TellInv, Kinds
  <2>6. CASE TimeOutReport(s) /\ Answer(s, "timeout")
    <3>1. /\ \A kind \in Kinds : Says(s, kind)' <=> Says(s, kind) \/ kind = "timeout"
          /\ ~Says(s, "timeout") => SaidOnce(s)'
      BY <2>1, <2>3, <2>6, AnswerAdds DEF TellInv
    <3>2. /\ ~Says(s, "timeout") /\ timer'[s] = "lookup" /\ worker' = worker /\ handle' = handle
          /\ handle[s] # "idle"
      BY <2>1, <2>6 DEF TimeOutReport, SetTimer, TellInv, TypeOK, handleVars, AllWatched, WatchInv
    <3> QED
      BY <2>1, <2>3, <3>1, <3>2, VerdictIsLast DEF TellInv, Kinds
  <2>7. ASSUME NEW i \in Slots, FinishReport(s, i), Answer(s, "verdict")
        PROVE  TellInv(s)'
    <3>1. /\ \A kind \in Kinds : Says(s, kind)' <=> Says(s, kind) \/ kind = "verdict"
          /\ ~Says(s, "verdict") => SaidOnce(s)'
      BY <2>1, <2>3, <2>7, AnswerAdds DEF TellInv
    <3>2. worker[s][i] = "report" /\ worker' = [worker EXCEPT ![s][i] = "erase"]
      BY <2>7 DEF FinishReport, SetWorker
    <3>3. \A j \in Slots : worker'[s][j] = IF j = i THEN "erase" ELSE worker[s][j]
      BY <3>2 DEF TypeOK
    <3>4. ~Says(s, "verdict") /\ timer' = timer /\ handle' = handle /\ executors' = executors
      BY <2>1, <2>7, <3>2 DEF FinishReport, handleVars, TellInv
    <3>5. i \in SlotsOf(s) /\ OthersCounted(s, i)
      BY <2>1, <3>2 DEF CountInv, Reporting
    <3>6. SlotsOf(s)' = SlotsOf(s) /\ OthersCounted(s, i)'
      BY <2>1, <3>3, <3>4, <3>5 DEF SlotsOf, OthersCounted
    <3>7. \A j \in Slots : worker'[s][j] # "report"
      BY <2>1, <3>3, <3>5 DEF CountInv, OthersCounted
    <3>8. handle[s] # "idle"
      <4>1. ~NotBegun(s, i)
        BY <3>2 DEF AllWatched, WatchInv
      <4> QED
        BY <2>1, <3>5, <4>1 DEF AllWatched, WatchInv, NotBegun, SlotsOf, TypeOK
    <3> QED
      BY <2>1, <2>3, <3>1, <3>3, <3>4, <3>5, <3>6, <3>7, <3>8 DEF TellInv
  <2> QED
    BY <2>4, <2>5, <2>6, <2>7, AnswerMoves DEF AnswerMove
<1> QED
  BY <1>1, <1>2, TypeCorrect, AlwaysWatched, CountInvariant, PTL DEF Spec

\* However the executors' calls of Finish, the failing CoAuthHandle and the
\* timeout race, the callback of a schedule hears each of them once at most.
THEOREM ToldOneVerdict == Spec => []OneVerdict
<1>1. AllTold => OneVerdict
  BY DEF AllTold, TellInv, SaidOnce, OneVerdict
<1> QED
  BY <1>1, TellInvariant, PTL

(***************************************************************************)
(* The timeout tells whoever is at work.  The registry is looked up by     *)
(* type while executors register and die, so the argument is that an       *)
(* executor at work is one the registry still has: then the lookup finds   *)
(* it, or one of its type with a lower id.                                 *)
(***************************************************************************)

WorkInv(s) ==
  /\ \A i \in Slots : worker[s][i] \in AtWork =>
       /\ callee[s][i] \in Executors /\ executor[callee[s][i]] = "up"
       /\ TypeOf[callee[s][i]] = executors[s][i]
  /\ handle[s] = "call" =>
       /\ callee[s][index[s]] \in Executors
       /\ TypeOf[callee[s][index[s]]] = executors[s][index[s]]
  /\ handle[s] \in {"report", "erase", "unmonitor"} => executeRet[s] = "FAIL"

AllWorkKnown == \A s \in Schedules : WorkInv(s)

\* A step that puts nobody to work and lets no process die.
LEMMA WorkInvFrame ==
  ASSUME NEW s \in Schedules, WorkInv(s), callee'[s] = callee[s], executors'[s] = executors[s],
         \A x \in Executors : executor[x] = "up" => executor'[x] = "up",
         \A i \in Slots : worker'[s][i] \in AtWork => worker[s][i] \in AtWork,
         handle'[s] = "call" => handle[s] = "call" /\ index'[s] = index[s],
         handle'[s] \in {"report", "erase", "unmonitor"} => executeRet'[s] = "FAIL"
  PROVE  WorkInv(s)'
BY DEF WorkInv

\* An executor that leaves work, or does not start.
LEMMA LeavesWork ==
  ASSUME TypeOK, NEW r \in Schedules, WorkInv(r), NEW s \in Schedules, NEW i \in Slots,
         NEW to, to \notin AtWork,
         worker' = [worker EXCEPT ![s][i] = to], callee' = [callee EXCEPT ![s][i] = 0],
         UNCHANGED <<executor, executors>>,
         handle'[r] = "call" => handle[r] = "call" /\ index'[r] = index[r] /\ (r # s \/ index[r] # i),
         handle'[r] \in {"report", "erase", "unmonitor"} => executeRet'[r] = "FAIL"
  PROVE  WorkInv(r)'
<1>1. \A j \in Slots : /\ worker'[r][j] = IF r = s /\ j = i THEN to ELSE worker[r][j]
                       /\ callee'[r][j] = IF r = s /\ j = i THEN 0 ELSE callee[r][j]
  BY DEF TypeOK
<1>2. handle[r] = "call" => index[r] \in Slots
  BY CountedIsFinite DEF TypeOK
<1>3. \A j \in Slots : worker'[r][j] \in AtWork => worker[r][j] \in AtWork /\ callee'[r][j] = callee[r][j]
  BY <1>1
<1>4. handle'[r] = "call" => callee'[r][index'[r]] = callee[r][index[r]]
  BY <1>1, <1>2
<1> QED
  BY <1>3, <1>4 DEF WorkInv

\* CoAuthHandle: who is called is of the type, and is up when the call arrives.
LEMMA HandleKnows ==
  ASSUME TypeOK, AllWatched, AllWorkKnown, NEW r \in Schedules, NEW s \in Schedules,
         RejectSchedule(s) \/ SaveSchedule(s) \/ HandleStep(s) \/ BeginReturns(s)
  PROVE  WorkInv(r)'
<1> USE DEF poolVars
<1>1. WorkInv(r) /\ WorkInv(s) /\ WatchInv(s)
  BY DEF AllWorkKnown, AllWatched
<1>2. CASE SaveSchedule(s)
  <2>1. UNCHANGED <<executor, worker, callee, index, executeRet>> /\ handle[s] = "idle" /\ handle'[s] = "monitor"
    BY <1>2 DEF SaveSchedule, TypeOK
  <2>2. \A j \in Slots : worker[s][j] = "idle"
    BY <1>1, <2>1 DEF WatchInv, NotBegun, Slots
  <2>3. CASE r = s
    BY <2>1, <2>2, <2>3 DEF WorkInv, AtWork
  <2>4. CASE r # s
    <3>1. executors'[r] = executors[r] /\ handle'[r] = handle[r]
      BY <1>2, <2>4 DEF SaveSchedule, TypeOK
    <3> QED
      BY <1>1, <2>1, <3>1, WorkInvFrame DEF WorkInv
  <2> QED
    BY <2>3, <2>4
<1>3. CASE RejectSchedule(s) \/ MonitorCall(s) \/ ReportFailure(s) \/ EraseFailed(s) \/ UnmonitorFailed(s)
  <2>1. /\ UNCHANGED <<executor, worker, callee, index, executeRet, executors>>
        /\ r # s => handle'[r] = handle[r]
        /\ handle'[s] # "call"
        /\ handle'[s] \in {"report", "erase", "unmonitor"} => handle[s] \in {"report", "erase", "unmonitor"}
    BY <1>3 DEF RejectSchedule, MonitorCall, ReportFailure, EraseFailed, UnmonitorFailed, TypeOK
  <2> QED
    BY <1>1, <2>1, WorkInvFrame DEF WorkInv
<1>4. CASE EndBeginExecute(s)
  <2>1. /\ UNCHANGED <<executor, worker, callee, index, executeRet, executors>>
        /\ r # s => handle'[r] = handle[r]
        /\ handle'[s] = IF executeRet[s] = "SUCCESS" THEN "done" ELSE "report"
    BY <1>4 DEF EndBeginExecute, TypeOK
  <2>2. executeRet[s] \in {"SUCCESS", "FAIL"}
    BY DEF TypeOK
  <2> QED
    BY <1>1, <2>1, <2>2, WorkInvFrame DEF WorkInv
<1>5. CASE FindExecutor(s)
  <2>1. PICK i \in Slots : i = index[s]
    BY <1>5, CountedIsFinite DEF FindExecutor
  <2>2. worker[s][i] = "idle" /\ UNCHANGED <<executor, worker, executors, executeRet>>
    BY <1>1, <1>5, <2>1 DEF FindExecutor, WatchInv, NotBegun
  <2>3. CASE callee' = callee /\ handle' = handle
    <3>1. \A q \in Schedules : handle[q] = "call" => index'[q] = index[q]
      BY <1>5, <2>3 DEF FindExecutor, TypeOK
    <3> QED
      BY <1>1, <2>2, <2>3, <3>1, WorkInvFrame DEF WorkInv
  <2>4. ASSUME NEW x \in Executors, Finds(executors[s][i], x), callee' = [callee EXCEPT ![s][i] = x],
               handle' = [handle EXCEPT ![s] = "call"], index' = index
        PROVE  WorkInv(r)'
    <3>1. TypeOf[x] = executors[s][i]
      BY <2>4 DEF Finds, Entries
    <3>2. \A j \in Slots : callee'[r][j] = IF r = s /\ j = i THEN x ELSE callee[r][j]
      BY <2>4 DEF TypeOK
    <3>3. handle'[r] = IF r = s THEN "call" ELSE handle[r]
      BY <2>4 DEF TypeOK
    <3>4. r # s => callee'[r] = callee[r]
      BY <2>4 DEF TypeOK
    <3>5. \A j \in Slots : worker'[r][j] \in AtWork =>
            worker[r][j] \in AtWork /\ callee'[r][j] = callee[r][j]
      BY <2>2, <3>2 DEF AtWork
    <3>6. CASE r = s
      <4>1. callee'[s][i] = x
        BY <3>2, <3>6
      <4> QED
        BY <1>1, <2>1, <2>2, <2>4, <3>1, <3>3, <3>5, <3>6, <4>1 DEF WorkInv
    <3>7. CASE r # s
      BY <1>1, <2>2, <2>4, <3>3, <3>4, <3>5, <3>7, WorkInvFrame DEF WorkInv
    <3> QED
      BY <3>6, <3>7
  <2> QED
    BY <1>5, <2>1, <2>3, <2>4 DEF FindExecutor
<1>6. CASE BeginExecutor(s)
  <2>1. PICK i \in Slots : i = index[s]
    BY <1>6, CountedIsFinite DEF BeginExecutor, TypeOK
  <2>2. worker[s][i] = "idle" /\ UNCHANGED <<executor, executors>> /\ handle[s] = "call"
    BY <1>1, <1>6, <2>1 DEF BeginExecutor, WatchInv, NotBegun
  <2>3. CASE worker' = [worker EXCEPT ![s][i] = "working"] /\ executor[callee[s][i]] = "up" /\ callee' = callee
             /\ handle' = [handle EXCEPT ![s] = "wait"] /\ index' = index /\ executeRet' = executeRet
    <3>1. \A j \in Slots : worker'[r][j] = IF r = s /\ j = i THEN "working" ELSE worker[r][j]
      BY <2>3 DEF TypeOK
    <3>2. handle'[r] = IF r = s THEN "wait" ELSE handle[r]
      BY <2>3 DEF TypeOK
    <3>3. callee[s][i] \in Executors /\ TypeOf[callee[s][i]] = executors[s][i]
      BY <1>1, <2>1, <2>2 DEF WorkInv
    <3> QED
      BY <1>1, <2>2, <2>3, <3>1, <3>2, <3>3 DEF WorkInv
  <2>4. CASE /\ executeRet' = [executeRet EXCEPT ![s] = "FAIL"] /\ worker' = worker
             /\ handle' = [handle EXCEPT ![s] = "execute"]
             /\ index' = [index EXCEPT ![s] = @ + 1]
             /\ callee' = [callee EXCEPT ![s][i] = 0]
    <3>1. worker' = [worker EXCEPT ![s][i] = "idle"]
      BY <2>2, <2>4 DEF TypeOK
    <3>2. handle'[r] = "call" => handle[r] = "call" /\ index'[r] = index[r] /\ r # s
      BY <2>4 DEF TypeOK
    <3>3. handle'[r] \in {"report", "erase", "unmonitor"} => executeRet'[r] = "FAIL"
      BY <1>1, <2>4 DEF TypeOK, WorkInv
    <3>4. "idle" \notin AtWork
      BY DEF AtWork
    <3> QED
      BY <1>1, <2>2, <3>1, <2>4, <3>2, <3>3, <3>4, LeavesWork
  <2> QED
    BY <1>6, <2>1, <2>3, <2>4 DEF BeginExecutor
<1>7. CASE BeginReturns(s)
  <2>1. PICK i \in Slots : i = index[s]
    BY <1>7, CountedIsFinite DEF BeginReturns, TypeOK
  <2>2. /\ UNCHANGED <<executor, executors>>
        /\ handle'[r] = "call" => handle[r] = "call" /\ index'[r] = index[r] /\ r # s
        /\ handle'[r] \in {"report", "erase", "unmonitor"} => executeRet'[r] = "FAIL"
    BY <1>1, <1>7 DEF BeginReturns, TypeOK, WorkInv
  <2>3. CASE UNCHANGED <<worker, callee>>
    BY <1>1, <2>2, <2>3, WorkInvFrame
  <2>4. CASE LeaveWork(s, i, "failed")
    <3>1. "failed" \notin AtWork
      BY DEF AtWork
    <3> QED
      BY <1>1, <2>2, <2>4, <3>1, LeavesWork DEF LeaveWork
  <2> QED
    BY <1>7, <2>1, <2>3, <2>4 DEF BeginReturns
<1> QED
  BY <1>2, <1>3, <1>4, <1>5, <1>6, <1>7 DEF HandleStep

\* The other threads of the service put nobody to work.
LEMMA OthersKnow ==
  ASSUME TypeOK, AllWatched, AllWorkKnown, NEW r \in Schedules, NEW s \in Schedules,
         \/ TimeOutStep(s) \/ CancelLookup(s) \/ CancelNext(s)
         \/ \E i \in Slots : \/ SendDataFind(s, i) \/ SendDataDeliver(s, i)
                             \/ FinishCall(s, i) \/ FinishStep(s, i)
  PROVE  WorkInv(r)'
<1> USE DEF poolVars, handleVars
<1>1. WorkInv(r)
  BY DEF AllWorkKnown
<1>2. CASE UNCHANGED <<executor, handleVars>> /\ \A i \in Slots : worker'[r][i] \in AtWork => worker[r][i] \in AtWork
  BY <1>1, <1>2, WorkInvFrame DEF WorkInv
<1>3. CASE TimeOutCancel(s) \/ CancelNext(s)
  BY <1>2, <1>3, EndsLeaveAtWork DEF TimeOutCancel, CancelNext, Cancellers
<1>4. ASSUME NEW i \in Slots, FinishStep(s, i)
      PROVE  WorkInv(r)'
  <2>1. PICK to \in WorkerStates \ AtWork : worker' = [worker EXCEPT ![s][i] = to]
    BY <1>4 DEF FinishStep, FinishCount, FinishMinus, FinishUnmonitor, FinishFind, FinishReport,
       FinishErase, SetWorker, WorkerStates, AtWork
  <2>2. \A j \in Slots : worker'[r][j] \in AtWork => worker[r][j] \in AtWork
    BY <2>1 DEF TypeOK
  <2>3. UNCHANGED <<executor, handleVars>>
    BY <1>4 DEF FinishStep, FinishCount, FinishMinus, FinishUnmonitor, FinishFind, FinishReport, FinishErase
  <2> QED
    BY <1>2, <2>2, <2>3
<1>5. ASSUME NEW i \in Slots, FinishCall(s, i)
      PROVE  WorkInv(r)'
  <2>1. /\ worker' = [worker EXCEPT ![s][i] = "count"] /\ callee' = [callee EXCEPT ![s][i] = 0]
        /\ UNCHANGED <<executor, executors, handle, index, executeRet>>
    BY <1>5 DEF FinishCall, LeaveWork
  <2>2. handle[s] = "call" => i # index[s]
    BY <1>5 DEF FinishCall, LeaveWork, AllWatched, WatchInv, NotBegun, AtWork
  <2>3. "count" \notin AtWork
    BY DEF AtWork
  <2>4. handle'[r] \in {"report", "erase", "unmonitor"} => executeRet'[r] = "FAIL"
    BY <1>1, <2>1 DEF WorkInv
  <2> QED
    BY <1>1, <2>1, <2>2, <2>3, <2>4, LeavesWork
<1>6. CASE UNCHANGED <<executor, handleVars, worker>>
  BY <1>2, <1>6
<1> QED
  BY <1>3, <1>4, <1>5, <1>6 DEF TimeOutStep, TimerFires, TimeOutFind, TimeOutReport, TimeOutLookup,
     TimeOutErase, CancelLookup, SendDataFind, SendDataDeliver

\* Registration adds an executor, a death takes whom it leaves at work with it.
LEMMA WorkKnown == Spec => []AllWorkKnown
<1>1. Init => AllWorkKnown
  <2> SUFFICES ASSUME Init, NEW s \in Schedules
               PROVE  WorkInv(s)
    BY DEF AllWorkKnown
  <2>1. handle[s] = "idle" /\ \A i \in Slots : worker[s][i] = "idle"
    BY DEF Init
  <2> QED
    BY <2>1 DEF WorkInv, AtWork
<1>2. TypeOK /\ AllWatched /\ AllWorkKnown /\ [Next]_vars => AllWorkKnown'
  <2> SUFFICES ASSUME TypeOK, AllWatched, AllWorkKnown, [Next]_vars, NEW r \in Schedules
               PROVE  WorkInv(r)'
    BY DEF AllWorkKnown
  <2>1. WorkInv(r)
    BY DEF AllWorkKnown
  <2>2. ASSUME NEW x \in Executors, RegisterExecutor(x)
        PROVE  WorkInv(r)'
    <3>1. \A y \in Executors : executor[y] = "up" => executor'[y] = "up"
      BY <2>2 DEF RegisterExecutor, TypeOK
    <3> QED
      BY <2>1, <2>2, <3>1, WorkInvFrame DEF RegisterExecutor, handleVars, WorkInv
  <2>3. ASSUME NEW x \in Executors, OnRemoteDied(x)
        PROVE  WorkInv(r)'
    <3>1. \A y \in Executors : executor[y] = "up" => executor'[y] = "up"
      BY <2>3 DEF OnRemoteDied, TypeOK
    <3> QED
      BY <2>1, <2>3, <3>1, WorkInvFrame DEF OnRemoteDied, handleVars, WorkInv
  <2>4. ASSUME NEW x \in Executors, ExecutorDied(x)
        PROVE  WorkInv(r)'
    <3>1. \A i \in Slots : worker'[r][i] \in AtWork =>
            worker[r][i] \in AtWork /\ callee[r][i] # x /\ callee'[r][i] = callee[r][i]
      BY <2>4 DEF ExecutorDied, AtWorkFor, AtWork
    <3>2. \A y \in Executors : executor[y] = "up" /\ y # x => executor'[y] = "up"
      BY <2>4 DEF ExecutorDied, TypeOK
    <3>3. UNCHANGED <<handle, index, executors, executeRet>>
      BY <2>4 DEF ExecutorDied
    <3>4. handle[r] = "call" => callee'[r][index[r]] = callee[r][index[r]]
      <4> SUFFICES ASSUME handle[r] = "call"
                   PROVE  callee'[r][index[r]] = callee[r][index[r]]
        OBVIOUS
      <4>1. PICK i \in Slots : i = index[r]
        BY CountedIsFinite DEF TypeOK
      <4>2. worker[r][i] = "idle"
        BY <4>1 DEF AllWatched, WatchInv, NotBegun
      <4> QED
        BY <2>4, <4>1, <4>2 DEF ExecutorDied, AtWorkFor, AtWork
    <3> QED
      BY <2>1, <3>1, <3>2, <3>3, <3>4 DEF WorkInv
  <2>5. CASE UNCHANGED vars
    BY <2>1, <2>5, WorkInvFrame DEF vars, WorkInv
  <2> QED
    BY <2>2, <2>3, <2>4, <2>5, HandleKnows, OthersKnow DEF Next
<1> QED
  BY <1>1, <1>2, TypeCorrect, AlwaysWatched, PTL DEF Spec

\* The executor is at work and its turn in the loop of Cancel is still to come.
ToBeEnded(s, i) ==
  /\ worker[s][i] = "working"
  /\ \/ timer[s] = "lookup" /\ s \in scheResPool
     \/ timer[s] = "cancel" /\ cancelIdx["timer"][s] \in 1..i

\* It was told to end, or ended, or is one of the code's exceptions.
Excused(s, i) == worker[s][i] # "working" \/ Overtaken(s, i) \/ executeRet[s] = "FAIL"

NobodyPassedOver ==
  \A s \in Schedules : \A i \in Slots : ToBeEnded(s, i) => (ToBeEnded(s, i) \/ Excused(s, i))'

\* The round of Cancel's loop at the executor's place tells it, or finds another.
LEMMA RoundEnds ==
  ASSUME TypeOK, AllCounted, AllWorkKnown, NEW s \in Schedules, NEW i \in Slots, TimeOutCancel(s),
         ToBeEnded(s, i), timer[s] = "cancel"
  PROVE  (ToBeEnded(s, i) \/ Excused(s, i))'
<1> DEFINE k == cancelIdx["timer"][s]
<1>1. /\ k \in 1..i /\ k \in SlotsOf(s) /\ UNCHANGED <<executor, callee, executors>>
      /\ cancelIdx' = [cancelIdx EXCEPT !["timer"][s] = IF @ = Len(executors[s]) THEN 0 ELSE @ + 1]
      /\ timer' = [timer EXCEPT ![s] = IF k = Len(executors[s]) THEN "erase" ELSE "cancel"]
  BY DEF TimeOutCancel, EndExecutor, SetTimer, handleVars, ToBeEnded
<1>2. /\ i \in SlotsOf(s) /\ Len(executors[s]) \in Nat
      /\ callee[s][i] \in Executors /\ TypeOf[callee[s][i]] = executors[s][i] /\ executor[callee[s][i]] = "up"
  BY CoAuthAssumption DEF ToBeEnded, AllCounted, CountInv, AllWorkKnown, WorkInv, AtWork, TypeOK
<1>3. CASE k = i
  <2>1. callee[s][i] \in Entries(executors[s][i])
    BY <1>2 DEF Entries
  <2>2. PICK x \in Executors :
          /\ Finds(executors[s][i], x)
          /\ EndRuns(s, x, AtWork, "ending") \/ EndRuns(s, x, {"working"}, "missed")
    BY <1>3, <2>1 DEF TimeOutCancel, EndExecutor
  <2>3. CASE x = callee[s][i]
    <3>1. worker'[s][i] # "working"
      BY <2>2, <2>3 DEF EndRuns, AtWorkFor, ToBeEnded, AtWork, TypeOK
    <3> QED
      BY <3>1 DEF Excused
  <2>4. CASE x # callee[s][i]
    <3>1. x \in Entries(executors[s][i]) /\ x < callee[s][i]
      BY <1>2, <2>1, <2>2, <2>4, CoAuthAssumption DEF Finds
    <3>2. Overtaken(s, i)'
      BY <1>1, <3>1 DEF Overtaken, Entries
    <3> QED
      BY <3>2 DEF Excused
  <2> QED
    BY <2>3, <2>4
<1>4. CASE k # i
  <2>1. k + 1 \in 1..i /\ k # Len(executors[s])
    BY <1>1, <1>2, <1>4, CoAuthAssumption DEF SlotsOf, Slots
  <2>2. cancelIdx'["timer"][s] = k + 1 /\ timer'[s] = "cancel"
    BY <1>1, <2>1 DEF TypeOK, Cancellers
  <2> QED
    BY <2>1, <2>2 DEF ToBeEnded, Excused
<1> QED
  BY <1>3, <1>4

\* An entry of a schedule with an executor at work is erased by a failing
\* CoAuthHandle only: an executor that erases has all others behind it.
LEMMA EntryStays ==
  ASSUME TypeOK, AllCounted, AllWorkKnown, NEW s \in Schedules, NEW i \in Slots,
         worker[s][i] = "working", timer[s] = "lookup", s \in scheResPool, [Next]_vars
  PROVE  s \in scheResPool' \/ executeRet[s] = "FAIL"
<1>1. \A j \in Slots : worker[s][j] # "erase"
  <2> SUFFICES ASSUME NEW j \in Slots, worker[s][j] = "erase"
               PROVE  FALSE
    OBVIOUS
  <2>1. OthersCounted(s, j) /\ i \in SlotsOf(s) /\ i # j
    BY DEF AllCounted, CountInv, Reporting
  <2> QED
    BY <2>1 DEF OthersCounted
<1> QED
  BY <1>1, PoolMoves DEF PoolMove, SaveSchedule, AllWorkKnown, WorkInv

\* A begin that failed stays so.
LEMMA FailureStays ==
  ASSUME TypeOK, NEW s \in Schedules, executeRet[s] = "FAIL", [Next]_vars
  PROVE  executeRet'[s] = "FAIL"
<1> USE DEF poolVars, handleVars
<1>1. CASE executeRet' = executeRet
  BY <1>1
<1>2. ASSUME NEW r \in Schedules, BeginExecutor(r) \/ BeginReturns(r)
      PROVE  executeRet'[s] = "FAIL"
  BY <1>2 DEF BeginExecutor, BeginReturns, TypeOK
<1>3. ASSUME NEW r \in Schedules,
             \/ RejectSchedule(r) \/ SaveSchedule(r) \/ (HandleStep(r) /\ ~BeginExecutor(r))
             \/ TimeOutStep(r) \/ CancelLookup(r) \/ CancelNext(r)
             \/ \E i \in Slots : \/ SendDataFind(r, i) \/ SendDataDeliver(r, i)
                                 \/ FinishCall(r, i) \/ FinishStep(r, i)
      PROVE  executeRet' = executeRet
  BY <1>3 DEF RejectSchedule, SaveSchedule, HandleStep, MonitorCall, FindExecutor, EndBeginExecute,
     ReportFailure, EraseFailed, UnmonitorFailed, TimeOutStep, TimerFires, TimeOutFind,
     TimeOutReport, TimeOutLookup, TimeOutCancel, TimeOutErase, CancelLookup, CancelNext,
     SendDataFind, SendDataDeliver, FinishCall, FinishStep, FinishCount, FinishMinus,
     FinishUnmonitor, FinishFind, FinishReport, FinishErase
<1>4. ASSUME NEW x \in Executors, RegisterExecutor(x) \/ ExecutorDied(x) \/ OnRemoteDied(x)
      PROVE  executeRet' = executeRet
  BY <1>4 DEF RegisterExecutor, ExecutorDied, OnRemoteDied
<1> QED
  BY <1>1, <1>2, <1>3, <1>4 DEF Next, vars

\* At its lookup and in its loop only the timer's own thread moves the timer and
\* its index; a Cancel by a service has an index of its own.
LEMMA OnlyTimerCancels ==
  ASSUME TypeOK, AllWatched, NEW s \in Schedules, timer[s] \in {"lookup", "cancel"}, [Next]_vars
  PROVE  \/ TimeOutLookup(s) \/ TimeOutCancel(s)
         \/ timer'[s] = timer[s] /\ cancelIdx'["timer"][s] = cancelIdx["timer"][s]
<1> USE DEF poolVars, handleVars, SetTimer, MonitorRemoveCall
<1> DEFINE Quiet == timer'[s] = timer[s] /\ cancelIdx'["timer"][s] = cancelIdx["timer"][s]
<1>1. ASSUME NEW r \in Schedules, TimeOutStep(r), ~TimeOutLookup(s), ~TimeOutCancel(s)
      PROVE  Quiet
  <2>1. CASE r = s
    BY <1>1, <2>1 DEF TimeOutStep, TimerFires, TimeOutFind, TimeOutReport, TimeOutErase
  <2>2. CASE r # s
    BY <1>1, <2>2 DEF TimeOutStep, TimerFires, TimeOutFind, TimeOutReport, TimeOutErase,
       TimeOutLookup, TimeOutCancel, EndExecutor, TypeOK, Cancellers
  <2> QED
    BY <2>1, <2>2
<1>2. ASSUME NEW r \in Schedules, CancelLookup(r) \/ CancelNext(r)
      PROVE  Quiet
  BY <1>2 DEF CancelLookup, CancelNext, EndExecutor, TypeOK, Cancellers
<1>3. ASSUME NEW r \in Schedules, MonitorCall(r)
      PROVE  Quiet
  <2>1. r # s
    BY <1>3 DEF MonitorCall, AllWatched, WatchInv
  <2> QED
    BY <1>3, <2>1 DEF MonitorCall, TypeOK
<1>4. ASSUME NEW r \in Schedules,
             RejectSchedule(r) \/ SaveSchedule(r) \/ (HandleStep(r) /\ ~MonitorCall(r)) \/ BeginReturns(r)
      PROVE  Quiet
  BY <1>4 DEF RejectSchedule, SaveSchedule, HandleStep, FindExecutor, BeginExecutor, BeginReturns,
     EndBeginExecute, ReportFailure, EraseFailed, UnmonitorFailed, TypeOK
<1>5. ASSUME NEW r \in Schedules, NEW i \in Slots,
             SendDataFind(r, i) \/ SendDataDeliver(r, i) \/ FinishCall(r, i) \/ FinishStep(r, i)
      PROVE  Quiet
  BY <1>5 DEF SendDataFind, SendDataDeliver, FinishCall, FinishStep, FinishCount, FinishMinus,
     FinishUnmonitor, FinishFind, FinishReport, FinishErase, TypeOK
<1>6. ASSUME NEW x \in Executors, RegisterExecutor(x) \/ ExecutorDied(x) \/ OnRemoteDied(x)
      PROVE  Quiet
  BY <1>6 DEF RegisterExecutor, ExecutorDied, OnRemoteDied
<1>7. CASE UNCHANGED vars
  BY <1>7 DEF vars
<1> QED
  BY <1>1, <1>2, <1>3, <1>4, <1>5, <1>6, <1>7 DEF Next

\* The safety half of TimeoutEndsExecutors: no step passes over an executor the
\* timeout has to tell, whoever registers, dies, finishes or cancels meanwhile,
\* but for the exceptions TimeoutEndsExecutors names.
\* (coauth_manager.cpp:226-243 and Cancel, which looks executors up by type)
THEOREM CancelPassesNobodyOver == Spec => [][NobodyPassedOver]_vars
<1>1. TypeOK /\ AllWatched /\ AllCounted /\ AllWorkKnown /\ [Next]_vars => NobodyPassedOver
  <2> SUFFICES ASSUME TypeOK, AllWatched, AllCounted, AllWorkKnown, [Next]_vars,
                      NEW s \in Schedules, NEW i \in Slots, ToBeEnded(s, i),
                      worker'[s][i] = "working"
               PROVE  (ToBeEnded(s, i) \/ Excused(s, i))'
    BY DEF NobodyPassedOver, Excused
  <2>1. CASE timer[s] = "lookup" /\ s \in scheResPool
    <3>1. s \in scheResPool' \/ executeRet'[s] = "FAIL"
      BY <2>1, EntryStays, FailureStays DEF ToBeEnded
    <3>2. CASE TimeOutLookup(s)
      <4>1. timer'[s] = "cancel" /\ cancelIdx'["timer"][s] = 1 /\ 1 \in 1..i
        BY <2>1, <3>2, CoAuthAssumption DEF TimeOutLookup, SetTimer, TypeOK, Cancellers, Slots
      <4> QED
        BY <4>1 DEF ToBeEnded
    <3>3. CASE timer'[s] = timer[s]
      BY <2>1, <3>1, <3>3 DEF ToBeEnded, Excused
    <3> QED
      BY <2>1, <3>2, <3>3, OnlyTimerCancels DEF TimeOutCancel, SetTimer
  <2>2. CASE timer[s] = "cancel" /\ cancelIdx["timer"][s] \in 1..i
    <3>1. CASE TimeOutCancel(s)
      BY <2>2, <3>1, RoundEnds
    <3>2. CASE timer'[s] = timer[s] /\ cancelIdx'["timer"][s] = cancelIdx["timer"][s]
      BY <2>2, <3>2 DEF ToBeEnded
    <3> QED
      BY <2>2, <3>1, <3>2, OnlyTimerCancels DEF TimeOutLookup, SetTimer
  <2> QED
    BY <2>1, <2>2 DEF ToBeEnded
<1> QED
  BY <1>1, TypeCorrect, AlwaysWatched, CountInvariant, WorkKnown, PTL DEF Spec

(***************************************************************************)
(* Each step of CoAuth is a step of ScheduleContract, or leaves what the   *)
(* contract speaks of alone.  Beyond the invariants above that needs that  *)
(* nobody erases an entry whose callback has heard nothing.                *)
(***************************************************************************)

Told(s) == \E kind \in Kinds : Says(s, kind)

ErasedTold(s) ==
  /\ handle[s] \in {"erase", "unmonitor"} => Says(s, "failure")
  /\ timer[s] \in {"lookup", "cancel", "erase"} => Says(s, "timeout")
  /\ \A i \in Slots : worker[s][i] = "erase" => Says(s, "verdict")
  /\ handle[s] # "idle" /\ s \notin scheResPool => Told(s)
  /\ handle[s] = "idle" => s \notin scheResPool

AllErasedTold == \A s \in Schedules : ErasedTold(s)

LEMMA ErasedInvariant == Spec => []AllErasedTold
<1>1. Init => AllErasedTold
  <2> SUFFICES ASSUME Init, NEW s \in Schedules
               PROVE  ErasedTold(s)
    BY DEF AllErasedTold
  <2>1. /\ handle[s] = "idle" /\ timer[s] = "idle" /\ scheResPool = {}
        /\ \A i \in Slots : worker[s][i] = "idle"
    BY DEF Init
  <2> QED
    BY <2>1 DEF ErasedTold
<1>2. TypeOK /\ AllWatched /\ AllErasedTold /\ [Next]_vars => AllErasedTold'
  <2> SUFFICES ASSUME TypeOK, AllWatched, AllErasedTold, [Next]_vars, NEW s \in Schedules
               PROVE  ErasedTold(s)'
    BY DEF AllErasedTold
  <2>1. ErasedTold(s) /\ \A kind \in Kinds : Says(s, kind) => Says(s, kind)'
    BY AnswersStay DEF AllErasedTold
  <2>2. HandleMove(s) /\ TimerMove(s) /\ PoolMove(s) /\ \A j \in Slots : WorkMove(s, j)
    BY HandleMoves, TimerMoves, PoolMoves, WorkMoves
  <2>3. "failure" \in Kinds /\ "timeout" \in Kinds /\ "verdict" \in Kinds
    BY DEF Kinds
  <2>4. (RejectSchedule(s) \/ ReportFailure(s)) => Says(s, "failure")'
    BY <2>3, AnswerAdds DEF RejectSchedule, ReportFailure
  <2>5. TimeOutReport(s) => Says(s, "timeout")'
    BY <2>3, AnswerAdds DEF TimeOutReport
  <2>6. \A i \in Slots : FinishReport(s, i) => Says(s, "verdict")'
    BY <2>3, AnswerAdds DEF FinishReport
  <2>7. handle'[s] \in {"erase", "unmonitor"} => Says(s, "failure")'
    BY <2>1, <2>2, <2>3, <2>4 DEF HandleMove, ErasedTold
  <2>8. timer'[s] \in {"lookup", "cancel", "erase"} => Says(s, "timeout")'
    BY <2>1, <2>2, <2>3, <2>5 DEF TimerMove, ErasedTold
  <2>9. \A i \in Slots : worker'[s][i] = "erase" => Says(s, "verdict")'
    BY <2>1, <2>2, <2>3, <2>6 DEF WorkMove, ErasedTold
  <2>10. Told(s) => Told(s)'
    BY <2>1 DEF Told
  <2>11. ASSUME handle'[s] # "idle", s \notin scheResPool'
         PROVE  Told(s)'
    <3>1. CASE handle[s] = "idle"
      <4>1. RejectSchedule(s)
        BY <2>2, <2>11, <3>1 DEF HandleMove, ReportFailure
      <4> QED
        BY <2>3, <2>4, <4>1 DEF Told
    <3>2. CASE handle[s] # "idle" /\ s \notin scheResPool
      BY <2>1, <2>10, <3>2 DEF ErasedTold
    <3>3. CASE handle[s] # "idle" /\ s \in scheResPool
      <4>1. Says(s, "failure") \/ Says(s, "timeout") \/ Says(s, "verdict")
        BY <2>1, <2>2, <2>11, <3>3 DEF PoolMove, SaveSchedule, ErasedTold
      <4> QED
        BY <2>1, <2>3, <4>1 DEF Told
    <3> QED
      BY <3>1, <3>2, <3>3
  <2>12. handle'[s] = "idle" => s \notin scheResPool'
    BY <2>1, <2>2 DEF HandleMove, PoolMove, SaveSchedule, ErasedTold, TypeOK
  <2> QED
    BY <2>7, <2>8, <2>9, <2>11, <2>12 DEF ErasedTold
<1> QED
  BY <1>1, <1>2, TypeCorrect, AlwaysWatched, PTL DEF Spec

(***************************************************************************)
(* The refinement                                                          *)
(***************************************************************************)

contractVars == <<contractStatus, contractTold>>

\* What the contract keeps of a schedule's answers.
LEMMA ToldIs ==
  ASSUME NEW s \in Schedules
  PROVE  /\ \A kind : kind \in contractTold[s] <=> Says(s, kind)
         /\ \A kind : kind \in contractTold'[s] <=> Says(s, kind)'
BY DEF contractTold, Says

\* A callback that hears a kind of answer for the first time.
LEMMA TellIsTell ==
  ASSUME TypeOK, AllErasedTold, NEW s \in Schedules, NEW kind \in Kinds,
         Answer(s, kind), ~Says(s, kind), handle[s] # "idle", UNCHANGED contractStatus
  PROVE  Contract!Next
<1>1. contractStatus[s] # "idle"
  BY DEF contractStatus
<1>2. contractTold[s] # {} \/ contractStatus[s] = "open"
  BY ToldIs DEF AllErasedTold, ErasedTold, Told, contractStatus
<1>3. kind \notin contractTold[s]
  BY ToldIs
<1>4. contractTold'[s] = contractTold[s] \cup {kind}
  <2>1. answers[s] \in Seq(Kinds) /\ answers'[s] \in Seq(Kinds)
    BY DEF TypeOK, Answer
  <2>2. \A k : Says(s, k) => k \in Kinds
    BY <2>1 DEF Says
  <2>3. \A k : Says(s, k)' => k \in Kinds
    BY <2>1 DEF Says
  <2>4. \A k \in Kinds : Says(s, k)' <=> Says(s, k) \/ k = kind
    BY AnswerAdds
  <2>5. \A k : k \in contractTold'[s] <=> k \in contractTold[s] \/ k = kind
    BY <2>2, <2>3, <2>4, ToldIs
  <2> QED
    BY <2>5
<1>5. contractTold' = [contractTold EXCEPT ![s] = @ \cup {kind}]
  <2>1. \A r \in Schedules \ {s} : answers'[r] = answers[r]
    BY DEF Answer, TypeOK
  <2>2. \A r \in Schedules \ {s} : contractTold'[r] = contractTold[r]
    BY <2>1 DEF contractTold
  <2> QED
    BY <1>4, <2>2 DEF contractTold
<1>6. Contract!Tell(s, kind)
  BY <1>1, <1>2, <1>3, <1>5 DEF Contract!Tell
<1> QED
  BY <1>6 DEF Contract!Next, Contract!Kinds, Kinds

\* Nobody has begun, nothing was erased, nothing was told.
LEMMA QuietForContract ==
  ASSUME scheResPool' = scheResPool, answers' = answers,
         \A r \in Schedules : handle'[r] = "idle" <=> handle[r] = "idle"
  PROVE  UNCHANGED contractVars
<1>1. contractTold' = contractTold
  BY DEF contractTold
<1>2. contractStatus' = contractStatus
  BY DEF contractStatus
<1> QED
  BY <1>1, <1>2 DEF contractVars

\* DeleteScheduleCallback releases a schedule whose callback was told, or one
\* that another thread has released.
LEMMA ErasureIsRelease ==
  ASSUME NEW s \in Schedules, DeleteScheduleCallback(s), answers' = answers,
         \A r \in Schedules : handle'[r] = "idle" <=> handle[r] = "idle",
         AllErasedTold, NEW kind \in Kinds, Says(s, kind)
  PROVE  [Contract!Next]_contractVars
<1>1. CASE s \notin scheResPool
  <2>1. scheResPool' = scheResPool
    BY <1>1 DEF DeleteScheduleCallback
  <2> QED
    BY <2>1, QuietForContract
<1>2. CASE s \in scheResPool
  <2>1. contractTold' = contractTold
    BY DEF contractTold
  <2>2. contractTold[s] # {}
    BY ToldIs
  <2>3. handle[s] # "idle"
    BY <1>2 DEF AllErasedTold, ErasedTold
  <2>4. contractStatus[s] = "open"
    BY <1>2 DEF contractStatus
  <2>5. contractStatus' = [contractStatus EXCEPT ![s] = "released"]
    <3>1. contractStatus'[s] = "released"
      BY <2>3 DEF contractStatus, DeleteScheduleCallback
    <3>2. \A r \in Schedules \ {s} : contractStatus'[r] = contractStatus[r]
      BY DEF contractStatus, DeleteScheduleCallback
    <3> QED
      BY <3>1, <3>2 DEF contractStatus
  <2>6. Contract!Release(s)
    BY <2>1, <2>2, <2>4, <2>5 DEF Contract!Release
  <2> QED
    BY <2>6 DEF Contract!Next
<1> QED
  BY <1>1, <1>2

\* The threads that tell a callback whose schedule has begun.
LEMMA ReportsAreTells ==
  ASSUME TypeOK, AllWatched, AllTold, AllErasedTold, NEW s \in Schedules,
         \/ ReportFailure(s) \/ TimeOutReport(s) \/ \E i \in Slots : FinishReport(s, i)
  PROVE  Contract!Next
<1> USE DEF SetWorker, SetTimer, poolVars, handleVars
<1>1. TellInv(s) /\ WatchInv(s)
  BY DEF AllTold, AllWatched
<1>2. scheResPool' = scheResPool /\ \A r \in Schedules : handle'[r] = "idle" <=> handle[r] = "idle"
  BY DEF ReportFailure, TimeOutReport, FinishReport, TypeOK
<1>3. UNCHANGED contractStatus
  BY <1>2 DEF contractStatus
<1>4. handle[s] # "idle"
  <2>1. CASE \E i \in Slots : FinishReport(s, i)
    <3>1. PICK i \in Slots : worker[s][i] = "report"
      BY <2>1 DEF FinishReport
    <3>2. ~NotBegun(s, i)
      BY <1>1, <3>1 DEF WatchInv
    <3> QED
      BY <1>1, <3>2 DEF WatchInv, NotBegun, Slots
  <2> QED
    BY <1>1, <2>1 DEF ReportFailure, TimeOutReport, WatchInv
<1>5. PICK kind \in Kinds : Answer(s, kind) /\ ~Says(s, kind)
  BY <1>1 DEF ReportFailure, TimeOutReport, FinishReport, TellInv, Kinds
<1> QED
  BY <1>3, <1>4, <1>5, TellIsTell

\* BeginSchedule refuses or opens a schedule nobody has heard of.
LEMMA BeginsAreBegins ==
  ASSUME TypeOK, AllTold, AllErasedTold, NEW s \in Schedules, RejectSchedule(s) \/ SaveSchedule(s)
  PROVE  Contract!Next
<1>1. handle[s] = "idle" /\ s \notin scheResPool /\ answers[s] = <<>>
  BY DEF RejectSchedule, SaveSchedule, AllTold, TellInv, AllErasedTold, ErasedTold
<1>2. contractStatus[s] = "idle"
  BY <1>1 DEF contractStatus
<1>3. /\ handle'[s] # "idle"
      /\ \A r \in Schedules \ {s} : handle'[r] = handle[r]
  BY DEF RejectSchedule, SaveSchedule, TypeOK
<1>4. CASE RejectSchedule(s)
  <2>1. contractStatus' = [contractStatus EXCEPT ![s] = "released"]
    BY <1>1, <1>3, <1>4 DEF contractStatus, RejectSchedule, poolVars
  <2>2. answers'[s] = <<"failure">> /\ \A r \in Schedules \ {s} : answers'[r] = answers[r]
    BY <1>1, <1>4 DEF RejectSchedule, Answer, TypeOK
  <2>3. contractTold' = [contractTold EXCEPT ![s] = {"failure"}]
    <3>1. contractTold'[s] = {"failure"}
      BY <2>2 DEF contractTold
    <3>2. \A r \in Schedules \ {s} : contractTold'[r] = contractTold[r]
      BY <2>2 DEF contractTold
    <3> QED
      BY <3>1, <3>2 DEF contractTold
  <2>4. Contract!Refuse(s)
    BY <1>2, <2>1, <2>3 DEF Contract!Refuse
  <2> QED
    BY <2>4 DEF Contract!Next
<1>5. CASE SaveSchedule(s)
  <2>1. contractStatus' = [contractStatus EXCEPT ![s] = "open"]
    BY <1>3, <1>5 DEF contractStatus, SaveSchedule
  <2>2. contractTold' = contractTold
    BY <1>5 DEF contractTold, SaveSchedule
  <2>3. Contract!Open(s)
    BY <1>2, <2>1, <2>2 DEF Contract!Open
  <2> QED
    BY <2>3 DEF Contract!Next
<1> QED
  BY <1>4, <1>5

\* Whatever executors, threads and timers do, the caller of BeginSchedule sees
\* the contract: a schedule is refused or opened, told each kind of answer at
\* most once, and released only when it was told.
THEOREM KeepsContract == Spec => Contract!Init /\ [][Contract!Next]_contractVars
<1>1. Init => Contract!Init
  <2> SUFFICES ASSUME Init
               PROVE  Contract!Init
    OBVIOUS
  <2>1. contractStatus = [s \in Schedules |-> "idle"]
    BY DEF Init, contractStatus
  <2>2. \A s \in Schedules : answers[s] = <<>>
    BY DEF Init
  <2>3. \A s \in Schedules : contractTold[s] = {}
    <3> SUFFICES ASSUME NEW s \in Schedules
                 PROVE  contractTold[s] = {}
      OBVIOUS
    <3>1. \A kind : ~Says(s, kind)
      BY <2>2 DEF Says
    <3> QED
      BY <3>1, ToldIs
  <2>4. contractTold = [s \in Schedules |-> {}]
    BY <2>3 DEF contractTold
  <2> QED
    BY <2>1, <2>4 DEF Contract!Init
<1>2. TypeOK /\ AllWatched /\ AllTold /\ AllErasedTold /\ [Next]_vars => [Contract!Next]_contractVars
  <2> SUFFICES ASSUME TypeOK, AllWatched, AllTold, AllErasedTold, [Next]_vars
               PROVE  [Contract!Next]_contractVars
    OBVIOUS
  <2> USE DEF SetWorker, SetTimer, poolVars, handleVars
  <2>0. "failure" \in Kinds /\ "timeout" \in Kinds /\ "verdict" \in Kinds
    BY DEF Kinds
  <2>1. ASSUME NEW s \in Schedules, EraseFailed(s)
        PROVE  [Contract!Next]_contractVars
    <3>1. /\ DeleteScheduleCallback(s) /\ answers' = answers /\ Says(s, "failure")
          /\ \A r \in Schedules : handle'[r] = "idle" <=> handle[r] = "idle"
      BY <2>1 DEF EraseFailed, AllErasedTold, ErasedTold, TypeOK
    <3> QED
      BY <2>0, <3>1, ErasureIsRelease
  <2>2. ASSUME NEW s \in Schedules, TimeOutErase(s)
        PROVE  [Contract!Next]_contractVars
    <3>1. DeleteScheduleCallback(s) /\ answers' = answers /\ Says(s, "timeout") /\ handle' = handle
      BY <2>2 DEF TimeOutErase, AllErasedTold, ErasedTold
    <3> QED
      BY <2>0, <3>1, ErasureIsRelease
  <2>3. ASSUME NEW s \in Schedules, NEW i \in Slots, FinishErase(s, i)
        PROVE  [Contract!Next]_contractVars
    <3>1. DeleteScheduleCallback(s) /\ answers' = answers /\ Says(s, "verdict") /\ handle' = handle
      BY <2>3 DEF FinishErase, AllErasedTold, ErasedTold
    <3> QED
      BY <2>0, <3>1, ErasureIsRelease
  <2>4. ASSUME NEW s \in Schedules,
               \/ MonitorCall(s) \/ FindExecutor(s) \/ BeginExecutor(s) \/ BeginReturns(s)
               \/ EndBeginExecute(s) \/ UnmonitorFailed(s)
        PROVE  [Contract!Next]_contractVars
    <3>1. /\ scheResPool' = scheResPool /\ answers' = answers
          /\ \A r \in Schedules : handle'[r] = "idle" <=> handle[r] = "idle"
      BY <2>4 DEF MonitorCall, FindExecutor, BeginExecutor, BeginReturns, EndBeginExecute,
         UnmonitorFailed, TypeOK
    <3> QED
      BY <3>1, QuietForContract
  <2>5. CASE UNCHANGED <<scheResPool, answers, handle>>
    BY <2>5, QuietForContract
  <2>6. ASSUME NEW s \in Schedules,
               \/ TimerFires(s) \/ TimeOutFind(s) \/ TimeOutLookup(s) \/ TimeOutCancel(s)
               \/ CancelLookup(s) \/ CancelNext(s)
        PROVE  [Contract!Next]_contractVars
    BY <2>5, <2>6 DEF TimerFires, TimeOutFind, TimeOutLookup, TimeOutCancel, CancelLookup, CancelNext
  <2>7. ASSUME NEW s \in Schedules, NEW i \in Slots,
               \/ SendDataFind(s, i) \/ SendDataDeliver(s, i) \/ FinishCall(s, i)
               \/ FinishCount(s, i) \/ FinishMinus(s, i) \/ FinishUnmonitor(s, i) \/ FinishFind(s, i)
        PROVE  [Contract!Next]_contractVars
    BY <2>5, <2>7 DEF SendDataFind, SendDataDeliver, FinishCall, FinishCount, FinishMinus,
       FinishUnmonitor, FinishFind
  <2>8. ASSUME NEW x \in Executors, RegisterExecutor(x) \/ ExecutorDied(x) \/ OnRemoteDied(x)
        PROVE  [Contract!Next]_contractVars
    BY <2>5, <2>8 DEF RegisterExecutor, ExecutorDied, OnRemoteDied
  <2>9. CASE UNCHANGED vars
    BY <2>5, <2>9 DEF vars
  <2> HIDE DEF SetWorker, SetTimer, poolVars, handleVars
  <2> QED
    BY <2>1, <2>2, <2>3, <2>4, <2>6, <2>7, <2>8, <2>9, BeginsAreBegins, ReportsAreTells
    DEF Next, HandleStep, FinishStep, TimeOutStep
<1> QED
  BY <1>1, <1>2, TypeCorrect, AlwaysWatched, TellInvariant, ErasedInvariant, PTL DEF Spec
=============================================================================
