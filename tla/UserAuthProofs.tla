--------------------------- MODULE UserAuthProofs ---------------------------
(***************************************************************************)
(* Proofs about UserAuth, for every set of contexts, every number of       *)
(* threads and schedules, and whatever the device answers.                 *)
(***************************************************************************)
EXTENDS UserAuth, SequenceTheorems, TLAPS

\* Answering a client keeps the type of what it was told, and tells it something.
LEMMA AnswerIsTyped ==
  ASSUME results \in [Contexts -> Seq(Results)], NEW c \in Contexts,
         NEW code \in AnswerCodes \cup {"BUSY"}, NEW token \in BOOLEAN,
         OnResult(c, code, token)
  PROVE  /\ results' \in [Contexts -> Seq(Results)]
         /\ \A d \in Contexts : d # c => results'[d] = results[d]
         /\ results'[c] # <<>>
<1>1. Result(code, token) \in Results
  BY DEF Result, Results
<1>2. results' = [results EXCEPT ![c] = Append(results[c], Result(code, token))]
  BY DEF OnResult
<1> HIDE DEF Result, Results
<1>3. Append(results[c], Result(code, token)) \in Seq(Results) /\ Append(results[c], Result(code, token)) # <<>>
  BY <1>1
<1> QED
  BY <1>2, <1>3

LEMMA KindIsTyped ==
  ASSUME NEW code \in AnswerCodes
  PROVE  KindOf(code) \in CoAuth!Kinds
BY DEF KindOf, CoAuth!Kinds

\* The answer at the head of a queue.
LEMMA HeadIsTyped ==
  ASSUME queue \in [Contexts -> Seq(Tasks)], NEW c \in Contexts, queue[c] # <<>>, Head(queue[c]) # Tip
  PROVE  Head(queue[c]).code \in AnswerCodes /\ Head(queue[c]).schedule \in 1..MaxSchedules
<1>1. Head(queue[c]) \in Tasks
  BY HeadTailProperties
<1> QED
  BY <1>1 DEF Tasks

\* A task added to a context's queue.
LEMMA QueueIsTyped ==
  ASSUME queue \in [Contexts -> Seq(Tasks)], NEW c \in Contexts, NEW t \in Tasks,
         queue' = [queue EXCEPT ![c] = Append(@, t)]
  PROVE  /\ queue' \in [Contexts -> Seq(Tasks)]
         /\ \A d \in Contexts : d # c => queue'[d] = queue[d]
<1>1. Append(queue[c], t) \in Seq(Tasks)
  OBVIOUS
<1> QED
  BY <1>1

\* The steps of Auth and AuthUser keep the types.
LEMMA RequestTypes ==
  ASSUME TypeOK, NEW c \in Contexts, RefuseRequest(c) \/ AddContextId(c) \/ RequestStep(c)
  PROVE  TypeOK'
<1> USE UserAuthAssumption DEF UserAuthAssumption, TypeOK, RequestTo, RequestStates, scheduleVars, taskVars, handledVars
<1>1. CASE RefuseRequest(c)
  <2>1. results' \in [Contexts -> Seq(Results)]
    BY <1>1, AnswerIsTyped DEF RefuseRequest, AnswerCodes
  <2> QED
    BY <1>1, <2>1 DEF RefuseRequest, CoAuth!TypeOK
<1>2. CASE AddContextId(c)
  BY <1>2 DEF AddContextId, CoAuth!TypeOK
<1>3. CASE CheckCaller(c)
  BY <1>3 DEF CheckCaller, CoAuth!TypeOK
<1>4. CASE GenerateSolution(c)
  BY <1>4 DEF GenerateSolution, CoAuth!TypeOK
<1>5. CASE SaveCoAuthCallback(c)
  BY <1>5 DEF SaveCoAuthCallback, CoAuth!TypeOK
<1>6. CASE FailRequest(c)
  <2>1. results' \in [Contexts -> Seq(Results)]
    BY <1>6, AnswerIsTyped DEF FailRequest, AnswerCodes
  <2>2. request' \in [Contexts -> RequestStates]
    BY <1>6 DEF FailRequest
  <2>3. contexts_' \in SUBSET Contexts
    BY <1>6 DEF FailRequest
  <2> QED
    BY <1>6, <2>1, <2>2, <2>3 DEF FailRequest, CoAuth!TypeOK
<1>7. CASE BeginSchedule(c)
  <2>1. begun' \in [Contexts -> 0..MaxSchedules]
    BY <1>7 DEF BeginSchedule
  <2>2. status' \in [ScheduleIds -> {"idle", "open", "released"}] /\ told' = told
    BY <1>7 DEF BeginSchedule, CoAuth!Open, CoAuth!TypeOK
  <2> QED
    BY <1>7, <2>1, <2>2 DEF BeginSchedule, CoAuth!TypeOK
<1>8. CASE ReturnContextId(c)
  BY <1>8 DEF ReturnContextId, CoAuth!TypeOK
<1> QED
  BY <1>1, <1>2, <1>3, <1>4, <1>5, <1>6, <1>7, <1>8 DEF RequestStep

\* So do the calls from co_auth.
LEMMA ScheduleTypes ==
  ASSUME TypeOK, NEW c \in Contexts, NEW k \in 1..MaxSchedules, ScheduleStep(c, k) \/ OnAcquireInfo(c, k)
  PROVE  TypeOK'
<1> USE DEF TypeOK, requestVars, scheduleVars, taskVars, handledVars
<1>1. ASSUME NEW code \in AnswerCodes, OnFinish(c, k, code)
      PROVE  TypeOK'
  <2>1. CoAuth!TypeOK'
    BY <1>1, KindIsTyped DEF OnFinish, CoAuth!Tell, CoAuth!TypeOK
  <2>2. CASE c \in retains_
    <3>1. queue' \in [Contexts -> Seq(Tasks)] /\ UNCHANGED <<results, done>>
      <4>1. [code |-> code, schedule |-> k] \in Tasks
        BY DEF Tasks
      <4>2. queue' = [queue EXCEPT ![c] = Append(@, [code |-> code, schedule |-> k])] /\ UNCHANGED <<results, done>>
        BY <1>1, <2>2 DEF OnFinish
      <4> HIDE DEF TypeOK
      <4> QED
        BY <4>1, <4>2, QueueIsTyped DEF TypeOK
    <3> QED
      BY <1>1, <2>1, <3>1 DEF OnFinish
  <2>3. CASE c \notin retains_
    <3>1. results' \in [Contexts -> Seq(Results)]
      BY <1>1, <2>3, AnswerIsTyped DEF OnFinish, AnswerCodes
    <3>2. done' \in [Contexts -> BOOLEAN] /\ queue' = queue
      BY <1>1, <2>3 DEF OnFinish
    <3> QED
      BY <1>1, <2>1, <3>1, <3>2 DEF OnFinish
  <2> QED
    BY <2>2, <2>3
<1>2. CASE ScheduleReleased(c, k)
  BY <1>2 DEF ScheduleReleased, CoAuth!Release, CoAuth!TypeOK
<1>3. CASE OnAcquireInfo(c, k)
  <2>1. CASE c \in retains_
    <3>1. queue' \in [Contexts -> Seq(Tasks)] /\ done' = done
      BY <1>3, <2>1, QueueIsTyped DEF OnAcquireInfo, Tasks
    <3> QED
      BY <1>3, <3>1 DEF OnAcquireInfo, CoAuth!TypeOK
  <2>2. CASE c \notin retains_
    <3>1. done' \in [Contexts -> BOOLEAN] /\ queue' = queue
      BY <1>3, <2>2 DEF OnAcquireInfo
    <3> QED
      BY <1>3, <3>1 DEF OnAcquireInfo, CoAuth!TypeOK
  <2> QED
    BY <2>1, <2>2
<1> QED
  BY <1>1, <1>2, <1>3 DEF ScheduleStep, VerdictArrives, FailureArrives, TimeoutArrives, AnswerCodes

\* And the retained thread.
LEMMA TaskTypes ==
  ASSUME TypeOK, NEW c \in Contexts, TaskStep(c)
  PROVE  TypeOK'
<1> USE DEF TypeOK, requestVars, scheduleVars, taskVars, handledVars, TaskTo, TaskStates
<1>1. ASSUME queue[c] # <<>>
      PROVE  Head(queue[c]) \in Tasks /\ Tail(queue[c]) \in Seq(Tasks)
  BY <1>1, HeadTailProperties
<1>2. CASE AcquireInfoHandle(c)
  <2>1. queue' \in [Contexts -> Seq(Tasks)]
    BY <1>1, <1>2 DEF AcquireInfoHandle
  <2> QED
    BY <1>2, <2>1 DEF AcquireInfoHandle, CoAuth!TypeOK
<1>3. CASE FinishHandle(c)
  <2> DEFINE code == Head(queue[c]).code
  <2>1. queue' \in [Contexts -> Seq(Tasks)] /\ nowCount' \in [Contexts -> Nat]
    BY <1>1, <1>3 DEF FinishHandle
  <2>2. code \in AnswerCodes /\ Head(queue[c]).schedule \in 1..MaxSchedules
    BY <1>3, HeadIsTyped DEF FinishHandle
  <2> HIDE DEF code
  <2>3. CASE UNCHANGED <<task, verdict, undone, contexts_, retains_, results, done>>
    BY <1>3, <2>1, <2>3 DEF FinishHandle, CoAuth!TypeOK
  <2>4. ASSUME NEW token \in BOOLEAN, task' = [task EXCEPT ![c] = "report"],
               verdict' = [verdict EXCEPT ![c] = Result(code, token)],
               UNCHANGED <<undone, contexts_, retains_, results, done>>
        PROVE  TypeOK'
    <3>1. Result(code, token) \in Results
      BY <2>2 DEF Result, Results
    <3>2. verdict' \in [Contexts -> Results]
      BY <2>4, <3>1
    <3> QED
      BY <1>3, <2>1, <2>4, <3>2 DEF FinishHandle, CoAuth!TypeOK
  <2>5. ASSUME DeviceWaits(c), UNCHANGED <<task, verdict>>,
               \/ UNCHANGED <<contexts_, retains_, results, done>>
               \/ /\ contexts_' = contexts_ \ {c} /\ retains_' = retains_ \ {c}
                  /\ OnResult(c, "ERROR", FALSE) /\ done' = [done EXCEPT ![c] = TRUE]
        PROVE  TypeOK'
    <3>1. results' \in [Contexts -> Seq(Results)]
      BY <2>5, AnswerIsTyped DEF AnswerCodes
    <3>2. done' \in [Contexts -> BOOLEAN]
      BY <2>5
    <3>3. contexts_' \in SUBSET Contexts /\ retains_' \in SUBSET Contexts
      BY <2>5
    <3>4. undone' \in [ScheduleIds -> SUBSET CoAuth!Kinds]
      <4>1. KindOf(code) \in CoAuth!Kinds
        BY <2>2, KindIsTyped
      <4>2. undone' = [undone EXCEPT ![<<c, Head(queue[c]).schedule>>] = @ \cup {KindOf(code)}]
        BY <2>5 DEF DeviceWaits, code
      <4> QED
        BY <4>1, <4>2
    <3> QED
      BY <1>3, <2>1, <2>5, <3>1, <3>2, <3>3, <3>4 DEF FinishHandle, CoAuth!TypeOK
  <2> QED
    BY <1>3, <2>3, <2>4, <2>5 DEF FinishHandle, code
<1>4. CASE ReportResult(c)
  <2>1. verdict[c].code \in AnswerCodes \cup {"BUSY"} /\ verdict[c].token \in BOOLEAN
    BY DEF Results
  <2>2. PICK code \in AnswerCodes \cup {"BUSY"}, token \in BOOLEAN :
           OnResult(c, code, token)
    BY <1>4, <2>1 DEF ReportResult
  <2>3. results' \in [Contexts -> Seq(Results)]
    BY <2>2, AnswerIsTyped
  <2> QED
    BY <1>4, <2>3 DEF ReportResult, CoAuth!TypeOK
<1>5. CASE CancelSchedules(c)
  BY <1>5 DEF CancelSchedules, CoAuth!TypeOK
<1>6. CASE DeleteContextId(c)
  BY <1>6 DEF DeleteContextId, CoAuth!TypeOK
<1>7. CASE DeleteCoAuthCallback(c)
  BY <1>7 DEF DeleteCoAuthCallback, CoAuth!TypeOK
<1>8. CASE SetDoneFlag(c)
  BY <1>8 DEF SetDoneFlag, CoAuth!TypeOK
<1> QED
  BY <1>2, <1>3, <1>4, <1>5, <1>6, <1>7, <1>8 DEF TaskStep

\* And CancelAuth.
LEMMA CancelTypes ==
  ASSUME TypeOK, NEW c \in Contexts, CancelAuth(c) \/ CancelStep(c)
  PROVE  TypeOK'
BY DEF TypeOK, CancelAuth, CancelStep, CancelContext, CancelItsSchedules, CancelDeletesContext, CancelTo,
   CancelStates, requestVars, scheduleVars, taskVars, handledVars, CoAuth!TypeOK

LEMMA TypeInvariant == Spec => []TypeOK
<1>1. Init => TypeOK
  <2> SUFFICES ASSUME Init
               PROVE  TypeOK
    OBVIOUS
  <2> USE UserAuthAssumption DEF UserAuthAssumption, Init
  <2>1. Result("ERROR", FALSE) \in Results
    BY DEF Result, Results, AnswerCodes
  <2>2. verdict \in [Contexts -> Results]
    BY <2>1
  <2>3. done \in [Contexts -> BOOLEAN]
    OBVIOUS
  <2>4. CoAuth!TypeOK
    BY DEF CoAuth!Init, CoAuth!TypeOK
  <2>5. /\ request \in [Contexts -> RequestStates] /\ task \in [Contexts -> TaskStates]
        /\ cancel \in [Contexts -> CancelStates]
    BY DEF RequestStates, TaskStates, CancelStates
  <2>6. /\ scheduleNum \in [Contexts -> 0..MaxSchedules] /\ begun \in [Contexts -> 0..MaxSchedules]
        /\ nowCount \in [Contexts -> Nat] /\ undone \in [ScheduleIds -> SUBSET CoAuth!Kinds]
    OBVIOUS
  <2>7. queue \in [Contexts -> Seq(Tasks)] /\ results \in [Contexts -> Seq(Results)]
    OBVIOUS
  <2>8. /\ kind \in [Contexts -> {"Auth", "AuthUser"}]
        /\ contexts_ \in SUBSET Contexts /\ retains_ \in SUBSET Contexts
    OBVIOUS
  <2> HIDE DEF Init, UserAuthAssumption
  <2> QED
    BY <2>2, <2>3, <2>4, <2>5, <2>6, <2>7, <2>8 DEF TypeOK
<1>2. TypeOK /\ [Next]_vars => TypeOK'
  <2>1. ASSUME TypeOK, Next
        PROVE  TypeOK'
    BY <2>1, RequestTypes, ScheduleTypes, TaskTypes, CancelTypes DEF Next
  <2>2. ASSUME TypeOK, UNCHANGED vars
        PROVE  TypeOK'
    BY <2>2 DEF TypeOK, vars, CoAuth!TypeOK
  <2> QED
    BY <2>1, <2>2
<1> QED
  BY <1>1, <1>2, PTL DEF Spec

\* Every variable of the contexts, their threads and their schedules keeps its
\* type.
THEOREM TypeCorrect == Spec => []TypeOK
BY TypeInvariant

(***************************************************************************)
(* What holds of one context, whatever the others do                       *)
(***************************************************************************)

Working(c) == request[c] \in {"begin", "returned"}

\* Before SaveCoAuthCallback, and after a request that failed, nothing has been
\* started for the context.
NothingStarted(c) ==
  ~Working(c) =>
    /\ c \notin retains_ /\ queue[c] = <<>> /\ task[c] = "idle" /\ ~done[c]
    /\ \A k \in 1..MaxSchedules : status[<<c, k>>] = "idle"

\* A context whose thread is back in the group is gone, its client was
\* answered, and the flag is set or about to be.
ThreadIsBack(c) ==
  Working(c) /\ c \notin retains_ =>
    /\ c \notin contexts_ /\ results[c] # <<>>
    /\ task[c] = "flag" \/ (task[c] = "idle" /\ done[c])

\* The stages of OnFinishHandle come in the order of the code.
TaskIsInOrder(c) ==
  /\ task[c] \in {"cancel", "delete", "release", "flag"} => results[c] # <<>>
  /\ task[c] \in {"release", "flag"} => c \notin contexts_
  /\ task[c] = "flag" => c \notin retains_

FlagIsLast(c) == done[c] => c \notin retains_ /\ c \notin contexts_ /\ results[c] # <<>>

\* A request that has not begun has no context; AuthUser removes what fails.
OnlyAuthLeaks(c) ==
  /\ request[c] = "idle" => c \notin contexts_
  /\ request[c] = "failed" /\ c \in contexts_ => kind[c] = "Auth"

\* Until its result is reported, a client has heard nothing; afterwards the
\* thread takes up no task before the flag is set.
ReportedLast(c) ==
  /\ request[c] \in {"idle", "check", "solve", "save"} => results[c] = <<>>
  /\ Working(c) /\ task[c] \in {"idle", "report"} /\ ~done[c] => results[c] = <<>>

ContextOK(c) ==
  /\ NothingStarted(c) /\ ThreadIsBack(c) /\ TaskIsInOrder(c) /\ FlagIsLast(c)
  /\ OnlyAuthLeaks(c) /\ ReportedLast(c)

SafetyInv == \A c \in Contexts : ContextOK(c)

\* The part of the state that ContextOK(d) speaks of stays as it is.
Untouched(d) ==
  /\ request'[d] = request[d] /\ kind'[d] = kind[d]
  /\ queue'[d] = queue[d] /\ task'[d] = task[d] /\ done'[d] = done[d] /\ results'[d] = results[d]
  /\ d \in retains_' <=> d \in retains_
  /\ d \in contexts_' <=> d \in contexts_
  /\ \A k \in 1..MaxSchedules : status'[<<d, k>>] = status[<<d, k>>]

LEMMA UntouchedKeeps ==
  ASSUME NEW d \in Contexts, ContextOK(d), Untouched(d)
  PROVE  ContextOK(d)'
BY DEF ContextOK, Untouched, Working, NothingStarted, ThreadIsBack, TaskIsInOrder, FlagIsLast,
   OnlyAuthLeaks, ReportedLast

\* A step of the context c alone: the rest of the state is untouched.
LEMMA RequestIsLocal ==
  ASSUME TypeOK, NEW c \in Contexts, RefuseRequest(c) \/ AddContextId(c) \/ RequestStep(c),
         NEW d \in Contexts, d # c
  PROVE  Untouched(d)
<1> USE DEF TypeOK, Untouched, RequestTo, scheduleVars, taskVars, handledVars, OnResult
<1>1. CASE RefuseRequest(c)
  BY <1>1 DEF RefuseRequest
<1>2. CASE AddContextId(c)
  BY <1>2 DEF AddContextId
<1>3. CASE CheckCaller(c)
  BY <1>3 DEF CheckCaller
<1>4. CASE GenerateSolution(c)
  BY <1>4 DEF GenerateSolution
<1>5. CASE SaveCoAuthCallback(c)
  BY <1>5 DEF SaveCoAuthCallback
<1>6. CASE FailRequest(c)
  BY <1>6 DEF FailRequest
<1>7. CASE BeginSchedule(c)
  <2>1. \A k \in 1..MaxSchedules : status'[<<d, k>>] = status[<<d, k>>]
    BY <1>7 DEF BeginSchedule, CoAuth!Open, CoAuth!TypeOK, ScheduleIds
  <2> QED
    BY <1>7, <2>1 DEF BeginSchedule
<1>8. CASE ReturnContextId(c)
  BY <1>8 DEF ReturnContextId
<1> QED
  BY <1>1, <1>2, <1>3, <1>4, <1>5, <1>6, <1>7, <1>8 DEF RequestStep

LEMMA ScheduleIsLocal ==
  ASSUME TypeOK, NEW c \in Contexts, NEW k \in 1..MaxSchedules, ScheduleStep(c, k) \/ OnAcquireInfo(c, k),
         NEW d \in Contexts, d # c
  PROVE  Untouched(d)
<1> USE DEF TypeOK, Untouched, requestVars, scheduleVars, taskVars, handledVars, OnResult
<1>1. ASSUME NEW code, OnFinish(c, k, code)
      PROVE  Untouched(d)
  <2>1. CASE c \in retains_
    BY <1>1, <2>1 DEF OnFinish, CoAuth!Tell
  <2>2. CASE c \notin retains_
    BY <1>1, <2>2 DEF OnFinish, CoAuth!Tell
  <2> QED
    BY <2>1, <2>2
<1>2. CASE ScheduleReleased(c, k)
  <2>1. \A l \in 1..MaxSchedules : status'[<<d, l>>] = status[<<d, l>>]
    BY <1>2 DEF ScheduleReleased, CoAuth!Release, CoAuth!TypeOK, ScheduleIds
  <2> QED
    BY <1>2, <2>1 DEF ScheduleReleased
<1>3. CASE OnAcquireInfo(c, k)
  <2>1. CASE c \in retains_
    BY <1>3, <2>1 DEF OnAcquireInfo
  <2>2. CASE c \notin retains_
    BY <1>3, <2>2 DEF OnAcquireInfo
  <2> QED
    BY <2>1, <2>2
<1> QED
  BY <1>1, <1>2, <1>3 DEF ScheduleStep, VerdictArrives, FailureArrives, TimeoutArrives

LEMMA TaskIsLocal ==
  ASSUME TypeOK, NEW c \in Contexts, TaskStep(c), NEW d \in Contexts, d # c
  PROVE  Untouched(d)
<1> USE DEF TypeOK, Untouched, requestVars, scheduleVars, taskVars, handledVars, OnResult, TaskTo
<1>1. CASE AcquireInfoHandle(c)
  BY <1>1 DEF AcquireInfoHandle
<1>2. CASE FinishHandle(c)
  <2>1. UNCHANGED <<kind, request, status>> /\ queue'[d] = queue[d]
    BY <1>2 DEF FinishHandle
  <2>2. CASE UNCHANGED <<task, contexts_, retains_, results, done>>
    BY <2>1, <2>2
  <2>3. CASE task' = [task EXCEPT ![c] = "report"] /\ UNCHANGED <<contexts_, retains_, results, done>>
    BY <2>1, <2>3
  <2>4. CASE /\ contexts_' = contexts_ \ {c} /\ retains_' = retains_ \ {c}
             /\ OnResult(c, "ERROR", FALSE) /\ done' = [done EXCEPT ![c] = TRUE]
             /\ UNCHANGED task
    BY <2>1, <2>4
  <2> QED
    BY <1>2, <2>2, <2>3, <2>4 DEF FinishHandle
<1>3. CASE ReportResult(c)
  BY <1>3 DEF ReportResult
<1>4. CASE CancelSchedules(c)
  BY <1>4 DEF CancelSchedules
<1>5. CASE DeleteContextId(c)
  BY <1>5 DEF DeleteContextId
<1>6. CASE DeleteCoAuthCallback(c)
  BY <1>6 DEF DeleteCoAuthCallback
<1>7. CASE SetDoneFlag(c)
  BY <1>7 DEF SetDoneFlag
<1> QED
  BY <1>1, <1>2, <1>3, <1>4, <1>5, <1>6, <1>7 DEF TaskStep

LEMMA CancelIsLocal ==
  ASSUME TypeOK, NEW c \in Contexts, CancelAuth(c) \/ CancelStep(c), NEW d \in Contexts, d # c
  PROVE  Untouched(d)
BY DEF TypeOK, Untouched, CancelAuth, CancelStep, CancelContext, CancelItsSchedules,
   CancelDeletesContext, CancelTo, requestVars, scheduleVars, taskVars, handledVars

(***************************************************************************)
(* Each step keeps what holds of its own context                           *)
(***************************************************************************)

LEMMA RequestKeeps ==
  ASSUME TypeOK, NEW c \in Contexts, ContextOK(c),
         RefuseRequest(c) \/ AddContextId(c) \/ RequestStep(c)
  PROVE  ContextOK(c)'
<1> USE DEF TypeOK, RequestTo, scheduleVars, taskVars, handledVars, ContextOK, Working, NothingStarted,
        ThreadIsBack, TaskIsInOrder, FlagIsLast, OnlyAuthLeaks, ReportedLast
<1>0. ASSUME NEW code \in AnswerCodes \cup {"BUSY"}, NEW token \in BOOLEAN,
             OnResult(c, code, token)
      PROVE  results'[c] # <<>>
  BY <1>0, AnswerIsTyped
<1>1. CASE RefuseRequest(c)
  BY <1>0, <1>1 DEF RefuseRequest
<1>2. CASE AddContextId(c)
  BY <1>2 DEF AddContextId
<1>3. CASE CheckCaller(c)
  BY <1>3 DEF CheckCaller
<1>4. CASE GenerateSolution(c)
  BY <1>4 DEF GenerateSolution
<1>5. CASE SaveCoAuthCallback(c)
  BY <1>5 DEF SaveCoAuthCallback
<1>6. CASE FailRequest(c)
  BY <1>0, <1>6 DEF FailRequest
<1>7. CASE BeginSchedule(c)
  BY <1>7 DEF BeginSchedule
<1>8. CASE ReturnContextId(c)
  BY <1>8 DEF ReturnContextId
<1> QED
  BY <1>1, <1>2, <1>3, <1>4, <1>5, <1>6, <1>7, <1>8 DEF RequestStep

\* co_auth answers a context that works on a schedule only; when the thread is
\* gone, so is the context.
LEMMA ScheduleKeeps ==
  ASSUME TypeOK, NEW c \in Contexts, ContextOK(c), NEW k \in 1..MaxSchedules,
         ScheduleStep(c, k) \/ OnAcquireInfo(c, k)
  PROVE  ContextOK(c)'
<1> USE DEF TypeOK, requestVars, scheduleVars, taskVars, handledVars, ContextOK, Working, NothingStarted,
        ThreadIsBack, TaskIsInOrder, FlagIsLast, OnlyAuthLeaks, ReportedLast
<1>1. ASSUME NEW code \in AnswerCodes, OnFinish(c, k, code)
      PROVE  ContextOK(c)'
  <2>1. Working(c)
    BY <1>1 DEF OnFinish, CoAuth!Tell
  <2>2. CASE c \in retains_
    BY <1>1, <2>1, <2>2 DEF OnFinish, CoAuth!Tell
  <2>3. CASE c \notin retains_
    <3>1. results'[c] # <<>>
      BY <1>1, <2>3, AnswerIsTyped DEF OnFinish
    <3> QED
      BY <1>1, <2>1, <2>3, <3>1 DEF OnFinish, CoAuth!Tell
  <2> QED
    BY <2>2, <2>3
<1>2. CASE ScheduleReleased(c, k)
  BY <1>2 DEF ScheduleReleased, CoAuth!Release
<1>3. CASE OnAcquireInfo(c, k)
  <2>1. Working(c)
    BY <1>3 DEF OnAcquireInfo
  <2>2. CASE c \in retains_
    BY <1>3, <2>1, <2>2 DEF OnAcquireInfo
  <2>3. CASE c \notin retains_
    BY <1>3, <2>1, <2>3 DEF OnAcquireInfo
  <2> QED
    BY <2>2, <2>3
<1> QED
  BY <1>1, <1>2, <1>3 DEF ScheduleStep, VerdictArrives, FailureArrives, TimeoutArrives, AnswerCodes

\* A thread takes a task up only while it is retained, or only to find the flag
\* set.
LEMMA TaskKeeps ==
  ASSUME TypeOK, NEW c \in Contexts, ContextOK(c), TaskStep(c)
  PROVE  ContextOK(c)'
<1> USE DEF TypeOK, requestVars, scheduleVars, taskVars, handledVars, TaskTo, ContextOK, Working, NothingStarted,
        ThreadIsBack, TaskIsInOrder, FlagIsLast, OnlyAuthLeaks, ReportedLast
<1>1. CASE AcquireInfoHandle(c)
  <2>1. Working(c)
    BY <1>1 DEF AcquireInfoHandle
  <2> QED
    BY <1>1, <2>1 DEF AcquireInfoHandle
<1>2. CASE FinishHandle(c)
  <2>1. Working(c) /\ task[c] = "idle" /\ UNCHANGED <<kind, request, status>>
    BY <1>2 DEF FinishHandle
  <2>2. CASE UNCHANGED <<task, contexts_, retains_, results, done>>
    BY <2>1, <2>2
  <2>3. CASE ~done[c] /\ task' = [task EXCEPT ![c] = "report"] /\ UNCHANGED <<contexts_, retains_, results, done>>
    <3>1. c \in retains_
      BY <2>1, <2>3
    <3> QED
      BY <2>1, <2>3, <3>1
  <2>4. CASE /\ contexts_' = contexts_ \ {c} /\ retains_' = retains_ \ {c}
             /\ OnResult(c, "ERROR", FALSE) /\ done' = [done EXCEPT ![c] = TRUE]
             /\ UNCHANGED task
    <3>1. results'[c] # <<>>
      BY <2>4, AnswerIsTyped DEF AnswerCodes
    <3> QED
      BY <2>1, <2>4, <3>1
  <2> QED
    BY <1>2, <2>2, <2>3, <2>4 DEF FinishHandle
<1>3. CASE ReportResult(c)
  <2>1. verdict[c].code \in AnswerCodes \cup {"BUSY"} /\ verdict[c].token \in BOOLEAN
    BY DEF Results
  <2>2. PICK code \in AnswerCodes \cup {"BUSY"}, token \in BOOLEAN :
           OnResult(c, code, token)
    BY <1>3, <2>1 DEF ReportResult
  <2>3. results'[c] # <<>>
    BY <2>2, AnswerIsTyped
  <2> QED
    BY <1>3, <2>3 DEF ReportResult
<1>4. CASE CancelSchedules(c)
  BY <1>4 DEF CancelSchedules
<1>5. CASE DeleteContextId(c)
  BY <1>5 DEF DeleteContextId
<1>6. CASE DeleteCoAuthCallback(c)
  BY <1>6 DEF DeleteCoAuthCallback
<1>7. CASE SetDoneFlag(c)
  BY <1>7 DEF SetDoneFlag
<1> QED
  BY <1>1, <1>2, <1>3, <1>4, <1>5, <1>6, <1>7 DEF TaskStep

\* CancelAuth takes the id away at most.
LEMMA CancelKeeps ==
  ASSUME TypeOK, NEW c \in Contexts, ContextOK(c), CancelAuth(c) \/ CancelStep(c)
  PROVE  ContextOK(c)'
BY DEF TypeOK, CancelAuth, CancelStep, CancelContext, CancelItsSchedules, CancelDeletesContext,
   CancelTo, requestVars, scheduleVars, taskVars, handledVars, ContextOK, Working, NothingStarted, ThreadIsBack,
   TaskIsInOrder, FlagIsLast, OnlyAuthLeaks, ReportedLast

LEMMA SafetyInvariant == Spec => []SafetyInv
<1>1. Init => SafetyInv
  BY DEF Init, CoAuth!Init, ScheduleIds, SafetyInv, ContextOK, Working, NothingStarted,
     ThreadIsBack, TaskIsInOrder, FlagIsLast, OnlyAuthLeaks, ReportedLast
<1>2. TypeOK /\ SafetyInv /\ [Next]_vars => SafetyInv'
  <2> SUFFICES ASSUME TypeOK, SafetyInv, [Next]_vars, NEW d \in Contexts
               PROVE  ContextOK(d)'
    BY DEF SafetyInv
  <2>1. ContextOK(d)
    BY DEF SafetyInv
  <2>2. CASE Next
    <3>1. PICK c \in Contexts :
             \/ RefuseRequest(c) \/ AddContextId(c) \/ RequestStep(c) \/ TaskStep(c)
             \/ CancelAuth(c) \/ CancelStep(c)
             \/ \E k \in 1..MaxSchedules : ScheduleStep(c, k) \/ OnAcquireInfo(c, k)
      BY <2>2 DEF Next
    <3>2. CASE c = d
      BY <2>1, <3>1, <3>2, RequestKeeps, ScheduleKeeps, TaskKeeps, CancelKeeps
    <3>3. CASE c # d
      <4>1. Untouched(d)
        BY <3>1, <3>3, RequestIsLocal, ScheduleIsLocal, TaskIsLocal, CancelIsLocal
      <4> QED
        BY <2>1, <4>1, UntouchedKeeps
    <3> QED
      BY <3>2, <3>3
  <2>3. CASE UNCHANGED vars
    <3>1. Untouched(d)
      BY <2>3 DEF vars, Untouched
    <3> QED
      BY <2>1, <3>1, UntouchedKeeps
  <2> QED
    BY <2>2, <2>3
<1> QED
  BY <1>1, <1>2, TypeInvariant, PTL DEF Spec

\* When isResultDoneFlag_ is set, on whichever of the three threads that set
\* it, the context's thread and id are gone and the client was answered.
THEOREM FlagMeansReleased == Spec => []DoneMeansReleased
<1>1. SafetyInv => DoneMeansReleased
  BY DEF SafetyInv, ContextOK, FlagIsLast, DoneMeansReleased
<1> QED
  BY <1>1, SafetyInvariant, PTL

\* A client that has its result has no context id any more, unless its thread is
\* about to delete it or its request was an Auth that failed.
THEOREM AnsweredContextsGo == Spec => []NoContextOutlivesItsAnswer
<1>1. TypeOK /\ SafetyInv => NoContextOutlivesItsAnswer
  <2> SUFFICES ASSUME TypeOK, SafetyInv, NEW c \in contexts_, results[c] # <<>>,
                      task[c] \notin {"cancel", "delete"}
               PROVE  request[c] = "failed" /\ kind[c] = "Auth"
    BY DEF NoContextOutlivesItsAnswer
  <2>1. c \in Contexts /\ ContextOK(c) /\ request[c] \in RequestStates /\ task[c] \in TaskStates
    BY DEF TypeOK, SafetyInv
  <2>2. ~Working(c)
    <3> SUFFICES ASSUME Working(c)
                 PROVE  FALSE
      OBVIOUS
    <3>1. task[c] \notin {"release", "flag"}
      BY <2>1 DEF ContextOK, TaskIsInOrder
    <3>2. ~done[c]
      BY <2>1 DEF ContextOK, FlagIsLast
    <3> QED
      BY <2>1, <3>1, <3>2 DEF ContextOK, ReportedLast, TaskStates
  <2> QED
    BY <2>1, <2>2 DEF ContextOK, ReportedLast, OnlyAuthLeaks, Working, RequestStates
<1> QED
  BY <1>1, TypeInvariant, SafetyInvariant, PTL

\* An acquire info reaches a client only before the client has its result, also
\* when it was queued behind the answer of the last schedule.
THEOREM TipsComeFirst == Spec => TipsPrecedeResult
<1>1. TypeOK /\ SafetyInv =>
        [\A c \in Contexts :
           task[c] = "idle" /\ queue[c] # <<>> /\ Head(queue[c]) = Tip /\ queue'[c] = Tail(queue[c])
             => done[c] \/ results[c] = <<>>]_vars
  BY DEF TypeOK, SafetyInv, ContextOK, NothingStarted, ReportedLast
<1> QED
  BY <1>1, TypeInvariant, SafetyInvariant, PTL DEF TipsPrecedeResult

(***************************************************************************)
(* Where the answers of a context's schedules are                          *)
(***************************************************************************)

\* The i-th task of the queue is the OnFinishHandle of an answer kd of the k-th
\* schedule.
AnswerAt(c, i, k, kd) ==
  queue[c][i] # Tip /\ queue[c][i].schedule = k /\ KindOf(queue[c][i].code) = kd

\* The schedules of a context, as far as they were begun, by the contract of
\* co_auth; the device knows of no answer that was not told.
SchedulesInOrder(c) ==
  /\ \A k \in 1..MaxSchedules :
       /\ status[<<c, k>>] = "idle" => told[<<c, k>>] = {}
       /\ status[<<c, k>>] = "released" => told[<<c, k>>] # {}
       /\ k <= begun[c] <=> status[<<c, k>>] # "idle"
       /\ undone[<<c, k>>] \subseteq told[<<c, k>>]
  /\ begun[c] <= scheduleNum[c]
  /\ request[c] = "returned" => begun[c] = scheduleNum[c]

\* An answer is in the queue once, after it was told and before the device has it.
QueueInOrder(c) ==
  /\ \A i \in 1..Len(queue[c]), k \in 1..MaxSchedules, kd \in CoAuth!Kinds :
       AnswerAt(c, i, k, kd) => kd \in told[<<c, k>>] /\ kd \notin undone[<<c, k>>]
  /\ \A i, j \in 1..Len(queue[c]), k \in 1..MaxSchedules, kd \in CoAuth!Kinds :
       AnswerAt(c, i, k, kd) /\ AnswerAt(c, j, k, kd) => i = j

\* No answer is lost while the thread waits: the device has taken it, or it is
\* in the queue.
AnswersAreKept(c) ==
  c \in retains_ /\ task[c] = "idle" =>
    \A k \in 1..MaxSchedules, kd \in CoAuth!Kinds :
      kd \in told[<<c, k>>] /\ kd \notin undone[<<c, k>>] =>
        \E i \in 1..Len(queue[c]) : AnswerAt(c, i, k, kd)

\* The answer on which the request was decided; the device did not take it with
\* E_RET_UNDONE.
Decided(c) ==
  \E k \in 1..MaxSchedules, kd \in CoAuth!Kinds : kd \in told[<<c, k>>] /\ kd \notin undone[<<c, k>>]

ThreadHasDecided(c) == Working(c) /\ (task[c] # "idle" \/ c \notin retains_) => Decided(c)

AnswersOK(c) ==
  SchedulesInOrder(c) /\ QueueInOrder(c) /\ AnswersAreKept(c) /\ ThreadHasDecided(c)

AnswersInv == \A c \in Contexts : AnswersOK(c)

\* What AnswersOK(d) speaks of, beyond Untouched.
SchedulesUntouched(d) ==
  /\ scheduleNum'[d] = scheduleNum[d] /\ begun'[d] = begun[d]
  /\ \A k \in 1..MaxSchedules :
       /\ status'[<<d, k>>] = status[<<d, k>>] /\ told'[<<d, k>>] = told[<<d, k>>]
       /\ undone'[<<d, k>>] = undone[<<d, k>>]

LEMMA UntouchedAnswers ==
  ASSUME NEW d \in Contexts, AnswersOK(d), Untouched(d), SchedulesUntouched(d)
  PROVE  AnswersOK(d)'
<1> USE DEF Untouched, SchedulesUntouched
<1>1. SchedulesInOrder(d)'
  BY DEF AnswersOK, SchedulesInOrder
<1>2. \A i, k, kd : AnswerAt(d, i, k, kd)' <=> AnswerAt(d, i, k, kd)
  BY DEF AnswerAt
<1>3. QueueInOrder(d)'
  <2> HIDE DEF AnswerAt
  <2> QED
    BY <1>2 DEF AnswersOK, QueueInOrder
<1>4. AnswersAreKept(d)'
  BY <1>2 DEF AnswersOK, AnswersAreKept
<1>5. ThreadHasDecided(d)'
  BY DEF AnswersOK, ThreadHasDecided, Decided, Working
<1> QED
  BY <1>1, <1>3, <1>4, <1>5 DEF AnswersOK

LEMMA OthersAreUntouched ==
  ASSUME TypeOK, NEW c \in Contexts, NEW d \in Contexts, d # c,
         \/ RefuseRequest(c) \/ AddContextId(c) \/ RequestStep(c) \/ TaskStep(c)
         \/ CancelAuth(c) \/ CancelStep(c)
         \/ \E k \in 1..MaxSchedules : ScheduleStep(c, k) \/ OnAcquireInfo(c, k)
  PROVE  SchedulesUntouched(d)
<1> USE DEF TypeOK, SchedulesUntouched, requestVars, scheduleVars, taskVars, handledVars
<1>1. CASE RefuseRequest(c) \/ AddContextId(c) \/ CancelAuth(c) \/ CancelStep(c)
  <2>1. UNCHANGED <<scheduleNum, begun, status, told, undone>>
    BY <1>1 DEF RefuseRequest, AddContextId, CancelAuth, CancelStep, CancelContext, CancelItsSchedules,
       CancelDeletesContext
  <2> QED
    BY <2>1
<1>2. CASE TaskStep(c)
  <2>1. UNCHANGED <<scheduleNum, begun, status, told>>
    BY <1>2 DEF TaskStep, AcquireInfoHandle, FinishHandle, ReportResult, CancelSchedules, DeleteContextId,
       DeleteCoAuthCallback, SetDoneFlag
  <2>2. UNCHANGED undone \/ (FinishHandle(c) /\ DeviceWaits(c))
    BY <1>2, Zenon DEF TaskStep, AcquireInfoHandle, FinishHandle, ReportResult, CancelSchedules, DeleteContextId,
       DeleteCoAuthCallback, SetDoneFlag
  <2>3. CASE FinishHandle(c) /\ DeviceWaits(c)
    <3>1. Head(queue[c]).schedule \in 1..MaxSchedules
      BY <2>3, HeadIsTyped DEF FinishHandle
    <3>2. \A k \in 1..MaxSchedules : undone'[<<d, k>>] = undone[<<d, k>>]
      BY <2>3, <3>1 DEF DeviceWaits, ScheduleIds
    <3> QED
      BY <2>1, <3>2
  <2> QED
    BY <2>1, <2>2, <2>3
<1>3. CASE RequestStep(c)
  <2>1. CASE BeginSchedule(c)
    BY <2>1 DEF BeginSchedule, CoAuth!Open, CoAuth!TypeOK, ScheduleIds
  <2>2. CASE GenerateSolution(c)
    BY <2>2 DEF GenerateSolution
  <2>3. CASE UNCHANGED <<scheduleNum, begun, status, told, undone>>
    BY <2>3
  <2> QED
    BY <1>3, <2>1, <2>2, <2>3 DEF RequestStep, CheckCaller, SaveCoAuthCallback, FailRequest, ReturnContextId
<1>4. ASSUME NEW k \in 1..MaxSchedules, ScheduleStep(c, k) \/ OnAcquireInfo(c, k)
      PROVE  SchedulesUntouched(d)
  <2>1. UNCHANGED <<scheduleNum, begun, undone>>
    BY <1>4 DEF ScheduleStep, VerdictArrives, FailureArrives, TimeoutArrives, OnFinish, ScheduleReleased,
       OnAcquireInfo
  <2>2. \/ UNCHANGED <<status, told>>
        \/ CoAuth!Release(<<c, k>>) \/ \E kd : CoAuth!Tell(<<c, k>>, kd)
    BY <1>4, Zenon DEF ScheduleStep, VerdictArrives, FailureArrives, TimeoutArrives, OnFinish,
       ScheduleReleased, OnAcquireInfo, scheduleVars
  <2>3. \A l \in 1..MaxSchedules : status'[<<d, l>>] = status[<<d, l>>] /\ told'[<<d, l>>] = told[<<d, l>>]
    BY <2>2 DEF CoAuth!Release, CoAuth!Tell, CoAuth!TypeOK, ScheduleIds
  <2> QED
    BY <2>1, <2>3
<1> QED
  BY <1>1, <1>2, <1>3, <1>4

\* Where told, undone and the queue stay, so do the answers.
LEMMA QueueStays ==
  ASSUME NEW c \in Contexts, QueueInOrder(c), UNCHANGED <<queue, told, undone>>
  PROVE  QueueInOrder(c)'
<1>1. \A i, k, kd : AnswerAt(c, i, k, kd)' <=> AnswerAt(c, i, k, kd)
  BY DEF AnswerAt
<1> QED
  BY <1>1 DEF QueueInOrder

\* Auth and AuthUser retain the thread before the first schedule is begun.
LEMMA RequestAnswers ==
  ASSUME TypeOK, NEW c \in Contexts, ContextOK(c), AnswersOK(c),
         RefuseRequest(c) \/ AddContextId(c) \/ RequestStep(c)
  PROVE  AnswersOK(c)'
<1> USE UserAuthAssumption DEF RequestTo, scheduleVars, taskVars, handledVars
<1>1. /\ UNCHANGED <<queue, task, undone, told>>
      /\ QueueInOrder(c)'
  <2>1. UNCHANGED <<queue, task, undone, told>>
    BY DEF RefuseRequest, AddContextId, RequestStep, CheckCaller, GenerateSolution, SaveCoAuthCallback,
       FailRequest, BeginSchedule, ReturnContextId, CoAuth!Open
  <2> QED
    BY <2>1, QueueStays DEF AnswersOK
<1>2. SchedulesInOrder(c) /\ AnswersAreKept(c) /\ ThreadHasDecided(c)
  BY DEF AnswersOK
<1>3. /\ request \in [Contexts -> RequestStates]
      /\ begun[c] \in 0..MaxSchedules /\ begun \in [Contexts -> 0..MaxSchedules]
      /\ scheduleNum[c] \in 0..MaxSchedules /\ scheduleNum \in [Contexts -> 0..MaxSchedules]
      /\ \A k \in 1..MaxSchedules : <<c, k>> \in ScheduleIds
  BY DEF TypeOK, ScheduleIds
<1>4. SchedulesInOrder(c)'
  <2>1. CASE BeginSchedule(c)
    <3>1. begun'[c] = begun[c] + 1 /\ begun[c] < scheduleNum[c] /\ request'[c] = "begin" /\ UNCHANGED scheduleNum
      BY <1>3, <2>1 DEF BeginSchedule
    <3>2. \A k \in 1..MaxSchedules :
            status'[<<c, k>>] = IF k = begun[c] + 1 THEN "open" ELSE status[<<c, k>>]
      BY <1>3, <2>1 DEF BeginSchedule, CoAuth!Open, TypeOK, CoAuth!TypeOK
    <3>3. \A k \in 1..MaxSchedules :
            /\ (status[<<c, k>>] = "idle" => told[<<c, k>>] = {})'
            /\ (status[<<c, k>>] = "released" => told[<<c, k>>] # {})'
            /\ (undone[<<c, k>>] \subseteq told[<<c, k>>])'
      BY <1>1, <1>2, <3>2 DEF SchedulesInOrder
    <3>4. \A k \in 1..MaxSchedules : (k <= begun[c] <=> status[<<c, k>>] # "idle")'
      BY <1>2, <1>3, <3>1, <3>2 DEF SchedulesInOrder
    <3>5. begun'[c] <= scheduleNum'[c] /\ request'[c] # "returned"
      BY <1>3, <3>1
    <3> QED
      BY <3>3, <3>4, <3>5 DEF SchedulesInOrder
  <2>2. CASE GenerateSolution(c)
    <3>1. \A k \in 1..MaxSchedules : status[<<c, k>>] = "idle"
      BY <2>2 DEF GenerateSolution, ContextOK, NothingStarted, Working
    <3>2. begun[c] = 0
      <4>1. begun[c] # 0 => 1 \in 1..MaxSchedules /\ 1 <= begun[c]
        BY <1>3
      <4> QED
        BY <1>2, <3>1, <4>1 DEF SchedulesInOrder
    <3>3. UNCHANGED <<begun, status>> /\ request'[c] # "returned" /\ 0 <= scheduleNum'[c]
      BY <1>3, <2>2 DEF GenerateSolution
    <3> QED
      BY <1>1, <1>2, <3>2, <3>3 DEF SchedulesInOrder
  <2>3. CASE RefuseRequest(c) \/ AddContextId(c) \/ CheckCaller(c) \/ SaveCoAuthCallback(c) \/ FailRequest(c)
             \/ ReturnContextId(c)
    <3>1. UNCHANGED <<status, begun, scheduleNum>> /\ (request'[c] = "returned" => begun[c] = scheduleNum[c])
      BY <1>3, <2>3 DEF RefuseRequest, AddContextId, CheckCaller, SaveCoAuthCallback, FailRequest,
         ReturnContextId
    <3> QED
      BY <1>1, <1>2, <3>1 DEF SchedulesInOrder
  <2> QED
    BY <2>1, <2>2, <2>3 DEF RequestStep
<1>5. AnswersAreKept(c)'
  <2>1. CASE SaveCoAuthCallback(c)
    <3>1. \A k \in 1..MaxSchedules : told[<<c, k>>] = {}
      <4>1. \A k \in 1..MaxSchedules : status[<<c, k>>] = "idle"
        BY <2>1 DEF SaveCoAuthCallback, ContextOK, NothingStarted, Working
      <4> QED
        BY <1>2, <4>1 DEF SchedulesInOrder
    <3> QED
      BY <1>1, <3>1 DEF AnswersAreKept
  <2>2. CASE UNCHANGED retains_
    <3>1. \A i, k, kd : AnswerAt(c, i, k, kd)' <=> AnswerAt(c, i, k, kd)
      BY <1>1 DEF AnswerAt
    <3> QED
      BY <1>1, <1>2, <2>2, <3>1 DEF AnswersAreKept
  <2> QED
    BY <2>1, <2>2 DEF RefuseRequest, AddContextId, RequestStep, CheckCaller, GenerateSolution, FailRequest,
       BeginSchedule, ReturnContextId
<1>6. ThreadHasDecided(c)'
  <2>1. CASE SaveCoAuthCallback(c)
    <3>1. c \in retains_' /\ task[c] = "idle"
      BY <2>1 DEF SaveCoAuthCallback, ContextOK, NothingStarted, Working
    <3> QED
      BY <1>1, <3>1 DEF ThreadHasDecided
  <2>2. CASE BeginSchedule(c) \/ ReturnContextId(c)
    <3>1. Working(c) /\ UNCHANGED retains_
      BY <2>2 DEF BeginSchedule, ReturnContextId, Working
    <3> QED
      BY <1>1, <1>2, <3>1 DEF ThreadHasDecided, Decided
  <2>3. CASE RefuseRequest(c) \/ AddContextId(c) \/ CheckCaller(c) \/ GenerateSolution(c) \/ FailRequest(c)
    <3>1. ~Working(c)'
      BY <1>3, <2>3 DEF RefuseRequest, AddContextId, CheckCaller, GenerateSolution, FailRequest, Working
    <3> QED
      BY <3>1 DEF ThreadHasDecided
  <2> QED
    BY <2>1, <2>2, <2>3 DEF RequestStep
<1> QED
  BY <1>1, <1>4, <1>5, <1>6 DEF AnswersOK

\* An answer is posted to the thread as long as the context has one.
LEMMA FinishAnswers ==
  ASSUME TypeOK, NEW c \in Contexts, AnswersOK(c), NEW k \in 1..MaxSchedules, NEW code \in AnswerCodes,
         OnFinish(c, k, code)
  PROVE  AnswersOK(c)'
<1> DEFINE kd == KindOf(code)
           t == [code |-> code, schedule |-> k]
<1>1. /\ SchedulesInOrder(c) /\ QueueInOrder(c) /\ AnswersAreKept(c) /\ ThreadHasDecided(c)
      /\ kd \in CoAuth!Kinds
  BY KindIsTyped DEF AnswersOK
<1>2. /\ status[<<c, k>>] # "idle" /\ kd \notin told[<<c, k>>]
      /\ UNCHANGED <<request, scheduleNum, begun, status, retains_, task, undone>>
  BY DEF OnFinish, CoAuth!Tell, requestVars, taskVars, handledVars
<1>3. \A l \in 1..MaxSchedules :
        told'[<<c, l>>] = IF l = k THEN told[<<c, k>>] \cup {kd} ELSE told[<<c, l>>]
  BY DEF OnFinish, CoAuth!Tell, TypeOK, CoAuth!TypeOK, ScheduleIds
<1>4. t # Tip /\ t.schedule = k /\ KindOf(t.code) = kd
  BY DEF Tip, AnswerCodes, FinishCodes
<1>5. \/ /\ c \in retains_ /\ queue' = [queue EXCEPT ![c] = Append(queue[c], t)]
      \/ c \notin retains_ /\ queue' = queue
  BY DEF OnFinish
<1>6. queue[c] \in Seq(Tasks) /\ t \in Tasks /\ queue \in [Contexts -> Seq(Tasks)]
  BY DEF TypeOK, Tasks
<1> HIDE DEF kd, t
<1>7. SchedulesInOrder(c)'
  BY <1>1, <1>2, <1>3 DEF SchedulesInOrder
<1>8. /\ \A i \in 1..Len(queue[c]) : i \in 1..Len(queue'[c]) /\ queue'[c][i] = queue[c][i]
      /\ \A i \in 1..Len(queue'[c]) : i \in 1..Len(queue[c]) \/ (queue'[c][i] = t /\ i = Len(queue[c]) + 1)
      /\ c \in retains_ => Len(queue[c]) + 1 \in 1..Len(queue'[c]) /\ queue'[c][Len(queue[c]) + 1] = t
  <2>1. CASE c \notin retains_
    BY <1>5, <2>1
  <2>2. CASE c \in retains_
    <3>1. queue'[c] = Append(queue[c], t)
      BY <1>5, <1>6, <2>2
    <3>2. /\ Len(Append(queue[c], t)) = Len(queue[c]) + 1 /\ Append(queue[c], t)[Len(queue[c]) + 1] = t
          /\ Len(queue[c]) \in Nat
          /\ \A i \in 1..Len(queue[c]) : Append(queue[c], t)[i] = queue[c][i]
      BY <1>6
    <3> QED
      BY <3>1, <3>2
  <2> QED
    BY <2>1, <2>2
<1>9. \A i, l, x : AnswerAt(c, i, l, x)' <=>
        queue'[c][i] # Tip /\ queue'[c][i].schedule = l /\ KindOf(queue'[c][i].code) = x
  BY DEF AnswerAt
<1>10. \A i \in 1..Len(queue[c]) : \A l, x : AnswerAt(c, i, l, x)' <=> AnswerAt(c, i, l, x)
  BY <1>8, <1>9 DEF AnswerAt
<1>11. \A i \in 1..Len(queue'[c]) : \A l, x : AnswerAt(c, i, l, x)' =>
          \/ i \in 1..Len(queue[c]) /\ AnswerAt(c, i, l, x)
          \/ i = Len(queue[c]) + 1 /\ l = k /\ x = kd
  BY <1>4, <1>8, <1>9, <1>10
<1>12. QueueInOrder(c)'
  <2> HIDE DEF AnswerAt
  <2>1. kd \notin undone[<<c, k>>]
    BY <1>1, <1>2 DEF SchedulesInOrder
  <2>2. ASSUME NEW i \in 1..Len(queue'[c]), NEW l \in 1..MaxSchedules, NEW x \in CoAuth!Kinds,
               AnswerAt(c, i, l, x)'
        PROVE  x \in told'[<<c, l>>] /\ x \notin undone[<<c, l>>]
    BY <1>1, <1>3, <1>11, <2>1, <2>2 DEF QueueInOrder
  <2>3. ASSUME NEW i \in 1..Len(queue'[c]), NEW j \in 1..Len(queue'[c]),
               NEW l \in 1..MaxSchedules, NEW x \in CoAuth!Kinds,
               AnswerAt(c, i, l, x)', AnswerAt(c, j, l, x)'
        PROVE  i = j
    <3>1. \A m \in 1..Len(queue[c]) : ~AnswerAt(c, m, k, kd)
      BY <1>1, <1>2 DEF QueueInOrder
    <3> QED
      BY <1>1, <1>11, <2>3, <3>1 DEF QueueInOrder
  <2> QED
    BY <1>2, <2>2, <2>3 DEF QueueInOrder
<1>13. AnswersAreKept(c)'
  <2> SUFFICES ASSUME c \in retains_, task[c] = "idle",
                      NEW l \in 1..MaxSchedules, NEW x \in CoAuth!Kinds,
                      x \in told'[<<c, l>>], x \notin undone[<<c, l>>]
               PROVE  \E i \in 1..Len(queue'[c]) : AnswerAt(c, i, l, x)'
    BY <1>2 DEF AnswersAreKept
  <2>1. CASE l = k /\ x = kd
    <3>1. PICK i \in 1..Len(queue'[c]) : queue'[c][i] = t
      BY <1>8
    <3>2. AnswerAt(c, i, l, x)'
      BY <1>4, <1>9, <2>1, <3>1
    <3> QED
      BY <3>2
  <2>2. CASE ~(l = k /\ x = kd)
    <3>1. PICK i \in 1..Len(queue[c]) : AnswerAt(c, i, l, x)
      BY <1>1, <1>3, <2>2 DEF AnswersAreKept
    <3> QED
      BY <1>8, <1>10, <3>1
  <2> QED
    BY <2>1, <2>2
<1>14. ThreadHasDecided(c)'
  BY <1>1, <1>2, <1>3 DEF ThreadHasDecided, Decided, Working
<1> QED
  BY <1>7, <1>12, <1>13, <1>14 DEF AnswersOK

LEMMA ScheduleAnswers ==
  ASSUME TypeOK, NEW c \in Contexts, AnswersOK(c), NEW k \in 1..MaxSchedules,
         ScheduleStep(c, k) \/ OnAcquireInfo(c, k)
  PROVE  AnswersOK(c)'
<1>1. CASE ScheduleReleased(c, k)
  <2>1. /\ UNCHANGED <<request, scheduleNum, begun, told, undone, retains_, task, queue>>
        /\ told[<<c, k>>] # {} /\ status[<<c, k>>] # "idle"
    BY <1>1 DEF ScheduleReleased, CoAuth!Release, requestVars, taskVars, handledVars
  <2>2. \A l \in 1..MaxSchedules : status'[<<c, l>>] = IF l = k THEN "released" ELSE status[<<c, l>>]
    BY <1>1 DEF ScheduleReleased, CoAuth!Release, TypeOK, CoAuth!TypeOK, ScheduleIds
  <2>3. SchedulesInOrder(c)'
    BY <2>1, <2>2 DEF AnswersOK, SchedulesInOrder
  <2>4. QueueInOrder(c)'
    BY <2>1, QueueStays DEF AnswersOK
  <2>5. AnswersAreKept(c)' /\ ThreadHasDecided(c)'
    BY <2>1 DEF AnswersOK, AnswersAreKept, AnswerAt, ThreadHasDecided, Decided, Working
  <2> QED
    BY <2>3, <2>4, <2>5 DEF AnswersOK
<1>2. CASE OnAcquireInfo(c, k)
  <2>1. UNCHANGED <<request, scheduleNum, begun, status, told, undone, retains_, task>>
    BY <1>2 DEF OnAcquireInfo, requestVars, scheduleVars, taskVars, handledVars
  <2>2. SchedulesInOrder(c)' /\ ThreadHasDecided(c)'
    BY <2>1 DEF AnswersOK, SchedulesInOrder, ThreadHasDecided, Decided, Working
  <2>3. CASE c \notin retains_
    <3>1. UNCHANGED queue
      BY <1>2, <2>3 DEF OnAcquireInfo
    <3>2. QueueInOrder(c)'
      BY <2>1, <3>1, QueueStays DEF AnswersOK
    <3>3. AnswersAreKept(c)'
      BY <2>1, <2>3 DEF AnswersAreKept
    <3> QED
      BY <2>2, <3>2, <3>3 DEF AnswersOK
  <2>4. CASE c \in retains_
    <3>1. queue'[c] = Append(queue[c], Tip) /\ queue[c] \in Seq(Tasks) /\ Tip \in Tasks
      BY <1>2, <2>4 DEF OnAcquireInfo, TypeOK, Tasks
    <3>2. /\ Len(queue'[c]) = Len(queue[c]) + 1 /\ queue'[c][Len(queue[c]) + 1] = Tip
          /\ Len(queue[c]) \in Nat
          /\ \A i \in 1..Len(queue[c]) : queue'[c][i] = queue[c][i]
      <4> HIDE DEF Tip
      <4> QED
        BY <3>1
    <3>3. \A i \in 1..Len(queue[c]) : \A l, x :
            i \in 1..Len(queue'[c]) /\ (AnswerAt(c, i, l, x)' <=> AnswerAt(c, i, l, x))
      BY <3>2 DEF AnswerAt
    <3>4. \A i \in 1..Len(queue'[c]) : \A l, x : AnswerAt(c, i, l, x)' => i \in 1..Len(queue[c])
      <4>1. \A i \in 1..Len(queue'[c]) : i \in 1..Len(queue[c]) \/ i = Len(queue[c]) + 1
        BY <3>2
      <4> QED
        BY <3>2, <4>1 DEF AnswerAt
    <3> HIDE DEF AnswerAt
    <3>5. QueueInOrder(c)'
      BY <2>1, <3>3, <3>4 DEF AnswersOK, QueueInOrder
    <3>6. AnswersAreKept(c)'
      BY <2>1, <3>3 DEF AnswersOK, AnswersAreKept
    <3> QED
      BY <2>2, <3>5, <3>6 DEF AnswersOK
  <2> QED
    BY <2>3, <2>4
<1> QED
  BY <1>1, <1>2, FinishAnswers DEF ScheduleStep, VerdictArrives, FailureArrives, TimeoutArrives, AnswerCodes

\* A thread that takes the head off its queue leaves the rest in order.
LEMMA TailAnswers ==
  ASSUME TypeOK, NEW c \in Contexts, queue[c] # <<>>, queue' = [queue EXCEPT ![c] = Tail(@)]
  PROVE  /\ \A i \in 1..Len(queue'[c]) : \A k, kd :
              i + 1 \in 1..Len(queue[c]) /\ i + 1 # 1 /\ (AnswerAt(c, i, k, kd)' <=> AnswerAt(c, i + 1, k, kd))
         /\ \A i \in 1..Len(queue[c]) : \A k, kd :
              i # 1 /\ AnswerAt(c, i, k, kd) => i - 1 \in 1..Len(queue'[c]) /\ AnswerAt(c, i - 1, k, kd)'
         /\ 1 \in 1..Len(queue[c]) /\ queue[c][1] = Head(queue[c])
<1>1. queue[c] \in Seq(Tasks) /\ queue'[c] = Tail(queue[c])
  BY DEF TypeOK
<1>2. /\ Len(queue'[c]) = Len(queue[c]) - 1 /\ Len(queue[c]) \in Nat /\ Len(queue[c]) >= 1
      /\ \A i \in 1..Len(queue'[c]) : queue'[c][i] = queue[c][i + 1]
      /\ queue[c][1] = Head(queue[c])
  <2> DEFINE q == queue[c]
  <2>1. q \in Seq(Tasks) /\ q # <<>>
    BY <1>1
  <2> HIDE DEF q
  <2>2. /\ Len(Tail(q)) = Len(q) - 1 /\ Len(q) \in Nat /\ Len(q) >= 1
        /\ \A i \in 1..Len(Tail(q)) : Tail(q)[i] = q[i + 1]
        /\ q[1] = Head(q)
    BY <2>1
  <2> QED
    BY <1>1, <2>2 DEF q
<1>3. \A i \in 1..Len(queue'[c]) : \A k, kd :
        i + 1 \in 1..Len(queue[c]) /\ i + 1 # 1 /\ (AnswerAt(c, i, k, kd)' <=> AnswerAt(c, i + 1, k, kd))
  BY <1>2 DEF AnswerAt
<1>4. ASSUME NEW i \in 1..Len(queue[c]), NEW k, NEW kd, i # 1, AnswerAt(c, i, k, kd)
      PROVE  i - 1 \in 1..Len(queue'[c]) /\ AnswerAt(c, i - 1, k, kd)'
  <2>1. i - 1 \in 1..Len(queue'[c]) /\ (i - 1) + 1 = i
    BY <1>2, <1>4
  <2>2. AnswerAt(c, i - 1, k, kd)' <=> AnswerAt(c, (i - 1) + 1, k, kd)
    BY <1>3, <2>1
  <2> QED
    BY <1>4, <2>1, <2>2
<1> QED
  BY <1>2, <1>3, <1>4

\* The queue without its head, while undone does not grow by anything else.
LEMMA TailInOrder ==
  ASSUME TypeOK, NEW c \in Contexts, QueueInOrder(c), queue[c] # <<>>,
         queue' = [queue EXCEPT ![c] = Tail(@)], UNCHANGED told,
         \A k \in 1..MaxSchedules, kd \in CoAuth!Kinds :
           kd \in undone'[<<c, k>>] => kd \in undone[<<c, k>>] \/ AnswerAt(c, 1, k, kd)
  PROVE  QueueInOrder(c)'
<1> HIDE DEF AnswerAt
<1>1. /\ \A i \in 1..Len(queue'[c]) : \A k, kd :
           i + 1 \in 1..Len(queue[c]) /\ i + 1 # 1 /\ (AnswerAt(c, i, k, kd)' <=> AnswerAt(c, i + 1, k, kd))
      /\ 1 \in 1..Len(queue[c])
  BY TailAnswers
<1>2. ASSUME NEW i \in 1..Len(queue'[c]), NEW k \in 1..MaxSchedules, NEW kd \in CoAuth!Kinds,
             AnswerAt(c, i, k, kd)'
      PROVE  kd \in told[<<c, k>>] /\ kd \notin undone'[<<c, k>>]
  <2>1. AnswerAt(c, i + 1, k, kd) /\ i + 1 \in 1..Len(queue[c]) /\ i + 1 # 1
    BY <1>1, <1>2
  <2>2. ~AnswerAt(c, 1, k, kd)
    BY <1>1, <2>1 DEF QueueInOrder
  <2> QED
    BY <2>1, <2>2 DEF QueueInOrder
<1>3. ASSUME NEW i \in 1..Len(queue'[c]), NEW j \in 1..Len(queue'[c]),
             NEW k \in 1..MaxSchedules, NEW kd \in CoAuth!Kinds,
             AnswerAt(c, i, k, kd)', AnswerAt(c, j, k, kd)'
      PROVE  i = j
  <2>1. i + 1 = j + 1
    BY <1>1, <1>3 DEF QueueInOrder
  <2>2. i \in Int /\ j \in Int
    OBVIOUS
  <2> QED
    BY <2>1, <2>2
<1> QED
  BY <1>2, <1>3 DEF QueueInOrder

\* OnFinishHandle decides the request on the answer at the head of the queue, or
\* the device takes it and waits for more; a tip leaves the answers behind it.
LEMMA TaskAnswers ==
  ASSUME TypeOK, NEW c \in Contexts, ContextOK(c), AnswersOK(c), TaskStep(c)
  PROVE  AnswersOK(c)'
<1>0. SchedulesInOrder(c) /\ QueueInOrder(c) /\ AnswersAreKept(c) /\ ThreadHasDecided(c)
  BY DEF AnswersOK
<1>1. UNCHANGED <<request, scheduleNum, begun, status, told>>
  BY DEF TaskStep, AcquireInfoHandle, FinishHandle, ReportResult, CancelSchedules, DeleteContextId,
     DeleteCoAuthCallback, SetDoneFlag, requestVars, scheduleVars
<1>2. CASE AcquireInfoHandle(c)
  <2>1. /\ queue[c] # <<>> /\ Head(queue[c]) = Tip /\ queue' = [queue EXCEPT ![c] = Tail(@)]
        /\ UNCHANGED <<undone, retains_, task>>
    BY <1>2 DEF AcquireInfoHandle, taskVars, handledVars
  <2>2. \A k, kd : ~AnswerAt(c, 1, k, kd)
    BY <2>1, TailAnswers DEF AnswerAt
  <2>3. QueueInOrder(c)'
    BY <1>0, <1>1, <2>1, TailInOrder
  <2>4. AnswersAreKept(c)'
    <3> HIDE DEF AnswerAt
    <3>1. \A i \in 1..Len(queue[c]) : \A k, kd :
            i # 1 /\ AnswerAt(c, i, k, kd) => i - 1 \in 1..Len(queue'[c]) /\ AnswerAt(c, i - 1, k, kd)'
      BY <2>1, TailAnswers
    <3> SUFFICES ASSUME c \in retains_, task[c] = "idle",
                        NEW k \in 1..MaxSchedules, NEW kd \in CoAuth!Kinds,
                        kd \in told[<<c, k>>], kd \notin undone[<<c, k>>]
                 PROVE  \E i \in 1..Len(queue'[c]) : AnswerAt(c, i, k, kd)'
      BY <1>1, <2>1 DEF AnswersAreKept
    <3>2. PICK i \in 1..Len(queue[c]) : AnswerAt(c, i, k, kd)
      BY <1>0 DEF AnswersAreKept
    <3> QED
      BY <2>2, <3>1, <3>2
  <2>5. SchedulesInOrder(c)' /\ ThreadHasDecided(c)'
    BY <1>0, <1>1, <2>1 DEF SchedulesInOrder, ThreadHasDecided, Decided, Working
  <2> QED
    BY <2>3, <2>4, <2>5 DEF AnswersOK
<1>3. CASE FinishHandle(c)
  <2> DEFINE h == Head(queue[c])
  <2>1. /\ task[c] = "idle" /\ queue[c] # <<>> /\ h # Tip /\ queue' = [queue EXCEPT ![c] = Tail(@)]
    BY <1>3 DEF FinishHandle
  <2>2. h.code \in AnswerCodes /\ h.schedule \in 1..MaxSchedules /\ KindOf(h.code) \in CoAuth!Kinds
    BY <2>1, HeadIsTyped, KindIsTyped DEF TypeOK
  <2>3. 1 \in 1..Len(queue[c]) /\ \A k, kd : AnswerAt(c, 1, k, kd) <=> k = h.schedule /\ kd = KindOf(h.code)
    BY <2>1, TailAnswers DEF AnswerAt
  <2> HIDE DEF h
  <2>4. KindOf(h.code) \in told[<<c, h.schedule>>] /\ KindOf(h.code) \notin undone[<<c, h.schedule>>]
    BY <1>0, <2>2, <2>3 DEF QueueInOrder
  <2>5. CASE done[c] /\ UNCHANGED <<task, undone, retains_>>
    <3>1. c \notin retains_
      BY <2>5 DEF ContextOK, FlagIsLast
    <3>2. QueueInOrder(c)'
      BY <1>0, <1>1, <2>1, <2>5, TailInOrder
    <3> QED
      BY <1>0, <1>1, <2>5, <3>1, <3>2
         DEF AnswersOK, SchedulesInOrder, AnswersAreKept, ThreadHasDecided, Decided, Working
  <2>6. CASE task' = [task EXCEPT ![c] = "report"] /\ UNCHANGED <<undone, retains_>>
    <3>1. task'[c] = "report"
      BY <2>6 DEF TypeOK
    <3>2. QueueInOrder(c)'
      BY <1>0, <1>1, <2>1, <2>6, TailInOrder
    <3>3. Decided(c)'
      BY <1>1, <2>2, <2>4, <2>6 DEF Decided
    <3> QED
      BY <1>0, <1>1, <2>6, <3>1, <3>2, <3>3 DEF AnswersOK, SchedulesInOrder, AnswersAreKept, ThreadHasDecided
  <2>7. CASE ~done[c] /\ DeviceWaits(c) /\ UNCHANGED <<task, retains_>>
    <3>1. \A k \in 1..MaxSchedules :
            undone'[<<c, k>>] = IF k = h.schedule THEN undone[<<c, k>>] \cup {KindOf(h.code)} ELSE undone[<<c, k>>]
      BY <2>2, <2>7 DEF DeviceWaits, TypeOK, ScheduleIds, h
    <3>2. c \in retains_
      <4>1. Working(c)
        BY <2>1 DEF ContextOK, NothingStarted
      <4> QED
        BY <2>1, <2>7, <4>1 DEF ContextOK, ThreadIsBack
    <3>3. SchedulesInOrder(c)'
      <4>1. \A k \in 1..MaxSchedules : undone'[<<c, k>>] \subseteq told[<<c, k>>]
        <5> TAKE k \in 1..MaxSchedules
        <5>1. undone[<<c, k>>] \subseteq told[<<c, k>>]
          BY <1>0 DEF SchedulesInOrder
        <5>2. CASE k = h.schedule
          <6>1. KindOf(h.code) \in told[<<c, k>>]
            BY <2>4, <5>2
          <6>2. undone'[<<c, k>>] = undone[<<c, k>>] \cup {KindOf(h.code)}
            BY <3>1, <5>2
          <6> QED
            BY <5>1, <6>1, <6>2
        <5>3. CASE k # h.schedule
          BY <3>1, <5>1, <5>3
        <5> QED
          BY <5>2, <5>3
      <4> QED
        BY <1>0, <1>1, <4>1 DEF SchedulesInOrder
    <3>4. QueueInOrder(c)'
      BY <1>0, <1>1, <2>1, <2>3, <3>1, TailInOrder
    <3>5. AnswersAreKept(c)'
      <4> HIDE DEF AnswerAt
      <4>1. \A i \in 1..Len(queue[c]) : \A k, kd :
              i # 1 /\ AnswerAt(c, i, k, kd) => i - 1 \in 1..Len(queue'[c]) /\ AnswerAt(c, i - 1, k, kd)'
        BY <2>1, TailAnswers
      <4> SUFFICES ASSUME NEW k \in 1..MaxSchedules, NEW kd \in CoAuth!Kinds,
                          kd \in told[<<c, k>>], kd \notin undone'[<<c, k>>]
                   PROVE  \E i \in 1..Len(queue'[c]) : AnswerAt(c, i, k, kd)'
        BY <1>1 DEF AnswersAreKept
      <4>2. PICK i \in 1..Len(queue[c]) : AnswerAt(c, i, k, kd)
        BY <1>0, <2>1, <3>1, <3>2 DEF AnswersAreKept
      <4>3. i # 1
        <5>1. KindOf(h.code) \in undone'[<<c, h.schedule>>]
          BY <2>2, <3>1
        <5>2. ~(k = h.schedule /\ kd = KindOf(h.code))
          BY <5>1
        <5>3. ~AnswerAt(c, 1, k, kd)
          BY <2>3, <5>2
        <5> QED
          BY <4>2, <5>3
      <4> QED
        BY <4>1, <4>2, <4>3
    <3>6. ThreadHasDecided(c)'
      BY <2>1, <2>7, <3>2 DEF ThreadHasDecided
    <3> QED
      BY <3>3, <3>4, <3>5, <3>6 DEF AnswersOK
  <2>8. nowCount'[c] # CallbackCount
    <3>1. nowCount[c] \in Nat /\ nowCount'[c] = nowCount[c] + 1
      BY <1>3 DEF FinishHandle, TypeOK
    <3> QED
      BY <3>1 DEF CallbackCount
  <2> QED
    BY <1>3, <2>5, <2>6, <2>7, <2>8 DEF FinishHandle
<1>4. CASE ReportResult(c) \/ CancelSchedules(c) \/ DeleteContextId(c) \/ DeleteCoAuthCallback(c)
           \/ SetDoneFlag(c)
  <2>1. UNCHANGED <<queue, undone>> /\ task[c] # "idle" /\ (task'[c] # "idle" \/ c \notin retains_')
    BY <1>4 DEF ReportResult, CancelSchedules, DeleteContextId, DeleteCoAuthCallback, SetDoneFlag, TaskTo,
       TypeOK, handledVars, ContextOK, TaskIsInOrder
  <2>2. QueueInOrder(c)'
    BY <1>0, <1>1, <2>1, QueueStays
  <2>3. ThreadHasDecided(c)'
    BY <1>0, <1>1, <2>1 DEF ThreadHasDecided, Decided, Working
  <2> QED
    BY <1>0, <1>1, <2>1, <2>2, <2>3 DEF AnswersOK, SchedulesInOrder, AnswersAreKept
<1> QED
  BY <1>2, <1>3, <1>4 DEF TaskStep

\* CancelAuth leaves thread and schedules alone.
LEMMA CancelAnswers ==
  ASSUME NEW c \in Contexts, AnswersOK(c), CancelAuth(c) \/ CancelStep(c)
  PROVE  AnswersOK(c)'
<1>1. UNCHANGED <<requestVars, retains_, scheduleVars, queue, taskVars>>
  BY DEF CancelAuth, CancelStep, CancelContext, CancelItsSchedules, CancelDeletesContext
<1>2. QueueInOrder(c)'
  BY <1>1, QueueStays DEF AnswersOK, scheduleVars, taskVars, handledVars
<1>3. UNCHANGED <<request, scheduleNum, begun, retains_, status, told, queue, task, undone>>
  BY <1>1 DEF requestVars, scheduleVars, taskVars, handledVars
<1>4. AnswersAreKept(c)'
  BY <1>3 DEF AnswersOK, AnswersAreKept, AnswerAt
<1>5. SchedulesInOrder(c)' /\ ThreadHasDecided(c)'
  BY <1>3 DEF AnswersOK, SchedulesInOrder, ThreadHasDecided, Decided, Working
<1> QED
  BY <1>2, <1>4, <1>5 DEF AnswersOK

LEMMA AnswersInvariant == Spec => []AnswersInv
<1>1. Init => AnswersInv
  <2> SUFFICES ASSUME Init, NEW c \in Contexts
               PROVE  AnswersOK(c)
    BY DEF AnswersInv
  <2>1. \A k \in 1..MaxSchedules :
          status[<<c, k>>] = "idle" /\ told[<<c, k>>] = {} /\ undone[<<c, k>>] = {}
    BY DEF Init, CoAuth!Init, ScheduleIds
  <2>2. begun[c] = 0 /\ scheduleNum[c] = 0 /\ request[c] = "idle" /\ retains_ = {} /\ queue[c] = <<>>
    BY DEF Init
  <2>3. QueueInOrder(c)
    BY <2>2 DEF QueueInOrder
  <2>4. SchedulesInOrder(c)
    BY <2>1, <2>2 DEF SchedulesInOrder
  <2> QED
    BY <2>2, <2>3, <2>4 DEF AnswersOK, AnswersAreKept, ThreadHasDecided, Working
<1>2. TypeOK /\ SafetyInv /\ AnswersInv /\ [Next]_vars => AnswersInv'
  <2> SUFFICES ASSUME TypeOK, SafetyInv, AnswersInv, [Next]_vars, NEW d \in Contexts
               PROVE  AnswersOK(d)'
    BY DEF AnswersInv
  <2>1. ContextOK(d) /\ AnswersOK(d)
    BY DEF SafetyInv, AnswersInv
  <2>2. CASE Next
    <3>1. PICK c \in Contexts :
             \/ RefuseRequest(c) \/ AddContextId(c) \/ RequestStep(c) \/ TaskStep(c)
             \/ CancelAuth(c) \/ CancelStep(c)
             \/ \E k \in 1..MaxSchedules : ScheduleStep(c, k) \/ OnAcquireInfo(c, k)
      BY <2>2 DEF Next
    <3>2. CASE c = d
      BY <2>1, <3>1, <3>2, RequestAnswers, ScheduleAnswers, TaskAnswers, CancelAnswers
    <3>3. CASE c # d
      <4>1. Untouched(d)
        BY <3>1, <3>3, RequestIsLocal, ScheduleIsLocal, TaskIsLocal, CancelIsLocal
      <4>2. SchedulesUntouched(d)
        BY <3>1, <3>3, OthersAreUntouched
      <4> QED
        BY <2>1, <4>1, <4>2, UntouchedAnswers
    <3> QED
      BY <3>2, <3>3
  <2>3. CASE UNCHANGED vars
    <3>1. Untouched(d) /\ SchedulesUntouched(d)
      BY <2>3 DEF vars, Untouched, SchedulesUntouched
    <3> QED
      BY <2>1, <3>1, UntouchedAnswers
  <2> QED
    BY <2>2, <2>3
<1> QED
  BY <1>1, <1>2, TypeInvariant, SafetyInvariant, PTL DEF Spec

\* The safety half of ThreadReturned: a thread that is retained has something to
\* do, or its request or one of its schedules will give it something, or the
\* device leaves the request undecided.
ThreadIsHeld ==
  \A c \in retains_ :
    \/ request[c] = "begin" \/ task[c] # "idle" \/ queue[c] # <<>>
    \/ \E k \in 1..scheduleNum[c] : status[<<c, k>>] = "open" /\ told[<<c, k>>] = {}
    \/ Undecided(c)

\* For any number of contexts and schedules: verdicts, failures, timeouts, tips
\* and CancelAuth, in whatever order, leave no thread of GROUP_AUTH retained for
\* a context that nothing more will happen to, unless every schedule has answered
\* and the device took each answer with E_RET_UNDONE: no answer is lost on its
\* way through the queue.
THEOREM NoThreadIsForgotten == Spec => []ThreadIsHeld
<1>1. TypeOK /\ SafetyInv /\ AnswersInv => ThreadIsHeld
  <2> SUFFICES ASSUME TypeOK, SafetyInv, AnswersInv, NEW c \in retains_,
                      request[c] # "begin", task[c] = "idle", queue[c] = <<>>,
                      ~Undecided(c)
               PROVE  \E k \in 1..scheduleNum[c] : status[<<c, k>>] = "open" /\ told[<<c, k>>] = {}
    BY DEF ThreadIsHeld
  <2>1. c \in Contexts
    BY DEF TypeOK
  <2>2. ContextOK(c) /\ AnswersOK(c)
    BY <2>1 DEF SafetyInv, AnswersInv
  <2>3. request[c] = "returned"
    BY <2>1, <2>2 DEF ContextOK, NothingStarted, Working
  <2>4. \A k \in 1..scheduleNum[c] : k \in 1..MaxSchedules
    BY <2>1, UserAuthAssumption DEF TypeOK
  <2>5. \A k \in 1..MaxSchedules : told[<<c, k>>] = undone[<<c, k>>]
    <3> SUFFICES ASSUME NEW k \in 1..MaxSchedules
                 PROVE  told[<<c, k>>] = undone[<<c, k>>]
      OBVIOUS
    <3>1. told[<<c, k>>] \subseteq CoAuth!Kinds /\ undone[<<c, k>>] \subseteq told[<<c, k>>]
      BY <2>1, <2>2 DEF TypeOK, CoAuth!TypeOK, ScheduleIds, AnswersOK, SchedulesInOrder
    <3>2. 1..Len(queue[c]) = {}
      OBVIOUS
    <3>3. \A kd \in CoAuth!Kinds : kd \in told[<<c, k>>] => kd \in undone[<<c, k>>]
      BY <2>2, <3>2 DEF AnswersOK, AnswersAreKept
    <3> QED
      BY <3>1, <3>3
  <2>6. PICK k \in 1..scheduleNum[c] : told[<<c, k>>] = {}
    BY <2>3, <2>4, <2>5 DEF Undecided
  <2>7. k <= begun[c]
    BY <2>2, <2>3 DEF AnswersOK, SchedulesInOrder
  <2>8. status[<<c, k>>] \in {"idle", "open", "released"}
    BY <2>1, <2>4 DEF TypeOK, CoAuth!TypeOK, ScheduleIds
  <2>9. status[<<c, k>>] = "open"
    BY <2>2, <2>4, <2>6, <2>7, <2>8 DEF AnswersOK, SchedulesInOrder
  <2> QED
    BY <2>6, <2>9
<1> QED
  BY <1>1, TypeInvariant, SafetyInvariant, AnswersInvariant, PTL

(***************************************************************************)
(* The contract with the client                                            *)
(***************************************************************************)

\* The thread that runs OnFinishHandle reports nothing the contract forbids:
\* never BUSY, and a token with SUCCESS only.
VerdictIsLawful ==
  \A c \in Contexts : verdict[c].code # "BUSY" /\ (verdict[c].token => verdict[c].code = "SUCCESS")

LEMMA LawfulInvariant == Spec => []VerdictIsLawful
<1>1. Init => VerdictIsLawful
  BY DEF Init, VerdictIsLawful, Result
<1>2. TypeOK /\ VerdictIsLawful /\ [Next]_vars => VerdictIsLawful'
  <2> SUFFICES ASSUME TypeOK, VerdictIsLawful, [Next]_vars
               PROVE  VerdictIsLawful'
    OBVIOUS
  <2>1. ASSUME NEW c \in Contexts, NEW code \in AnswerCodes, NEW token \in BOOLEAN,
               token => code = "SUCCESS",
               verdict' = [verdict EXCEPT ![c] = Result(code, token)]
        PROVE  VerdictIsLawful'
    <3>1. verdict \in [Contexts -> Results]
      BY DEF TypeOK
    <3>2. verdict'[c].code = code /\ verdict'[c].token = token
      BY <2>1, <3>1 DEF Result
    <3>3. \A d \in Contexts : d # c => verdict'[d] = verdict[d]
      BY <2>1, <3>1
    <3>4. code # "BUSY"
      BY <2>1 DEF AnswerCodes, FinishCodes
    <3> QED
      BY <2>1, <3>2, <3>3, <3>4 DEF VerdictIsLawful
  <2>2. ASSUME NEW c \in Contexts, FinishHandle(c)
        PROVE  VerdictIsLawful'
    <3> DEFINE code == Head(queue[c]).code
    <3>1. code \in AnswerCodes
      BY <2>2, HeadIsTyped DEF FinishHandle, TypeOK
    <3> HIDE DEF code
    <3>2. CASE UNCHANGED verdict
      BY <3>2 DEF VerdictIsLawful
    <3>3. CASE verdict' = [verdict EXCEPT ![c] = Result(code, FALSE)]
      BY <2>1, <3>1, <3>3
    <3>4. ASSUME NEW ret \in DeviceAnswers(code) \ {"UNDONE"},
                 verdict' = [verdict EXCEPT ![c] = Result(code, ret = "SUCCESS")]
          PROVE  VerdictIsLawful'
      <4>1. ret = "SUCCESS" => code = "SUCCESS"
        BY DEF DeviceAnswers
      <4> QED
        BY <2>1, <3>1, <3>4, <4>1
    <3> QED
      BY <2>2, <3>2, <3>3, <3>4 DEF FinishHandle, code
  <2>3. CASE UNCHANGED verdict
    BY <2>3 DEF VerdictIsLawful
  <2>4. ASSUME NEW c \in Contexts, RefuseRequest(c) \/ AddContextId(c) \/ RequestStep(c)
        PROVE  UNCHANGED verdict
    BY <2>4 DEF RefuseRequest, AddContextId, RequestStep, CheckCaller, GenerateSolution,
       SaveCoAuthCallback, FailRequest, BeginSchedule, ReturnContextId, taskVars, handledVars
  <2>5. ASSUME NEW c \in Contexts, TaskStep(c)
        PROVE  FinishHandle(c) \/ UNCHANGED verdict
    BY <2>5 DEF TaskStep, AcquireInfoHandle, ReportResult, CancelSchedules, DeleteContextId,
       DeleteCoAuthCallback, SetDoneFlag, taskVars, handledVars
  <2>6. ASSUME NEW c \in Contexts, NEW k \in 1..MaxSchedules, ScheduleStep(c, k) \/ OnAcquireInfo(c, k)
        PROVE  UNCHANGED verdict
    BY <2>6 DEF ScheduleStep, VerdictArrives, FailureArrives, TimeoutArrives, OnFinish, ScheduleReleased,
       OnAcquireInfo, taskVars, handledVars
  <2>7. ASSUME NEW c \in Contexts, CancelAuth(c) \/ CancelStep(c)
        PROVE  UNCHANGED verdict
    BY <2>7 DEF CancelAuth, CancelStep, CancelContext, CancelItsSchedules, CancelDeletesContext, taskVars,
       handledVars
  <2>8. CASE UNCHANGED vars
    BY <2>3, <2>8 DEF vars
  <2> QED
    BY <2>2, <2>3, <2>4, <2>5, <2>6, <2>7, <2>8 DEF Next
<1> QED
  BY <1>1, <1>2, TypeInvariant, PTL DEF Spec

\* What the contract sees of a request.
Asked(c) == IF request[c] = "idle" THEN "no" ELSE IF Undecided(c) THEN "undecided" ELSE "yes"

\* A request that was decided is not undecided, nor one that still runs.
LEMMA DecidedRequests ==
  ASSUME TypeOK, NEW c \in Contexts, AnswersOK(c), Decided(c)
  PROVE  ~Undecided(c)
<1>1. PICK k \in 1..MaxSchedules : told[<<c, k>>] # {} /\ undone[<<c, k>>] # told[<<c, k>>]
  BY DEF Decided
<1>2. k <= begun[c] /\ begun[c] <= scheduleNum[c]
  BY <1>1 DEF AnswersOK, SchedulesInOrder
<1>3. k \in 1..scheduleNum[c]
  BY <1>2, UserAuthAssumption DEF TypeOK
<1> QED
  BY <1>1, <1>3 DEF Undecided

\* A request that is undecided has not been answered.
LEMMA UndecidedIsUnanswered ==
  ASSUME TypeOK, NEW c \in Contexts, ContextOK(c), AnswersOK(c), Undecided(c)
  PROVE  results[c] = <<>>
<1>1. Working(c) /\ ~Decided(c)
  BY DecidedRequests DEF Undecided, Working
<1>2. task[c] = "idle" /\ c \in retains_
  BY <1>1 DEF AnswersOK, ThreadHasDecided
<1>3. ~done[c]
  BY <1>2 DEF ContextOK, FlagIsLast
<1> QED
  BY <1>1, <1>2, <1>3 DEF ContextOK, ReportedLast

\* The same of the state after a step.
LEMMA UnansweredNext ==
  ASSUME TypeOK', NEW c \in Contexts, ContextOK(c)', AnswersOK(c)', Undecided(c)'
  PROVE  results'[c] = <<>>
<1>1. ASSUME Decided(c)'
      PROVE  FALSE
  <2>1. PICK k \in 1..MaxSchedules : told'[<<c, k>>] # {} /\ undone'[<<c, k>>] # told'[<<c, k>>]
    BY <1>1 DEF Decided
  <2>2. k <= begun'[c] /\ begun'[c] <= scheduleNum'[c]
    BY <2>1 DEF AnswersOK, SchedulesInOrder
  <2>3. k \in 1..scheduleNum'[c]
    BY <2>2, UserAuthAssumption DEF TypeOK
  <2> QED
    BY <2>1, <2>3 DEF Undecided
<1>2. Working(c)'
  BY DEF Undecided, Working
<1>3. task'[c] = "idle" /\ c \in retains_'
  BY <1>1, <1>2 DEF AnswersOK, ThreadHasDecided
<1>4. ~done'[c]
  BY <1>3 DEF ContextOK, FlagIsLast
<1> QED
  BY <1>2, <1>3, <1>4 DEF ContextOK, ReportedLast

\* The contract sees nothing of what another context does.
LEMMA OthersAreAsked ==
  ASSUME TypeOK, NEW d \in Contexts, Untouched(d), SchedulesUntouched(d)
  PROVE  Asked(d)' = Asked(d)
<1>1. \A k \in 1..scheduleNum[d] : k \in 1..MaxSchedules
  BY UserAuthAssumption DEF TypeOK
<1>2. Undecided(d)' <=> Undecided(d)
  BY <1>1 DEF Undecided, Untouched, SchedulesUntouched
<1> QED
  BY <1>2 DEF Asked, Untouched

\* The rest of the contexts, while c does a step.
OthersStay(c) == \A d \in Contexts : d # c => Asked(d)' = Asked(d)

\* A result told to a client that has none yet is the contract's Answer.
LEMMA FirstResultIsAnswer ==
  ASSUME TypeOK, NEW c \in Contexts, NEW code \in AnswerCodes, NEW token \in BOOLEAN,
         token => code = "SUCCESS", OnResult(c, code, token), results[c] = <<>>,
         Asked(c) # "undecided", Asked(c)' = "yes", OthersStay(c)
  PROVE  Client!Answer(c)
<1>1. Append(results[c], Result(code, token)) = <<[code |-> code, token |-> token]>>
  BY DEF Result
<1>2. results' = [results EXCEPT ![c] = <<[code |-> code, token |-> token]>>]
  BY <1>1 DEF OnResult
<1>3. [d \in Contexts |-> Asked(d)'] = [[d \in Contexts |-> Asked(d)] EXCEPT ![c] = "yes"]
  BY DEF OthersStay
<1> QED
  BY <1>2, <1>3 DEF Client!Answer, Asked

\* BUSY told to a client that has its result is the contract's Apologise.
LEMMA BusyIsApology ==
  ASSUME TypeOK, NEW c \in Contexts, OnResult(c, "BUSY", FALSE), results[c] # <<>>,
         Asked(c)' = Asked(c), OthersStay(c)
  PROVE  Client!Apologise(c)
<1>1. [d \in Contexts |-> Asked(d)'] = [d \in Contexts |-> Asked(d)]
  BY DEF OthersStay
<1> QED
  BY <1>1 DEF OnResult, Result, Client!Apologise, Client!Busy, Asked

\* A step that tells nothing is not seen by the client, or the device leaves the
\* request undecided with it, or comes back to it.
LEMMA QuietIsAllowed ==
  ASSUME NEW c \in Contexts, UNCHANGED results, OthersStay(c),
         Asked(c) # "no", Asked(c)' # "no", Asked(c)' = "undecided" => results[c] = <<>>
  PROVE  [Client!Next]_Client!vars
<1> DEFINE asked == [d \in Contexts |-> Asked(d)]
           askedNext == [d \in Contexts |-> Asked(d)']
<1>1. Asked(c) \in {"yes", "undecided"} /\ Asked(c)' \in {"yes", "undecided"}
  BY DEF Asked
<1>2. askedNext = [asked EXCEPT ![c] = Asked(c)']
  BY DEF OthersStay
<1>3. CASE Asked(c)' = Asked(c)
  <2>1. askedNext = asked
    BY <1>3 DEF OthersStay
  <2> QED
    BY <2>1 DEF Client!vars, Asked
<1>4. CASE Asked(c) = "yes" /\ Asked(c)' = "undecided"
  <2>1. Client!Undecide(c)
    BY <1>2, <1>4 DEF Client!Undecide, Asked
  <2> QED
    BY <2>1 DEF Client!Next
<1>5. CASE Asked(c) = "undecided" /\ Asked(c)' = "yes"
  <2>1. Client!Redecide(c)
    BY <1>2, <1>5 DEF Client!Redecide, Asked
  <2> QED
    BY <2>1 DEF Client!Next
<1> QED
  BY <1>1, <1>3, <1>4, <1>5

LEMMA RequestIsAllowed ==
  ASSUME TypeOK, TypeOK', NEW c \in Contexts, ContextOK(c), ContextOK(c)', AnswersOK(c)', OthersStay(c),
         RefuseRequest(c) \/ AddContextId(c) \/ RequestStep(c)
  PROVE  [Client!Next]_Client!vars
<1> USE DEF RequestTo
<1>0. request \in [Contexts -> RequestStates]
  BY DEF TypeOK
<1>1. CASE RefuseRequest(c) \/ FailRequest(c)
  <2>1. results[c] = <<>> /\ OnResult(c, "ERROR", FALSE) /\ request[c] # "returned" /\ request'[c] = "failed"
    BY <1>0, <1>1 DEF RefuseRequest, FailRequest, ContextOK, ReportedLast
  <2>2. Asked(c) # "undecided" /\ Asked(c)' = "yes"
    BY <2>1 DEF Asked, Undecided
  <2>3. Client!Answer(c)
    BY <2>1, <2>2, FirstResultIsAnswer DEF AnswerCodes
  <2> QED
    BY <2>3 DEF Client!Next
<1>2. CASE AddContextId(c)
  <2>1. request[c] = "idle" /\ request'[c] \in {"check", "solve"} /\ results' = results
    BY <1>0, <1>2 DEF AddContextId
  <2>2. Asked(c) = "no" /\ Asked(c)' = "yes"
    BY <2>1 DEF Asked, Undecided
  <2>3. [d \in Contexts |-> Asked(d)'] = [[d \in Contexts |-> Asked(d)] EXCEPT ![c] = "yes"]
    BY <2>2 DEF OthersStay
  <2>4. Client!Ask(c)
    BY <2>1, <2>2, <2>3 DEF Client!Ask, Asked
  <2> QED
    BY <2>4 DEF Client!Next
<1>3. CASE CheckCaller(c) \/ GenerateSolution(c) \/ SaveCoAuthCallback(c) \/ BeginSchedule(c)
           \/ ReturnContextId(c)
  <2>1. UNCHANGED results /\ request[c] # "idle" /\ request'[c] # "idle"
    BY <1>0, <1>3 DEF CheckCaller, GenerateSolution, SaveCoAuthCallback, BeginSchedule, ReturnContextId
  <2>2. Asked(c) # "no" /\ Asked(c)' # "no"
    BY <2>1 DEF Asked
  <2>3. Asked(c)' = "undecided" => results[c] = <<>>
    <3>1. Asked(c)' = "undecided" => Undecided(c)'
      BY DEF Asked
    <3> QED
      BY <2>1, <3>1, UnansweredNext
  <2> QED
    BY <2>1, <2>2, <2>3, QuietIsAllowed
<1> QED
  BY <1>1, <1>2, <1>3 DEF RequestStep

\* OnFinish tells the client BUSY only when the thread is gone, and then the
\* client has its result.
LEMMA ScheduleIsAllowed ==
  ASSUME TypeOK, TypeOK', NEW c \in Contexts, ContextOK(c), ContextOK(c)', AnswersOK(c), AnswersOK(c)', OthersStay(c),
         NEW k \in 1..MaxSchedules, ScheduleStep(c, k) \/ OnAcquireInfo(c, k)
  PROVE  [Client!Next]_Client!vars
<1>1. UNCHANGED request /\ Working(c)
  BY DEF ScheduleStep, VerdictArrives, FailureArrives, TimeoutArrives, OnFinish, ScheduleReleased, OnAcquireInfo,
     requestVars, CoAuth!Tell, CoAuth!Release, ContextOK, NothingStarted
<1>2. Asked(c) # "no" /\ Asked(c)' # "no"
  BY <1>1 DEF Asked, Working
<1>3. Asked(c)' = "undecided" => results'[c] = <<>>
  <2>1. Asked(c)' = "undecided" => Undecided(c)'
    BY DEF Asked
  <2> QED
    BY <2>1, UnansweredNext
<1>4. CASE UNCHANGED results
  BY <1>2, <1>3, <1>4, QuietIsAllowed
<1>5. ASSUME NEW code \in AnswerCodes, OnFinish(c, k, code), c \notin retains_
      PROVE  [Client!Next]_Client!vars
  <2>1. results[c] # <<>> /\ OnResult(c, "BUSY", FALSE)
    BY <1>1, <1>5 DEF OnFinish, ContextOK, ThreadIsBack
  <2>2. ~Undecided(c)
    BY <2>1, UndecidedIsUnanswered
  <2>3. ~Undecided(c)'
    <3>1. results'[c] # <<>>
      BY <2>1, AnswerIsTyped DEF TypeOK
    <3> QED
      BY <3>1, UnansweredNext
  <2>4. Asked(c)' = Asked(c)
    BY <1>1, <2>2, <2>3 DEF Asked
  <2>5. Client!Apologise(c)
    BY <2>1, <2>4, BusyIsApology
  <2> QED
    BY <2>5 DEF Client!Next
<1>6. \/ UNCHANGED results
      \/ \E code \in AnswerCodes : OnFinish(c, k, code) /\ c \notin retains_
  BY Zenon DEF ScheduleStep, VerdictArrives, FailureArrives, TimeoutArrives, OnFinish, ScheduleReleased, OnAcquireInfo,
     AnswerCodes
<1> QED
  BY <1>4, <1>5, <1>6

\* The thread reports once: while its result is still to be told the flag is
\* not set, so nobody else has told one.
LEMMA TaskIsAllowed ==
  ASSUME TypeOK, TypeOK', VerdictIsLawful, NEW c \in Contexts, ContextOK(c), ContextOK(c)', AnswersOK(c), AnswersOK(c)',
         OthersStay(c), TaskStep(c)
  PROVE  [Client!Next]_Client!vars
<1>0. UNCHANGED request
  BY DEF TaskStep, AcquireInfoHandle, FinishHandle, ReportResult, CancelSchedules, DeleteContextId,
     DeleteCoAuthCallback, SetDoneFlag, requestVars
<1>1. Working(c)
  BY DEF TaskStep, AcquireInfoHandle, FinishHandle, ReportResult, CancelSchedules, DeleteContextId,
     DeleteCoAuthCallback, SetDoneFlag, TaskTo, ContextOK, NothingStarted
<1>2. Asked(c) # "no" /\ Asked(c)' # "no"
  BY <1>0, <1>1 DEF Asked, Working
<1>3. CASE UNCHANGED results
  <2>1. Asked(c)' = "undecided" => Undecided(c)'
    BY DEF Asked
  <2>2. Asked(c)' = "undecided" => results[c] = <<>>
    BY <1>3, <2>1, UnansweredNext
  <2> QED
    BY <1>2, <1>3, <2>2, QuietIsAllowed
<1>4. CASE ReportResult(c)
  <2>1. task[c] = "report"
    BY <1>4 DEF ReportResult, TaskTo
  <2>2. c \in retains_ /\ ~done[c]
    BY <1>1, <2>1 DEF ContextOK, ThreadIsBack, FlagIsLast
  <2>3. results[c] = <<>>
    BY <1>1, <2>1, <2>2 DEF ContextOK, ReportedLast
  <2>4. /\ verdict[c].code \in AnswerCodes /\ verdict[c].token \in BOOLEAN
        /\ verdict[c].token => verdict[c].code = "SUCCESS"
    BY DEF TypeOK, Results, VerdictIsLawful
  <2>5. OnResult(c, verdict[c].code, verdict[c].token)
    BY <1>4 DEF ReportResult
  <2>6. ~Undecided(c)
    <3>1. Decided(c)
      BY <1>1, <2>1 DEF AnswersOK, ThreadHasDecided
    <3> QED
      BY <3>1, DecidedRequests
  <2>7. ~Undecided(c)'
    <3>1. results'[c] # <<>>
      BY <2>4, <2>5, AnswerIsTyped DEF TypeOK
    <3> QED
      BY <3>1, UnansweredNext
  <2>8. Asked(c) # "undecided" /\ Asked(c)' = "yes"
    BY <1>0, <1>1, <2>6, <2>7 DEF Asked, Working
  <2>9. Client!Answer(c)
    BY <2>3, <2>4, <2>5, <2>8, FirstResultIsAnswer
  <2> QED
    BY <2>9 DEF Client!Next
<1>5. CASE FinishHandle(c)
  <2>1. nowCount'[c] # CallbackCount
    <3>1. nowCount[c] \in Nat /\ nowCount'[c] = nowCount[c] + 1
      BY <1>5 DEF FinishHandle, TypeOK
    <3> QED
      BY <3>1 DEF CallbackCount
  <2>2. UNCHANGED results
    BY <1>5, <2>1 DEF FinishHandle
  <2> QED
    BY <1>3, <2>2
<1>6. CASE AcquireInfoHandle(c) \/ CancelSchedules(c) \/ DeleteContextId(c) \/ DeleteCoAuthCallback(c)
           \/ SetDoneFlag(c)
  <2>1. UNCHANGED results
    BY <1>6 DEF AcquireInfoHandle, CancelSchedules, DeleteContextId, DeleteCoAuthCallback, SetDoneFlag
  <2> QED
    BY <1>3, <2>1
<1> QED
  BY <1>4, <1>5, <1>6 DEF TaskStep

\* Auth and AuthUser keep the safety part of the contract with their client: one
\* result for each request, a token with SUCCESS only, and after that nothing
\* but BUSY, whatever the device, co_auth, the thread group and CancelAuth do;
\* and only a request that has no result yet may be left undecided.
THEOREM KeepsClientContract == Spec => Client!SafeSpec
<1> DEFINE Inv == TypeOK /\ SafetyInv /\ AnswersInv /\ VerdictIsLawful
<1>1. Init => Client!Init
  BY DEF Init, Client!Init
<1>2. Inv /\ Inv' /\ [Next]_vars => [Client!Next]_Client!vars
  <2> SUFFICES ASSUME Inv, Inv', [Next]_vars
               PROVE  [Client!Next]_Client!vars
    OBVIOUS
  <2>0. \A d \in Contexts : ContextOK(d) /\ ContextOK(d)' /\ AnswersOK(d) /\ AnswersOK(d)'
    BY DEF SafetyInv, AnswersInv
  <2>1. CASE UNCHANGED vars
    <3>1. UNCHANGED results /\ \A d \in Contexts : Asked(d)' = Asked(d)
      BY <2>1 DEF vars, Asked, Undecided
    <3>2. [d \in Contexts |-> Asked(d)'] = [d \in Contexts |-> Asked(d)]
      BY <3>1
    <3> QED
      BY <3>1, <3>2 DEF Client!vars, Asked
  <2>2. CASE Next
    <3>1. PICK c \in Contexts :
             \/ RefuseRequest(c) \/ AddContextId(c) \/ RequestStep(c) \/ TaskStep(c)
             \/ CancelAuth(c) \/ CancelStep(c)
             \/ \E k \in 1..MaxSchedules : ScheduleStep(c, k) \/ OnAcquireInfo(c, k)
      BY <2>2 DEF Next
    <3>2. OthersStay(c)
      <4> SUFFICES ASSUME NEW d \in Contexts, d # c
                   PROVE  Asked(d)' = Asked(d)
        BY DEF OthersStay
      <4>1. Untouched(d)
        BY <3>1, RequestIsLocal, ScheduleIsLocal, TaskIsLocal, CancelIsLocal
      <4>2. SchedulesUntouched(d)
        BY <3>1, OthersAreUntouched
      <4> QED
        BY <4>1, <4>2, OthersAreAsked
    <3>3. CASE RefuseRequest(c) \/ AddContextId(c) \/ RequestStep(c)
      BY <2>0, <3>2, <3>3, RequestIsAllowed
    <3>4. CASE TaskStep(c)
      BY <2>0, <3>2, <3>4, TaskIsAllowed
    <3>5. ASSUME NEW k \in 1..MaxSchedules, ScheduleStep(c, k) \/ OnAcquireInfo(c, k)
          PROVE  [Client!Next]_Client!vars
      BY <2>0, <3>2, <3>5, ScheduleIsAllowed
    <3>6. CASE CancelAuth(c) \/ CancelStep(c)
      <4>1. UNCHANGED <<request, scheduleNum, told, undone, results>>
        BY <3>6 DEF CancelAuth, CancelStep, CancelContext, CancelItsSchedules, CancelDeletesContext, requestVars,
           scheduleVars, taskVars, handledVars
      <4>2. \A d \in Contexts : Asked(d)' = Asked(d)
        BY <4>1 DEF Asked, Undecided
      <4>3. [d \in Contexts |-> Asked(d)'] = [d \in Contexts |-> Asked(d)]
        BY <4>2
      <4> QED
        BY <4>1, <4>3 DEF Client!vars, Asked
    <3> QED
      BY <3>1, <3>3, <3>4, <3>5, <3>6
  <2> QED
    BY <2>1, <2>2
<1> QED
  BY <1>1, <1>2, TypeInvariant, SafetyInvariant, AnswersInvariant, LawfulInvariant, PTL DEF Spec, Client!SafeSpec
=============================================================================
