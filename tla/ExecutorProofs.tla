--------------------------- MODULE ExecutorProofs ---------------------------
(***************************************************************************)
(* Proofs about Executor, for every set of commands and any number of      *)
(* connects of the driver and of answers to a command.                     *)
(***************************************************************************)
EXTENDS Executor, FiniteSetTheorems, TLAPS

\* Only the HDI listener handles a connect, and there is an Executor object left
\* for it to create until it has.
EventInv ==
  \A l \in Listeners :
    /\ event[l] = "connect" => l = "hdi"
    /\ listener[l] \in {"again", "create"} => event[l] = "connect"
    /\ event[l] = "connect" /\ listener[l] \notin {"register", "unlock"} => generation < MaxConnects

TypeInv == TypeOK /\ EventInv

\* An update of one thread's place in OnResult.
LEMMA ResultIsTyped ==
  ASSUME TypeOK, NEW c \in Commands, NEW r \in Roles, NEW from,
         NEW to \in {"idle", "enter", "inner", "end"}, ResultTo(c, r, from, to)
  PROVE  /\ onResult' \in [Commands -> [Roles -> {"idle", "enter", "inner", "end"}]]
         /\ \A d \in Commands : \A q \in Roles :
              onResult'[d][q] = IF d = c /\ q = r THEN to ELSE onResult[d][q]
<1> DEFINE Row == [onResult[c] EXCEPT ![r] = to]
<1>1. onResult' = [onResult EXCEPT ![c] = Row]
  BY DEF ResultTo
<1>2. Row \in [Roles -> {"idle", "enter", "inner", "end"}]
  BY DEF TypeOK
<1>3. \A q \in Roles : Row[q] = IF q = r THEN to ELSE onResult[c][q]
  BY DEF TypeOK
<1> HIDE DEF Row
<1> QED
  BY <1>1, <1>2, <1>3 DEF TypeOK

\* The steps of the IPC thread of a command keep the types.
LEMMA BeginTypes ==
  ASSUME TypeInv, NEW c \in Commands, StartProcess(c) \/ BeginStep(c)
  PROVE  TypeInv'
<1> USE ExecutorAssumption DEF TypeInv, TypeOK, EventInv, BeginTo, executorVars, frameworkVars, resultVars, listenerVars
<1>1. CASE StartProcess(c)
  BY <1>1 DEF StartProcess, BeginStates
<1>2. CASE AddCommand(c)
  BY <1>2 DEF AddCommand, BeginStates
<1>3. CASE SendRequest(c)
  BY <1>3 DEF SendRequest, BeginStates
<1>4. CASE SendRequestFails(c)
  <2>1. onResult' \in [Commands -> [Roles -> {"idle", "enter", "inner", "end"}]]
    <3>1. CASE UNCHANGED onResult
      BY <3>1
    <3>2. CASE onResult' = [onResult EXCEPT ![c]["begin"] = "enter"]
      <4>1. [onResult[c] EXCEPT !["begin"] = "enter"] \in [Roles -> {"idle", "enter", "inner", "end"}]
        OBVIOUS
      <4> QED
        BY <3>2, <4>1
    <3> QED
      BY <1>4, <3>1, <3>2 DEF SendRequestFails
  <2>2. begin' \in [Commands -> BeginStates]
    BY <1>4 DEF SendRequestFails, BeginStates
  <2> QED
    BY <1>4, <2>1, <2>2 DEF SendRequestFails
<1>5. CASE RefusalReported(c)
  BY <1>5 DEF RefusalReported, BeginStates
<1>6. CASE EndProcess(c)
  BY <1>6 DEF EndProcess, RemoveCommand, BeginStates
<1>7. CASE GetResult(c)
  BY <1>7 DEF GetResult, BeginStates
<1> QED
  BY <1>1, <1>2, <1>3, <1>4, <1>5, <1>6, <1>7 DEF BeginStep

\* The answers and tips of the driver keep the types.
LEMMA ResultTypes ==
  ASSUME TypeInv, NEW c \in Commands, NEW r \in Roles,
         DriverAnswers(c) \/ OnAcquireInfo(c) \/ OnAcquireInfoEnd(c) \/ ResultStep(c, r)
  PROVE  TypeInv'
<1> USE ExecutorAssumption DEF TypeInv, EventInv, executorVars, frameworkVars, listenerVars
<1>1. onResult' \in [Commands -> [Roles -> {"idle", "enter", "inner", "end"}]]
  <2>1. "driver" \in Roles /\ "tip" \in Roles
    BY DEF Roles
  <2>2. CASE DriverAnswers(c)
    BY <2>1, <2>2, ResultIsTyped DEF DriverAnswers
  <2>3. CASE OnAcquireInfo(c)
    BY <2>1, <2>3, ResultIsTyped DEF OnAcquireInfo
  <2>4. CASE OnAcquireInfoEnd(c)
    BY <2>1, <2>4, ResultIsTyped DEF OnAcquireInfoEnd
  <2>5. CASE OnResult(c, r)
    BY <2>5, ResultIsTyped DEF OnResult
  <2>6. CASE OnResultInner(c, r)
    BY <2>6, ResultIsTyped DEF OnResultInner
  <2>7. CASE OnResultEnd(c, r)
    BY <2>7, ResultIsTyped DEF OnResultEnd
  <2> QED
    BY <2>2, <2>3, <2>4, <2>5, <2>6, <2>7 DEF ResultStep
<1> USE DEF TypeOK
<1>2. CASE DriverAnswers(c)
  BY <1>1, <1>2 DEF DriverAnswers
<1>3. CASE OnAcquireInfo(c) \/ OnAcquireInfoEnd(c)
  BY <1>1, <1>3 DEF OnAcquireInfo, OnAcquireInfoEnd, Roles
<1>4. CASE OnResult(c, r)
  <2>1. isFinished_' \in [Commands -> BOOLEAN] /\ commandMutex' \in [Commands -> Roles \cup {Free}]
    <3>1. CASE UNCHANGED <<isFinished_, commandMutex>>
      BY <3>1
    <3>2. CASE isFinished_' = [isFinished_ EXCEPT ![c] = TRUE] /\ commandMutex' = [commandMutex EXCEPT ![c] = r]
      BY <3>2
    <3> QED
      BY <1>4, <3>1, <3>2 DEF OnResult
  <2> QED
    BY <1>1, <1>4, <2>1 DEF OnResult
<1>5. CASE OnResultInner(c, r)
  BY <1>1, <1>5 DEF OnResultInner
<1>6. CASE OnResultEnd(c, r)
  BY <1>1, <1>6 DEF OnResultEnd, RemoveCommand
<1> QED
  BY <1>2, <1>3, <1>4, <1>5, <1>6 DEF ResultStep

\* The steps of the listeners keep the types.
LEMMA ListenerTypes ==
  ASSUME TypeInv, NEW l \in Listeners,
         ListenerStep(l) \/ \E e \in {"connect", "disconnect", "ready"} : Occurs(l, e)
  PROVE  TypeInv'
<1> USE ExecutorAssumption DEF TypeInv, TypeOK, EventInv, ListenerTo, executorVars, frameworkVars, resultVars, ListenerStates
<1>1. ASSUME NEW e \in {"connect", "disconnect", "ready"}, Occurs(l, e)
      PROVE  TypeInv'
  BY <1>1 DEF Occurs
<1>2. CASE TakeManager(l)
  BY <1>2 DEF TakeManager
<1>3. CASE TakeDriver(l)
  BY <1>3 DEF TakeDriver
<1>4. CASE OnHdiDisconnect(l)
  <2>1. \A k \in Listeners : listener'[k] = IF k = l THEN "walk" ELSE listener[k]
    BY <1>4 DEF OnHdiDisconnect
  <2> QED
    BY <1>4, <2>1 DEF OnHdiDisconnect
<1>5. CASE RespondCallbackOnDisconnect(l)
  BY <1>5 DEF RespondCallbackOnDisconnect
<1>6. ASSUME NEW c \in Commands, VisitCommand(l, c)
      PROVE  TypeInv'
  <2>1. onResult' \in [Commands -> [Roles -> {"idle", "enter", "inner", "end"}]]
    BY <1>6, ResultIsTyped DEF VisitCommand, Roles
  <2> QED
    BY <1>6, <2>1 DEF VisitCommand
<1>7. CASE ClearCommands(l)
  <2>1. \A k \in Listeners : listener'[k] = IF k = l THEN IF event[l] = "connect" THEN "again" ELSE "unlock"
                                           ELSE listener[k]
    BY <1>7 DEF ClearCommands
  <2>2. listener' \in [Listeners -> ListenerStates]
    <3>1. CASE event[l] = "connect"
      BY <1>7, <3>1 DEF ClearCommands
    <3>2. CASE event[l] # "connect"
      BY <1>7, <3>2 DEF ClearCommands
    <3> QED
      BY <3>1, <3>2
  <2>3. executorMutex' \in BOOLEAN /\ executorList_' \in 0..MaxConnects /\ command2Respond_' \in SUBSET Commands
    <3>1. executorList_' = 0 /\ command2Respond_' = {}
      BY <1>7, Zenon DEF ClearCommands
    <3>2. executorMutex' = FALSE
      BY <1>7, Zenon DEF ClearCommands
    <3>3. executorMutex' \in BOOLEAN
      BY <3>2, Zenon
    <3>4. executorList_' \in 0..MaxConnects /\ command2Respond_' \in SUBSET Commands
      BY <3>1
    <3> QED
      BY <3>3, <3>4, Zenon
  <2>4. TypeOK'
    BY <1>7, <2>2, <2>3 DEF ClearCommands
  <2>5. EventInv'
    BY <1>7, <2>1 DEF ClearCommands
  <2> QED
    BY <2>4, <2>5
<1>8. CASE ConnectUnlocks(l)
  BY <1>8 DEF ConnectUnlocks
<1>9. CASE CreateExecutor(l)
  <2>1. event[l] = "connect" /\ l = "hdi" /\ generation < MaxConnects
    BY <1>9 DEF CreateExecutor
  <2>2. \A k \in Listeners : event[k] = "connect" => k = l
    BY <2>1
  <2>3. TypeOK'
    BY <1>9, <2>1 DEF CreateExecutor
  <2>4. EventInv'
    BY <1>9, <2>2 DEF CreateExecutor
  <2> QED
    BY <2>3, <2>4
<1>10. CASE RegisterExecutor(l)
  BY <1>10 DEF RegisterExecutor
<1>11. CASE EventDone(l)
  BY <1>11 DEF EventDone
<1>12. CASE CreateNoExecutor(l)
  <2>1. event[l] = "connect" /\ generation < MaxConnects
    BY <1>12 DEF CreateNoExecutor
  <2> QED
    BY <1>12, <2>1 DEF CreateNoExecutor
<1>13. CASE RegisterExecutorFails(l)
  BY <1>13 DEF RegisterExecutorFails
<1> QED
  BY <1>1, <1>2, <1>3, <1>4, <1>5, <1>6, <1>7, <1>8, <1>9, <1>10, <1>11, <1>12, <1>13 DEF ListenerStep

LEMMA TypeInvariant == Spec => []TypeInv
<1>1. Init => TypeInv
  <2> SUFFICES ASSUME Init
               PROVE  TypeInv
    OBVIOUS
  <2> USE ExecutorAssumption DEF Init
  <2>1. EventInv
    BY DEF EventInv
  <2>2. isFinished_ \in [Commands -> BOOLEAN] /\ executorHdi_ \in BOOLEAN /\ executorMutex \in BOOLEAN
    OBVIOUS
  <2>3. onResult \in [Commands -> [Roles -> {"idle", "enter", "inner", "end"}]]
    OBVIOUS
  <2>4. /\ begin \in [Commands -> BeginStates] /\ listener \in [Listeners -> ListenerStates]
        /\ event \in [Listeners -> {"none", "connect", "disconnect", "ready"}]
    BY DEF BeginStates, ListenerStates
  <2>5. /\ answers \in [Commands -> 0..MaxAnswers] /\ told \in [Commands -> Nat]
        /\ owner \in [Commands -> 0..MaxConnects] /\ commandMutex \in [Commands -> Roles \cup {Free}]
    OBVIOUS
  <2>6. TypeOK
    BY <2>2, <2>3, <2>4, <2>5 DEF TypeOK
  <2> QED
    BY <2>1, <2>6 DEF TypeInv
<1>2. TypeInv /\ [Next]_vars => TypeInv'
  <2>1. ASSUME TypeInv, Next
        PROVE  TypeInv'
    BY <2>1, BeginTypes, ResultTypes, ListenerTypes DEF Next, Roles
  <2>2. ASSUME TypeInv, UNCHANGED vars
        PROVE  TypeInv'
    BY <2>2 DEF TypeInv, TypeOK, EventInv, vars
  <2> QED
    BY <2>1, <2>2
<1> QED
  BY <1>1, <1>2, PTL DEF Spec

\* Every variable of the driver, its executor and its commands keeps its type:
\* no more Executor objects are made than there were connects.
THEOREM TypeCorrect == Spec => []TypeOK
BY TypeInvariant, PTL DEF TypeInv

(***************************************************************************)
(* A command ends once                                                     *)
(***************************************************************************)

\* The thread past the test of isFinished_ holds the command's mutex.
MutexInv ==
  \A c \in Commands : \A r \in Roles : onResult[c][r] \in {"inner", "end"} <=> commandMutex[c] = r

\* Whoever is past the test has set isFinished_, and has not told anybody yet.
EndInv ==
  \A c \in Commands :
    /\ told[c] = 0 \/ (told[c] = 1 /\ isFinished_[c])
    /\ \A r \in Roles \ {"tip"} :
         /\ onResult[c][r] \in {"inner", "end"} => isFinished_[c]
         /\ onResult[c][r] = "inner" => told[c] = 0

OnceInv == MutexInv /\ EndInv

\* A thread that calls OnResult, or returns from it without being let in, leaves
\* this alone.
LEMMA CallerFrame ==
  ASSUME TypeOK, OnceInv, NEW c \in Commands, NEW r \in Roles, NEW from \in {"idle", "enter"},
         NEW to \in {"idle", "enter"}, ResultTo(c, r, from, to),
         UNCHANGED <<isFinished_, told, commandMutex>>
  PROVE  OnceInv'
<1>1. \A d \in Commands : \A q \in Roles :
        onResult'[d][q] = IF d = c /\ q = r THEN to ELSE onResult[d][q]
  BY ResultIsTyped
<1>2. onResult[c][r] = from
  BY DEF ResultTo
<1>3. MutexInv'
  BY <1>1, <1>2 DEF OnceInv, MutexInv
<1>4. EndInv'
  BY <1>1, <1>2 DEF OnceInv, EndInv
<1> QED
  BY <1>3, <1>4 DEF OnceInv

\* Taking the command's mutex for OnResult.
LEMMA EnteringOnce ==
  ASSUME TypeOK, OnceInv, NEW c \in Commands, NEW r \in Roles \ {"tip"}, OnResult(c, r)
  PROVE  OnceInv'
<1>1. CASE isFinished_[c]
  BY <1>1, CallerFrame DEF OnResult
<1>2. CASE ~isFinished_[c]
  <2>1. ResultTo(c, r, "enter", "inner") /\ commandMutex[c] = Free /\ told' = told
        /\ isFinished_' = [isFinished_ EXCEPT ![c] = TRUE] /\ commandMutex' = [commandMutex EXCEPT ![c] = r]
    BY <1>2 DEF OnResult
  <2>2. \A d \in Commands : \A q \in Roles :
          onResult'[d][q] = IF d = c /\ q = r THEN "inner" ELSE onResult[d][q]
    BY <2>1, ResultIsTyped
  <2>3. \A d \in Commands : commandMutex'[d] = IF d = c THEN r ELSE commandMutex[d]
    BY <2>1 DEF TypeOK
  <2>4. \A d \in Commands : isFinished_'[d] <=> (d = c \/ isFinished_[d])
    BY <2>1 DEF TypeOK
  <2>5. \A q \in Roles : onResult[c][q] \notin {"inner", "end"}
    BY <2>1 DEF OnceInv, MutexInv, Free, Roles
  <2>6. told[c] = 0
    BY <1>2 DEF OnceInv, EndInv
  <2>7. MutexInv'
    BY <2>2, <2>3, <2>5 DEF OnceInv, MutexInv
  <2>8. EndInv'
    BY <2>1, <2>2, <2>4, <2>6 DEF OnceInv, EndInv
  <2> QED
    BY <2>7, <2>8 DEF OnceInv
<1> QED
  BY <1>1, <1>2

\* Telling the framework, with the command's mutex held.
LEMMA TellingOnce ==
  ASSUME TypeOK, OnceInv, NEW c \in Commands, NEW r \in Roles \ {"tip"}, OnResultInner(c, r)
  PROVE  OnceInv'
<1>1. ResultTo(c, r, "inner", "end") /\ onResult[c][r] = "inner"
      /\ UNCHANGED <<isFinished_, commandMutex>>
  BY DEF OnResultInner, ResultTo
<1>2. \A d \in Commands : \A q \in Roles :
        onResult'[d][q] = IF d = c /\ q = r THEN "end" ELSE onResult[d][q]
  BY <1>1, ResultIsTyped
<1>3. told[c] = 0 /\ isFinished_[c]
  BY <1>1 DEF OnceInv, EndInv
<1>4. \A d \in Commands : told'[d] = IF d = c THEN 1 ELSE told[d]
  BY <1>3 DEF OnResultInner, TypeOK
<1>5. \A q \in Roles : onResult[c][q] = "inner" => q = r
  BY <1>1 DEF OnceInv, MutexInv
<1>6. MutexInv'
  BY <1>1, <1>2 DEF OnceInv, MutexInv
<1>7. EndInv'
  BY <1>1, <1>2, <1>3, <1>4, <1>5 DEF OnceInv, EndInv
<1> QED
  BY <1>6, <1>7 DEF OnceInv

\* Giving the mutex back, at the end of OnResult or of OnAcquireInfo.
LEMMA LeavingOnce ==
  ASSUME TypeOK, OnceInv, NEW c \in Commands, NEW r \in Roles, NEW from \in {"inner", "end"},
         ResultTo(c, r, from, "idle"), commandMutex' = [commandMutex EXCEPT ![c] = Free],
         UNCHANGED <<isFinished_, told>>
  PROVE  OnceInv'
<1>1. \A d \in Commands : \A q \in Roles :
        onResult'[d][q] = IF d = c /\ q = r THEN "idle" ELSE onResult[d][q]
  BY ResultIsTyped
<1>2. \A d \in Commands : commandMutex'[d] = IF d = c THEN Free ELSE commandMutex[d]
  BY DEF TypeOK
<1>3. commandMutex[c] = r
  BY DEF OnceInv, MutexInv, ResultTo
<1>4. MutexInv'
  BY <1>1, <1>2, <1>3 DEF OnceInv, MutexInv, Free, Roles
<1>5. EndInv'
  BY <1>1 DEF OnceInv, EndInv
<1> QED
  BY <1>4, <1>5 DEF OnceInv

LEMMA TippingOnce ==
  ASSUME TypeOK, OnceInv, NEW c \in Commands, OnAcquireInfo(c)
  PROVE  OnceInv'
<1>1. ResultTo(c, "tip", "idle", "inner") /\ commandMutex[c] = Free
      /\ commandMutex' = [commandMutex EXCEPT ![c] = "tip"] /\ UNCHANGED <<isFinished_, told>>
  BY DEF OnAcquireInfo
<1>2. \A d \in Commands : \A q \in Roles :
        onResult'[d][q] = IF d = c /\ q = "tip" THEN "inner" ELSE onResult[d][q]
  BY <1>1, ResultIsTyped DEF Roles
<1>3. \A d \in Commands : commandMutex'[d] = IF d = c THEN "tip" ELSE commandMutex[d]
  BY <1>1 DEF TypeOK
<1>4. \A q \in Roles : onResult[c][q] \notin {"inner", "end"}
  BY <1>1 DEF OnceInv, MutexInv, Free, Roles
<1>5. MutexInv'
  BY <1>2, <1>3, <1>4 DEF OnceInv, MutexInv
<1>6. EndInv'
  BY <1>1, <1>2 DEF OnceInv, EndInv
<1> QED
  BY <1>5, <1>6 DEF OnceInv

LEMMA OnceFrame ==
  ASSUME OnceInv, UNCHANGED <<isFinished_, onResult, told, commandMutex>>
  PROVE  OnceInv'
BY DEF OnceInv, MutexInv, EndInv

\* A command's IPC thread is in OnResult only after the driver refused it.
BeginInv ==
  \A c \in Commands : begin[c] \in {"idle", "add", "send"} => onResult[c]["begin"] = "idle"

LEMMA BeginInvariant == Spec => []BeginInv
<1>1. Init => BeginInv
  BY DEF Init, BeginInv, Roles
<1>2. TypeOK /\ BeginInv /\ [Next]_vars => BeginInv'
  <2> SUFFICES ASSUME TypeOK, BeginInv, [Next]_vars
               PROVE  BeginInv'
    OBVIOUS
  <2> USE DEF BeginInv, resultVars
  <2>1. ASSUME NEW c \in Commands, StartProcess(c) \/ BeginStep(c)
        PROVE  BeginInv'
    <3>1. \A d \in Commands : begin'[d] \in {"idle", "add", "send"} => begin[d] \in {"idle", "add", "send"}
      BY <2>1 DEF StartProcess, BeginStep, AddCommand, SendRequest, SendRequestFails, RefusalReported,
         EndProcess, GetResult, BeginTo, TypeOK
    <3>2. CASE UNCHANGED onResult
      BY <3>1, <3>2
    <3>3. CASE ~UNCHANGED onResult
      <4>1. BeginTo(c, "send", "refused") /\ onResult' = [onResult EXCEPT ![c]["begin"] = "enter"]
        BY <2>1, <3>3 DEF StartProcess, BeginStep, AddCommand, SendRequest, SendRequestFails, RefusalReported,
           EndProcess, GetResult
      <4>2. \A d \in Commands : d # c => onResult'[d] = onResult[d] /\ begin'[d] = begin[d]
        BY <4>1 DEF BeginTo, TypeOK
      <4>3. begin'[c] = "refused"
        BY <4>1 DEF BeginTo, TypeOK
      <4> QED
        BY <4>2, <4>3
    <3> QED
      BY <3>2, <3>3
  <2>2. ASSUME NEW c \in Commands, NEW r \in Roles, NEW from \in {"idle", "enter", "inner", "end"},
               NEW to \in {"idle", "enter", "inner", "end"}, ResultTo(c, r, from, to),
               r = "begin" => from # "idle", UNCHANGED begin
        PROVE  BeginInv'
    <3>1. \A d \in Commands : \A q \in Roles :
            onResult'[d][q] = IF d = c /\ q = r THEN to ELSE onResult[d][q]
      BY <2>2, ResultIsTyped
    <3>2. onResult[c][r] = from
      BY <2>2 DEF ResultTo
    <3>3. "begin" \in Roles
      BY DEF Roles
    <3> QED
      BY <2>2, <3>1, <3>2, <3>3
  <2>3. ASSUME NEW c \in Commands,
               DriverAnswers(c) \/ OnAcquireInfo(c) \/ OnAcquireInfoEnd(c)
        PROVE  BeginInv'
    BY <2>2, <2>3 DEF DriverAnswers, OnAcquireInfo, OnAcquireInfoEnd, Roles
  <2>4. ASSUME NEW c \in Commands, NEW r \in Roles, ResultStep(c, r)
        PROVE  BeginInv'
    <3>1. CASE OnResult(c, r)
      BY <2>2, <3>1 DEF OnResult
    <3>2. CASE OnResultInner(c, r)
      BY <2>2, <3>2 DEF OnResultInner
    <3>3. CASE OnResultEnd(c, r)
      BY <2>2, <3>3 DEF OnResultEnd
    <3> QED
      BY <2>4, <3>1, <3>2, <3>3 DEF ResultStep
  <2>5. ASSUME NEW l \in Listeners, NEW c \in Commands, VisitCommand(l, c)
        PROVE  BeginInv'
    BY <2>2, <2>5 DEF VisitCommand, Roles
  <2>6. CASE UNCHANGED <<begin, onResult>>
    BY <2>6
  <2>7. ASSUME NEW l \in Listeners, ListenerStep(l), \A c \in Commands : ~VisitCommand(l, c)
        PROVE  UNCHANGED <<begin, onResult>>
    BY <2>7 DEF ListenerStep, TakeManager, TakeDriver, OnHdiDisconnect, RespondCallbackOnDisconnect,
       ClearCommands, ConnectUnlocks, CreateExecutor, CreateNoExecutor,
         RegisterExecutor, RegisterExecutorFails, EventDone
  <2>8. ASSUME NEW l \in Listeners, NEW e \in {"connect", "disconnect", "ready"}, Occurs(l, e)
        PROVE  UNCHANGED <<begin, onResult>>
    BY <2>8 DEF Occurs
  <2> QED
    BY <2>1, <2>3, <2>4, <2>5, <2>6, <2>7, <2>8 DEF Next, vars
<1>3. TypeInv => TypeOK
  BY DEF TypeInv
<1> QED
  BY <1>1, <1>2, <1>3, TypeInvariant, PTL DEF Spec

\* Every step of the specification keeps it.
LEMMA OnceSteps ==
  ASSUME TypeOK, BeginInv, OnceInv, [Next]_vars
  PROVE  OnceInv'
<1> USE DEF resultVars
<1>1. ASSUME NEW c \in Commands, StartProcess(c) \/ BeginStep(c)
      PROVE  OnceInv'
  <2>1. CASE SendRequestFails(c)
    <3>1. CASE UNCHANGED onResult
      BY <2>1, <3>1, OnceFrame DEF SendRequestFails
    <3>2. CASE ~UNCHANGED onResult
      <4>1. BeginTo(c, "send", "refused") /\ onResult' = [onResult EXCEPT ![c]["begin"] = "enter"]
            /\ UNCHANGED <<isFinished_, told, commandMutex>>
        BY <2>1, <3>2 DEF SendRequestFails
      <4>2. ResultTo(c, "begin", "idle", "enter")
        BY <4>1 DEF BeginInv, BeginTo, ResultTo
      <4> QED
        BY <4>1, <4>2, CallerFrame DEF Roles
    <3> QED
      BY <3>1, <3>2
  <2>2. CASE StartProcess(c) \/ AddCommand(c) \/ SendRequest(c) \/ RefusalReported(c) \/ EndProcess(c) \/ GetResult(c)
    BY <2>2, OnceFrame DEF StartProcess, AddCommand, SendRequest, RefusalReported, EndProcess, GetResult
  <2> QED
    BY <1>1, <2>1, <2>2 DEF BeginStep
<1>2. ASSUME NEW c \in Commands, DriverAnswers(c)
      PROVE  OnceInv'
  BY <1>2, CallerFrame DEF DriverAnswers, Roles
<1>3. ASSUME NEW c \in Commands, OnAcquireInfo(c)
      PROVE  OnceInv'
  BY <1>3, TippingOnce
<1>4. ASSUME NEW c \in Commands, OnAcquireInfoEnd(c)
      PROVE  OnceInv'
  BY <1>4, LeavingOnce DEF OnAcquireInfoEnd, Roles
<1>5. ASSUME NEW c \in Commands, NEW r \in Roles \ {"tip"}, ResultStep(c, r)
      PROVE  OnceInv'
  <2>1. CASE OnResultEnd(c, r)
    BY <2>1, LeavingOnce DEF OnResultEnd
  <2> QED
    BY <1>5, <2>1, EnteringOnce, TellingOnce DEF ResultStep
<1>6. ASSUME NEW l \in Listeners, ListenerStep(l)
      PROVE  OnceInv'
  <2>1. ASSUME NEW c \in Commands, VisitCommand(l, c)
        PROVE  OnceInv'
    BY <2>1, CallerFrame DEF VisitCommand, Roles
  <2>2. CASE \A c \in Commands : ~VisitCommand(l, c)
    <3>1. UNCHANGED <<isFinished_, onResult, told, commandMutex>>
      BY <1>6, <2>2 DEF ListenerStep, TakeManager, TakeDriver, OnHdiDisconnect, RespondCallbackOnDisconnect,
         ClearCommands, ConnectUnlocks, CreateExecutor, CreateNoExecutor,
         RegisterExecutor, RegisterExecutorFails, EventDone
    <3> QED
      BY <3>1, OnceFrame
  <2> QED
    BY <2>1, <2>2
<1>7. ASSUME NEW l \in Listeners, NEW e \in {"connect", "disconnect", "ready"}, Occurs(l, e)
      PROVE  OnceInv'
  BY <1>7, OnceFrame DEF Occurs
<1>8. CASE UNCHANGED vars
  BY <1>8, OnceFrame DEF vars
<1> QED
  BY <1>1, <1>2, <1>3, <1>4, <1>5, <1>6, <1>7, <1>8 DEF Next

LEMMA OnceInvariant == Spec => []OnceInv
<1>1. Init => OnceInv
  BY DEF Init, OnceInv, MutexInv, EndInv, Free, Roles
<1>2. TypeInv => TypeOK
  BY DEF TypeInv
<1> QED
  BY <1>1, <1>2, OnceSteps, TypeInvariant, BeginInvariant, PTL DEF Spec

\* Whatever the driver repeats and however a disconnect races it, a command calls
\* Finish, or sets its promise, once.
THEOREM ToldOnlyOnce == Spec => []FinishOnce
<1>1. OnceInv => FinishOnce
  BY DEF OnceInv, EndInv, FinishOnce
<1> QED
  BY <1>1, OnceInvariant, PTL

\* A command never has two messages to the framework on their way.
THEOREM MessagesOneByOne == Spec => []OneMessageAtATime
<1>1. ASSUME MutexInv
      PROVE  OneMessageAtATime
  <2>1. ASSUME NEW c \in Commands
        PROVE  Cardinality({r \in Roles : onResult[c][r] \in {"inner", "end"}}) <= 1
    <3> DEFINE Inside == {r \in Roles : onResult[c][r] \in {"inner", "end"}}
    <3>1. Inside \subseteq {commandMutex[c]}
      BY <1>1 DEF MutexInv
    <3>2. IsFiniteSet({commandMutex[c]}) /\ Cardinality({commandMutex[c]}) = 1
      BY FS_Singleton
    <3> HIDE DEF Inside
    <3>3. IsFiniteSet(Inside) /\ Cardinality(Inside) <= 1
      BY <3>1, <3>2, FS_Subset
    <3> QED
      BY <3>3 DEF Inside
  <2> QED
    BY <2>1 DEF OneMessageAtATime
<1>2. OnceInv => OneMessageAtATime
  BY <1>1 DEF OnceInv
<1> QED
  BY <1>2, OnceInvariant, PTL

(***************************************************************************)
(* An accepted command is in the set the disconnect walks over             *)
(***************************************************************************)

\* Where a command has been entered into command2Respond_ and not been told yet.
Entered == {"send", "refused", "end", "wait", "returned"}

TrackInv ==
  \A c \in Commands : begin[c] \in Entered /\ Current(c) /\ ~isFinished_[c] => c \in command2Respond_

\* Executor objects are numbered as they are made; 0 is none, and no command
\* that has begun runs on it.
OwnerInv ==
  /\ executorList_ <= generation /\ registered <= generation
  /\ \A c \in Commands : owner[c] <= generation /\ (begin[c] # "idle" => owner[c] # 0)

\* The set is left by commands that failed to begin or have been told, and all
\* leave it with the executor they run on.
LEMMA TrackSteps ==
  ASSUME TypeInv, OnceInv, OwnerInv, TrackInv, [Next]_vars
  PROVE  OwnerInv' /\ TrackInv'
<1> USE ExecutorAssumption DEF TypeInv, TypeOK, OwnerInv, TrackInv, Current, Entered, executorVars, frameworkVars, resultVars
<1>1. ASSUME NEW c \in Commands, StartProcess(c)
      PROVE  OwnerInv' /\ TrackInv'
  <2>1. /\ \A d \in Commands : begin'[d] = IF d = c THEN begin'[c] ELSE begin[d]
        /\ begin'[c] \in {"add", "failed"}
        /\ \A d \in Commands : owner'[d] = IF d = c THEN registered ELSE owner[d]
        /\ registered # 0
        /\ UNCHANGED <<generation, executorList_, registered, command2Respond_, isFinished_>>
    BY <1>1 DEF StartProcess, BeginTo
  <2> QED
    BY <2>1
<1>2. ASSUME NEW c \in Commands, BeginStep(c)
      PROVE  OwnerInv' /\ TrackInv'
  <2> USE DEF BeginTo
  <2>1. begin[c] # "idle" /\ \A d \in Commands : d # c => begin'[d] = begin[d]
    BY <1>2 DEF BeginStep, AddCommand, SendRequest, SendRequestFails, RefusalReported, EndProcess, GetResult
  <2>2. UNCHANGED <<generation, executorList_, registered, owner, isFinished_>>
    BY <1>2 DEF BeginStep, AddCommand, SendRequest, SendRequestFails, RefusalReported, EndProcess, GetResult
  <2>3. OwnerInv'
    BY <2>1, <2>2
  <2>4. CASE AddCommand(c)
    BY <2>1, <2>2, <2>4 DEF AddCommand
  <2>5. CASE EndProcess(c)
    <3>1. begin'[c] = "failed" /\ \A d \in Commands : d # c /\ d \in command2Respond_ => d \in command2Respond_'
      BY <2>5 DEF EndProcess, RemoveCommand
    <3> QED
      BY <2>1, <2>2, <3>1
  <2>6. CASE ~AddCommand(c) /\ ~EndProcess(c)
    <3>1. begin[c] \in Entered /\ command2Respond_' = command2Respond_
      BY <1>2, <2>6 DEF BeginStep, SendRequest, SendRequestFails, RefusalReported, GetResult
    <3> QED
      BY <2>1, <2>2, <3>1
  <2> QED
    BY <2>3, <2>4, <2>5, <2>6
<1>3. ASSUME NEW c \in Commands,
             DriverAnswers(c) \/ OnAcquireInfo(c) \/ OnAcquireInfoEnd(c)
      PROVE  OwnerInv' /\ TrackInv'
  BY <1>3 DEF DriverAnswers, OnAcquireInfo, OnAcquireInfoEnd
<1>4. ASSUME NEW c \in Commands, NEW r \in Roles \ {"tip"}, ResultStep(c, r)
      PROVE  OwnerInv' /\ TrackInv'
  <2>1. CASE OnResult(c, r)
    <3>1. \A d \in Commands : isFinished_[d] => isFinished_'[d]
      BY <2>1 DEF OnResult
    <3>2. UNCHANGED <<generation, executorList_, registered, owner, begin, command2Respond_>>
      BY <2>1 DEF OnResult
    <3> QED
      BY <3>1, <3>2
  <2>2. CASE OnResultInner(c, r)
    BY <2>2 DEF OnResultInner
  <2>3. CASE OnResultEnd(c, r)
    <3>1. isFinished_[c]
      BY <2>3 DEF OnResultEnd, ResultTo, OnceInv, EndInv
    <3>2. UNCHANGED <<generation, executorList_, registered, owner, begin, isFinished_>>
          /\ \A d \in Commands : d # c /\ d \in command2Respond_ => d \in command2Respond_'
      BY <2>3 DEF OnResultEnd, RemoveCommand
    <3> QED
      BY <3>1, <3>2
  <2> QED
    BY <1>4, <2>1, <2>2, <2>3 DEF ResultStep
<1>5. ASSUME NEW l \in Listeners, ListenerStep(l)
      PROVE  OwnerInv' /\ TrackInv'
  <2>1. UNCHANGED <<owner, begin, isFinished_>>
    BY <1>5 DEF ListenerStep, TakeManager, TakeDriver, OnHdiDisconnect, RespondCallbackOnDisconnect,
       VisitCommand, ClearCommands, ConnectUnlocks, CreateExecutor, CreateNoExecutor,
         RegisterExecutor, RegisterExecutorFails, EventDone
  <2>2. CASE ClearCommands(l)
    <3>1. executorList_' = 0 /\ UNCHANGED <<generation, registered>>
      BY <2>2 DEF ClearCommands
    <3> QED
      BY <2>1, <3>1
  <2>3. CASE CreateExecutor(l)
    <3>1. executorList_' = generation + 1 /\ generation' = generation + 1 /\ registered' = registered
      BY <2>3 DEF CreateExecutor
    <3>2. \A c \in Commands : owner'[c] # executorList_'
      BY <2>1, <3>1
    <3> QED
      BY <2>1, <3>1, <3>2
  <2>4. CASE RegisterExecutor(l)
    <3>1. registered' \in {executorList_, registered}
          /\ UNCHANGED <<generation, executorList_, command2Respond_>>
      BY <2>4 DEF RegisterExecutor
    <3> QED
      BY <2>1, <3>1
  <2>5. CASE CreateNoExecutor(l)
    <3>1. generation' = generation + 1 /\ UNCHANGED <<executorList_, registered, command2Respond_>>
      BY <2>5 DEF CreateNoExecutor
    <3> QED
      BY <2>1, <3>1
  <2>6. CASE ~ClearCommands(l) /\ ~CreateExecutor(l) /\ ~CreateNoExecutor(l) /\ ~RegisterExecutor(l)
    <3>1. UNCHANGED <<generation, executorList_, registered, command2Respond_>>
      BY <1>5, <2>6 DEF ListenerStep, TakeManager, TakeDriver, OnHdiDisconnect, RespondCallbackOnDisconnect,
         VisitCommand, ConnectUnlocks, RegisterExecutorFails, EventDone
    <3> QED
      BY <2>1, <3>1
  <2> QED
    BY <2>2, <2>3, <2>4, <2>5, <2>6
<1>6. ASSUME NEW l \in Listeners, NEW e \in {"connect", "disconnect", "ready"}, Occurs(l, e)
      PROVE  OwnerInv' /\ TrackInv'
  BY <1>6 DEF Occurs
<1>7. CASE UNCHANGED vars
  BY <1>7 DEF vars
<1> QED
  BY <1>1, <1>2, <1>3, <1>4, <1>5, <1>6, <1>7 DEF Next

\* A command the driver works on is found by a disconnect: it is in the set of
\* the executor it runs on, until it has been told.
THEOREM WorkIsTracked == Spec => []AcceptedIsTracked
<1>1. Init => OwnerInv /\ TrackInv
  BY DEF Init, OwnerInv, TrackInv, Entered
<1>2. TrackInv => AcceptedIsTracked
  BY DEF TrackInv, AcceptedIsTracked, Accepted, Entered
<1> QED
  BY <1>1, <1>2, TrackSteps, TypeInvariant, OnceInvariant, PTL DEF Spec

(***************************************************************************)
(* The four mutexes: no thread waits for ever, unless the walk is stuck    *)
(***************************************************************************)

\* Where a listener thread has Driver::mutex_.
HoldsDriver == {"null", "walk", "visit", "again", "register", "unlock"}

\* Who holds the mutexes of the manager, the driver and the executor.
LockInv ==
  /\ \A l \in Listeners :
       /\ listener[l] # "clear"
       /\ driverMutex = l <=> listener[l] \in HoldsDriver
       /\ managerMutex = l <=> l # "hdi" /\ listener[l] \notin {"idle", "manager"}
  /\ executorMutex <=> \E l \in Listeners : listener[l] = "visit"

\* A command of the executor in the list, that has begun.
Begun(c) == Current(c) /\ begin[c] # "idle"

\* The walk visits commands of its own executor, with the executor's mutex.
WalkInv ==
  /\ \A c \in command2Respond_ : Begun(c)
  /\ executorMutex => \A c \in left : Begun(c)
  /\ \A c \in Commands :
       /\ onResult[c]["walk"] # "idle" => executorMutex /\ Begun(c)
       /\ onResult[c]["tip"] # "end"

\* What listener l waits for, if anything, is free.
ListenerGoes(l) ==
  /\ listener[l] = "manager" => managerMutex = Free
  /\ listener[l] \in {"driver", "create"} => driverMutex = Free
  /\ listener[l] = "register" => ~executorMutex
  /\ listener[l] = "visit" => \A c \in Commands : onResult[c]["walk"] = "idle"

\* Thread r is in OnResult or OnAcquireInfo of c, and what it waits for is free.
ResultGoes(c, r) ==
  /\ onResult[c][r] # "idle"
  /\ onResult[c][r] = "enter" => commandMutex[c] = Free
  /\ onResult[c][r] = "end" /\ Current(c) => ~executorMutex

\* The IPC thread of c enters or leaves the set of the executor, under its mutex.
BeginGoes(c) == begin[c] \in {"add", "end"} /\ Current(c) => ~executorMutex

\* The walk goes on, or the thread that has the mutex of the command it visits does.
WalkGoes ==
  \E c \in Commands :
    /\ onResult[c]["walk"] # "idle"
    /\ ResultGoes(c, "walk") \/ (commandMutex[c] # Free /\ ResultGoes(c, commandMutex[c]))

\* Who holds the mutex a thread waits for goes on, or waits in turn for one that does:
\* the manager's holder for the driver's, that one for the walk.
NobodyWaitsForEver ==
  WalkStuck \/
    /\ \A l \in Listeners : listener[l] # "idle" =>
         \/ ListenerGoes(l)
         \/ \E k \in Listeners \cap {managerMutex, driverMutex} : ListenerGoes(k)
         \/ WalkGoes
    /\ \A c \in Commands : \A r \in Roles : onResult[c][r] # "idle" =>
         \/ ResultGoes(c, r)
         \/ commandMutex[c] # Free /\ ResultGoes(c, commandMutex[c])
         \/ WalkGoes
         \/ \E k \in Listeners \cap {driverMutex} : ListenerGoes(k)
    /\ \A c \in Commands :
         \/ BeginGoes(c)
         \/ WalkGoes
         \/ \E k \in Listeners \cap {driverMutex} : ListenerGoes(k)

\* The walk that is stuck holds Driver::mutex_ and keeps it.
StuckForEver == WalkStuck => WalkStuck' /\ UNCHANGED <<driverMutex, executorMutex, executorList_, registered>>

\* No thread but the one that waits takes a mutex, and who has one gives it back itself.
LEMMA LockSteps ==
  ASSUME TypeInv, LockInv, [Next]_vars
  PROVE  LockInv'
<1> USE DEF LockInv, HoldsDriver, resultVars, listenerVars, executorVars, frameworkVars
<1>1. CASE UNCHANGED listenerVars
  BY <1>1
<1>2. ASSUME NEW l \in Listeners, NEW c \in Commands, VisitCommand(l, c)
      PROVE  LockInv'
  BY <1>2 DEF VisitCommand
<1>3. ASSUME NEW l \in Listeners, NEW from \in ListenerStates, NEW to \in ListenerStates, ListenerTo(l, from, to),
             to # "clear", to # from,
             \/ from \in {"driver", "create"} /\ driverMutex = Free /\ driverMutex' = l /\ to \in HoldsDriver
             \/ from \in HoldsDriver /\ driverMutex' = Free /\ to \notin HoldsDriver
             \/ (from \in HoldsDriver <=> to \in HoldsDriver) /\ driverMutex' = driverMutex,
             \/ /\ from = "manager" /\ to \notin {"idle", "manager"} /\ managerMutex = Free
                /\ managerMutex' = IF l = "hdi" THEN Free ELSE l
             \/ /\ from \notin {"idle", "manager"} /\ to = "idle"
                /\ managerMutex' = IF managerMutex = l THEN Free ELSE managerMutex
             \/ (from \in {"idle", "manager"} <=> to \in {"idle", "manager"}) /\ managerMutex' = managerMutex,
             \/ from = "walk" /\ to = "visit" /\ executorMutex' = TRUE
             \/ from = "visit" /\ to # "visit" /\ executorMutex' = FALSE
             \/ from # "visit" /\ to # "visit" /\ executorMutex' = executorMutex
      PROVE  LockInv'
  <2>1. listener[l] = from /\ \A k \in Listeners : listener'[k] = IF k = l THEN to ELSE listener[k]
    BY <1>3 DEF ListenerTo, TypeInv, TypeOK
  <2>2. Free \notin Listeners
    BY DEF Free, Listeners
  <2>3. \A k \in Listeners : driverMutex' = k <=> listener'[k] \in HoldsDriver
    BY <1>3, <2>1, <2>2
  <2>4. \A k \in Listeners : managerMutex' = k <=> k # "hdi" /\ listener'[k] \notin {"idle", "manager"}
    BY <1>3, <2>1, <2>2
  <2>5. \A k \in Listeners : k # l => ~(listener[k] = "visit" /\ from \in {"walk", "visit"})
    BY <2>1
  <2>6. executorMutex' <=> \E k \in Listeners : listener'[k] = "visit"
    <3>1. CASE from = "walk" /\ to = "visit" /\ executorMutex' = TRUE
      BY <2>1, <3>1
    <3>2. CASE from = "visit" /\ to # "visit" /\ executorMutex' = FALSE
      BY <2>1, <2>5, <3>2
    <3>3. CASE from # "visit" /\ to # "visit" /\ executorMutex' = executorMutex
      BY <2>1, <3>3
    <3> QED
      BY <1>3, <3>1, <3>2, <3>3
  <2>7. \A k \in Listeners : listener'[k] # "clear"
    BY <1>3, <2>1
  <2> QED
    BY <2>3, <2>4, <2>6, <2>7
<1>4. ASSUME NEW l \in Listeners, ListenerStep(l), \A c \in Commands : ~VisitCommand(l, c)
      PROVE  LockInv'
  <2> USE DEF ListenerStates
  <2> HIDE DEF LockInv
  <2>1. CASE TakeManager(l)
    BY <1>3, <2>1 DEF TakeManager
  <2>2. CASE TakeDriver(l)
    <3>1. PICK to \in {"again", "unlock", "register", "null"} : ListenerTo(l, "driver", to)
      BY <2>2 DEF TakeDriver
    <3> QED
      BY <1>3, <2>2, <3>1 DEF TakeDriver
  <2>3. CASE OnHdiDisconnect(l)
    BY <1>3, <2>3 DEF OnHdiDisconnect
  <2>4. CASE RespondCallbackOnDisconnect(l)
    BY <1>3, <2>4 DEF RespondCallbackOnDisconnect
  <2>5. CASE ClearCommands(l)
    <3>1. PICK to \in {"again", "unlock"} : ListenerTo(l, "visit", to)
      BY <2>5 DEF ClearCommands
    <3> QED
      BY <1>3, <2>5, <3>1 DEF ClearCommands
  <2>6. CASE ConnectUnlocks(l)
    BY <1>3, <2>6 DEF ConnectUnlocks
  <2>7. CASE CreateExecutor(l)
    BY <1>3, <2>7 DEF CreateExecutor
  <2>8. CASE RegisterExecutor(l)
    BY <1>3, <2>8 DEF RegisterExecutor
  <2>9. CASE EventDone(l)
    BY <1>3, <2>9 DEF EventDone
  <2>10. CASE CreateNoExecutor(l)
    BY <1>3, <2>10 DEF CreateNoExecutor
  <2>11. CASE RegisterExecutorFails(l)
    BY <1>3, <2>11 DEF RegisterExecutorFails
  <2> QED
    BY <1>4, <2>1, <2>2, <2>3, <2>4, <2>5, <2>6, <2>7, <2>8, <2>9, <2>10, <2>11 DEF ListenerStep
<1>5. ASSUME NEW l \in Listeners, NEW e \in {"connect", "disconnect", "ready"}, Occurs(l, e)
      PROVE  LockInv'
  BY <1>3, <1>5 DEF Occurs, ListenerStates
<1>6. ASSUME NEW c \in Commands,
             \/ StartProcess(c) \/ BeginStep(c) \/ DriverAnswers(c) \/ OnAcquireInfo(c) \/ OnAcquireInfoEnd(c)
             \/ \E r \in Roles \ {"tip"} : ResultStep(c, r)
      PROVE  UNCHANGED listenerVars
  BY <1>6 DEF StartProcess, BeginStep, DriverAnswers, OnAcquireInfo, OnAcquireInfoEnd, ResultStep, AddCommand,
     SendRequest, SendRequestFails, RefusalReported, EndProcess, GetResult, OnResult, OnResultInner, OnResultEnd
<1> QED
  BY <1>1, <1>2, <1>4, <1>5, <1>6 DEF Next, vars

\* A step that ends no command the walk may visit, and begins no visit.
LEMMA WalkFrame ==
  ASSUME WalkInv, \A c \in Commands : Begun(c) => Begun(c)',
         \A c \in command2Respond_' : c \in command2Respond_ \/ Begun(c)', command2Respond_ \subseteq Commands,
         UNCHANGED executorMutex, left' \subseteq left, left \subseteq Commands,
         \A c \in Commands : /\ onResult'[c]["walk"] # "idle" => onResult[c]["walk"] # "idle"
                             /\ onResult'[c]["tip"] = "end" => onResult[c]["tip"] = "end"
  PROVE  WalkInv'
<1>1. \A c \in command2Respond_' : Begun(c)'
  BY DEF WalkInv
<1>2. executorMutex' => \A c \in left' : Begun(c)'
  BY DEF WalkInv
<1>3. \A c \in Commands : /\ onResult'[c]["walk"] # "idle" => executorMutex' /\ Begun(c)'
                          /\ onResult'[c]["tip"] # "end"
  BY DEF WalkInv
<1> QED
  BY <1>1, <1>2, <1>3, Zenon DEF WalkInv

\* A thread's step in OnResult does nothing to the walk, unless it is the walk's.
LEMMA ResultKeepsWalk ==
  ASSUME TypeInv, WalkInv, NEW c \in Commands, NEW r \in Roles, NEW from \in {"idle", "enter", "inner", "end"},
         NEW to \in {"idle", "enter", "inner", "end"}, ResultTo(c, r, from, to),
         r = "walk" => from # "idle", r = "tip" => to # "end",
         command2Respond_' \subseteq command2Respond_,
         UNCHANGED <<executorList_, owner, executorMutex, left>>,
         \A d \in Commands : begin[d] # "idle" => begin'[d] # "idle"
  PROVE  WalkInv'
<1>1. \A d \in Commands : \A q \in Roles :
        onResult'[d][q] = IF d = c /\ q = r THEN to ELSE onResult[d][q]
  BY ResultIsTyped DEF TypeInv
<1>2. onResult[c][r] = from /\ "walk" \in Roles /\ "tip" \in Roles
  BY DEF ResultTo, Roles
<1>3. \A d \in Commands : Begun(d) => Begun(d)'
  BY DEF Begun, Current
<1>4. command2Respond_ \subseteq Commands /\ left \subseteq Commands
  BY DEF TypeInv, TypeOK
<1>5. \A d \in Commands : /\ onResult'[d]["walk"] # "idle" => onResult[d]["walk"] # "idle"
                          /\ onResult'[d]["tip"] = "end" => onResult[d]["tip"] = "end"
  BY <1>1, <1>2
<1> QED
  BY <1>3, <1>4, <1>5, WalkFrame

LEMMA WalkSteps ==
  ASSUME TypeInv, LockInv, WalkInv, [Next]_vars
  PROVE  WalkInv'
<1> USE DEF executorVars, frameworkVars, resultVars, listenerVars
<1>0. command2Respond_ \subseteq Commands /\ left \subseteq Commands
  BY DEF TypeInv, TypeOK
<1>1. ASSUME NEW c \in Commands, StartProcess(c)
      PROVE  WalkInv'
  <2>1. /\ begin[c] = "idle" /\ \A d \in Commands : d # c => owner'[d] = owner[d] /\ begin'[d] = begin[d]
        /\ UNCHANGED <<executorList_, command2Respond_, executorMutex, left, onResult>>
    BY <1>1 DEF StartProcess, BeginTo, TypeInv, TypeOK
  <2>2. \A d \in Commands : Begun(d) => Begun(d)'
    BY <2>1 DEF Begun, Current
  <2> QED
    BY <1>0, <2>1, <2>2, WalkFrame
<1>2. ASSUME NEW c \in Commands, BeginStep(c)
      PROVE  WalkInv'
  <2>1. /\ UNCHANGED <<executorList_, owner, executorMutex, left>>
        /\ \A d \in Commands : d # c => begin'[d] = begin[d]
        /\ begin'[c] # "idle"
    BY <1>2 DEF BeginStep, AddCommand, SendRequest, SendRequestFails, RefusalReported, EndProcess, GetResult,
       BeginTo, TypeInv, TypeOK
  <2>2. \A d \in Commands : Begun(d) => Begun(d)'
    BY <2>1 DEF Begun, Current
  <2>3. \A d \in command2Respond_' : d \in command2Respond_ \/ Begun(d)'
    <3>1. command2Respond_' \subseteq command2Respond_ \/ (Current(c) /\ command2Respond_' = command2Respond_ \cup {c})
      BY <1>2 DEF BeginStep, AddCommand, SendRequest, SendRequestFails, RefusalReported, EndProcess, GetResult,
         RemoveCommand
    <3>2. Current(c) => Begun(c)'
      BY <2>1 DEF Begun, Current
    <3> QED
      BY <3>1, <3>2
  <2>4. \A d \in Commands : onResult'[d]["walk"] = onResult[d]["walk"] /\ onResult'[d]["tip"] = onResult[d]["tip"]
    <3>1. UNCHANGED onResult \/ onResult' = [onResult EXCEPT ![c]["begin"] = "enter"]
      BY <1>2 DEF BeginStep, AddCommand, SendRequest, SendRequestFails, RefusalReported, EndProcess, GetResult
    <3> QED
      BY <3>1 DEF TypeInv, TypeOK, Roles
  <2> QED
    BY <1>0, <2>1, <2>2, <2>3, <2>4, WalkFrame
<1>3. ASSUME NEW c \in Commands, DriverAnswers(c) \/ OnAcquireInfo(c) \/ OnAcquireInfoEnd(c)
      PROVE  WalkInv'
  BY <1>3, ResultKeepsWalk DEF DriverAnswers, OnAcquireInfo, OnAcquireInfoEnd, Roles
<1>4. ASSUME NEW c \in Commands, NEW r \in Roles \ {"tip"}, ResultStep(c, r)
      PROVE  WalkInv'
  <2>1. CASE OnResult(c, r)
    BY <2>1, ResultKeepsWalk DEF OnResult
  <2>2. CASE OnResultInner(c, r)
    BY <2>2, ResultKeepsWalk DEF OnResultInner
  <2>3. CASE OnResultEnd(c, r)
    BY <2>3, ResultKeepsWalk DEF OnResultEnd, RemoveCommand
  <2> QED
    BY <1>4, <2>1, <2>2, <2>3 DEF ResultStep
<1>5. ASSUME NEW l \in Listeners, ListenerStep(l)
      PROVE  WalkInv'
  <2> DEFINE Still == UNCHANGED <<executorList_, owner, begin, command2Respond_>>
  <2>1. CASE RespondCallbackOnDisconnect(l)
    <3>1. Still /\ left' = command2Respond_ /\ executorMutex' = TRUE /\ UNCHANGED onResult
      BY <2>1 DEF RespondCallbackOnDisconnect
    <3> QED
      BY <3>1 DEF WalkInv, Begun, Current
  <2>2. ASSUME NEW c \in Commands, VisitCommand(l, c)
        PROVE  WalkInv'
    <3>1. Still /\ executorMutex /\ UNCHANGED executorMutex /\ c \in left /\ left' \subseteq left
          /\ ResultTo(c, "walk", "idle", "enter")
      BY <2>2 DEF VisitCommand, LockInv
    <3>2. \A d \in Commands : \A q \in Roles :
            onResult'[d][q] = IF d = c /\ q = "walk" THEN "enter" ELSE onResult[d][q]
      BY <3>1, ResultIsTyped DEF TypeInv, Roles
    <3>3. Begun(c) /\ \A d \in Commands : Begun(d) => Begun(d)'
      BY <3>1 DEF WalkInv, Begun, Current
    <3>4. \A d \in Commands : /\ onResult'[d]["walk"] # "idle" => executorMutex' /\ Begun(d)'
                              /\ onResult'[d]["tip"] # "end"
      BY <3>1, <3>2, <3>3 DEF WalkInv, Roles
    <3>5. (\A d \in command2Respond_' : Begun(d)') /\ (executorMutex' => \A d \in left' : Begun(d)')
      BY <1>0, <3>1, <3>3 DEF WalkInv
    <3> QED
      BY <3>4, <3>5, Zenon DEF WalkInv
  <2>3. CASE ClearCommands(l)
    <3>1. /\ command2Respond_' = {} /\ executorMutex' = FALSE /\ UNCHANGED onResult
          /\ \A c \in Commands : onResult[c]["walk"] = "idle"
      BY <2>3 DEF ClearCommands
    <3> QED
      BY <3>1 DEF WalkInv
  <2>4. CASE CreateExecutor(l)
    <3>1. command2Respond_' = {} /\ driverMutex = Free /\ UNCHANGED <<executorMutex, onResult>>
      BY <2>4 DEF CreateExecutor
    <3>2. ~executorMutex
      BY <3>1 DEF LockInv, HoldsDriver, Free, Listeners
    <3> QED
      BY <3>1, <3>2 DEF WalkInv
  <2>5. CASE /\ ~RespondCallbackOnDisconnect(l) /\ ~ClearCommands(l) /\ ~CreateExecutor(l)
             /\ \A c \in Commands : ~VisitCommand(l, c)
    <3>1. Still /\ UNCHANGED <<executorMutex, left, onResult>>
      BY <1>5, <2>5 DEF ListenerStep, TakeManager, TakeDriver, OnHdiDisconnect, ConnectUnlocks,
         CreateNoExecutor, RegisterExecutor, RegisterExecutorFails, EventDone
    <3> QED
      BY <3>1 DEF WalkInv, Begun, Current
  <2> QED
    BY <2>1, <2>2, <2>3, <2>4, <2>5
<1>6. ASSUME NEW l \in Listeners, NEW e \in {"connect", "disconnect", "ready"}, Occurs(l, e)
      PROVE  WalkInv'
  BY <1>6 DEF Occurs, WalkInv, Begun, Current
<1>7. CASE UNCHANGED vars
  BY <1>7 DEF vars, WalkInv, Begun, Current
<1> QED
  BY <1>1, <1>2, <1>3, <1>4, <1>5, <1>6, <1>7 DEF Next

LEMMA MutexInvariants == Spec => [](TypeInv /\ OnceInv /\ LockInv /\ WalkInv)
<1>1. Init => LockInv /\ WalkInv
  BY DEF Init, LockInv, WalkInv, HoldsDriver, Free, Listeners, Roles
<1> QED
  BY <1>1, LockSteps, WalkSteps, TypeInvariant, OnceInvariant, PTL DEF Spec

\* For any number of commands, connects and answers: a thread of common/executors that waits
\* for a mutex waits for a thread that goes on, or RespondCallbackOnDisconnect has met itself,
\* or a command that ends, in its walk.  The four mutexes make no other circle.
THEOREM MutexesComeFree == Spec => []NobodyWaitsForEver
<1>1. ASSUME TypeInv, OnceInv, LockInv, WalkInv, ~WalkStuck
      PROVE  NobodyWaitsForEver
  <2>1. \A c \in Commands : \A r \in Roles : onResult[c][r] \in {"inner", "end"} <=> commandMutex[c] = r
    BY <1>1 DEF OnceInv, MutexInv
  <2>2. \A c \in Commands : commandMutex[c] \in Roles \cup {Free} /\ Free \notin Roles /\ "walk" \in Roles
    BY <1>1 DEF TypeInv, TypeOK, Free, Roles
  <2>3. \A c \in Commands : \A r \in Roles : onResult[c][r] \in {"idle", "enter", "inner", "end"}
    BY <1>1 DEF TypeInv, TypeOK
  <2>4. ASSUME NEW c \in Commands, onResult[c]["walk"] # "idle"
        PROVE  WalkGoes
    <3>1. executorMutex /\ Current(c)
      BY <1>1, <2>4 DEF WalkInv, Begun
    <3>2. onResult[c]["walk"] # "end"
      BY <1>1, <3>1 DEF WalkStuck
    <3>3. CASE onResult[c]["walk"] = "enter" /\ commandMutex[c] # Free
      <4>1. commandMutex[c] \in Roles /\ onResult[c][commandMutex[c]] = "inner"
        BY <1>1, <2>1, <2>2, <3>1, <3>3 DEF WalkStuck
      <4>2. ResultGoes(c, commandMutex[c])
        BY <4>1 DEF ResultGoes
      <4> QED
        BY <2>4, <3>3, <4>2 DEF WalkGoes
    <3>4. CASE onResult[c]["walk"] = "inner" \/ commandMutex[c] = Free
      <4>1. ResultGoes(c, "walk")
        BY <2>4, <3>2, <3>4 DEF ResultGoes
      <4> QED
        BY <2>4, <4>1 DEF WalkGoes
    <3> QED
      BY <2>2, <2>3, <2>4, <3>2, <3>3, <3>4
  <2>5. ASSUME NEW l \in Listeners, driverMutex = l, ~WalkGoes
        PROVE  ListenerGoes(l)
    <3>1. listener[l] \in HoldsDriver
      BY <1>1, <2>5 DEF LockInv
    <3>2. listener[l] = "register" => ~executorMutex
      BY <1>1, <2>5 DEF LockInv, HoldsDriver
    <3>3. \A c \in Commands : onResult[c]["walk"] = "idle"
      BY <2>4, <2>5
    <3> QED
      BY <3>1, <3>2, <3>3 DEF ListenerGoes, HoldsDriver
  <2>6. ASSUME NEW l \in Listeners, listener[l] \in HoldsDriver, ~WalkGoes
        PROVE  ListenerGoes(l)
    BY <1>1, <2>5, <2>6 DEF LockInv
  <2>7. ASSUME NEW l \in Listeners, listener[l] \notin {"idle", "manager"}, ~WalkGoes
        PROVE  ListenerGoes(l) \/ \E k \in Listeners \cap {driverMutex} : ListenerGoes(k)
    <3>1. CASE driverMutex = Free /\ listener[l] \in {"driver", "create"}
      BY <3>1 DEF ListenerGoes
    <3>2. CASE driverMutex # Free
      <4>1. driverMutex \in Listeners
        BY <1>1, <3>2 DEF TypeInv, TypeOK
      <4> QED
        BY <2>5, <2>7, <4>1
    <3>3. CASE listener[l] \in HoldsDriver
      BY <2>6, <2>7, <3>3
    <3> QED
      BY <1>1, <2>7, <3>1, <3>2, <3>3 DEF LockInv, HoldsDriver, TypeInv, TypeOK, ListenerStates
  <2>8. ASSUME NEW l \in Listeners, listener[l] # "idle", ~WalkGoes
        PROVE  \/ ListenerGoes(l)
               \/ \E k \in Listeners \cap {managerMutex, driverMutex} : ListenerGoes(k)
    <3>1. CASE listener[l] = "manager" /\ managerMutex = Free
      BY <3>1 DEF ListenerGoes
    <3>2. CASE listener[l] = "manager" /\ managerMutex # Free
      <4>1. PICK k \in Listeners : managerMutex = k /\ listener[k] \notin {"idle", "manager"}
        BY <1>1, <3>2 DEF LockInv, TypeInv, TypeOK
      <4> QED
        BY <2>7, <2>8, <4>1
    <3>3. CASE listener[l] # "manager"
      BY <2>7, <2>8, <3>3
    <3> QED
      BY <3>1, <3>2, <3>3
  <2>9. ASSUME executorMutex, ~WalkGoes
        PROVE  \E k \in Listeners \cap {driverMutex} : ListenerGoes(k)
    <3>1. PICK k \in Listeners : listener[k] = "visit" /\ driverMutex = k
      BY <1>1, <2>9 DEF LockInv, HoldsDriver
    <3> QED
      BY <2>5, <2>9, <3>1
  <2>10. ASSUME NEW c \in Commands, NEW r \in Roles, onResult[c][r] # "idle", ~WalkGoes, ~executorMutex
         PROVE  ResultGoes(c, r) \/ (commandMutex[c] # Free /\ ResultGoes(c, commandMutex[c]))
    <3>1. CASE onResult[c][r] = "enter" /\ commandMutex[c] # Free
      <4>1. commandMutex[c] \in Roles /\ onResult[c][commandMutex[c]] \in {"inner", "end"}
        BY <2>1, <2>2, <3>1
      <4>2. ResultGoes(c, commandMutex[c])
        BY <2>10, <4>1 DEF ResultGoes
      <4> QED
        BY <3>1, <4>2
    <3>2. CASE onResult[c][r] # "enter" \/ commandMutex[c] = Free
      BY <2>10, <3>2 DEF ResultGoes
    <3> QED
      BY <3>1, <3>2
  <2>11. ASSUME NEW c \in Commands, ~executorMutex
         PROVE  BeginGoes(c)
    BY <2>11 DEF BeginGoes
  <2> QED
    BY <2>8, <2>9, <2>10, <2>11 DEF NobodyWaitsForEver
<1>2. TypeInv /\ OnceInv /\ LockInv /\ WalkInv => NobodyWaitsForEver
  BY <1>1 DEF NobodyWaitsForEver
<1> QED
  BY <1>2, MutexInvariants, PTL

\* A walk that is stuck is so for ever: no answer of the driver, no command and no listener
\* frees it, and since it has Driver::mutex_ and the executor's, no connect and no notice of
\* the framework registers an executor again.
THEOREM StuckIsFinal == Spec => [][StuckForEver]_vars
<1>1. ASSUME TypeInv, BeginInv, OnceInv, LockInv, WalkInv, [Next]_vars, WalkStuck
      PROVE  WalkStuck' /\ UNCHANGED <<driverMutex, executorMutex, executorList_, registered>>
  <2>1. PICK c \in Commands :
          /\ executorMutex /\ Current(c)
          /\ \/ onResult[c]["walk"] = "end"
             \/ /\ onResult[c]["walk"] = "enter" /\ commandMutex[c] # Free
                /\ onResult[c][commandMutex[c]] = "end"
    BY <1>1 DEF WalkStuck
  <2>2. begin[c] # "idle" /\ onResult[c]["walk"] # "idle"
    BY <1>1, <2>1 DEF WalkInv, Begun
  <2>3. PICK r \in Roles \ {"tip"} :
          commandMutex[c] = r /\ onResult[c][r] = "end" /\ (r = "walk" \/ onResult[c]["walk"] = "enter")
    BY <1>1, <2>1 DEF OnceInv, MutexInv, WalkInv, TypeInv, TypeOK, Roles
  <2>4. \A q \in Roles : onResult[c][q] \in {"inner", "end"} => q = r
    BY <1>1, <2>3 DEF OnceInv, MutexInv
  <2>5. PICK k \in Listeners : listener[k] = "visit" /\ driverMutex = k
    BY <1>1, <2>1 DEF LockInv, HoldsDriver
  <2>6. Free \notin Roles /\ Free \notin Listeners
    BY DEF Free, Roles, Listeners
  <2> USE DEF executorVars, frameworkVars, resultVars, listenerVars
  <2> DEFINE Kept == UNCHANGED <<driverMutex, executorMutex, executorList_, registered>>
  <2>7. ASSUME NEW d \in Commands, NEW q \in Roles, NEW from, NEW to \in {"idle", "enter", "inner", "end"},
               ResultTo(d, q, from, to), d = c => q \notin {"walk", r},
               commandMutex'[c] = commandMutex[c], UNCHANGED <<executorMutex, executorList_>>, owner'[c] = owner[c]
        PROVE  WalkStuck'
    <3>1. \A p \in Roles : onResult'[c][p] = IF c = d /\ p = q THEN to ELSE onResult[c][p]
      BY <1>1, <2>7, ResultIsTyped DEF TypeInv
    <3>2. /\ onResult'[c][r] = "end" /\ onResult'[c]["walk"] = onResult[c]["walk"] /\ commandMutex'[c] = r
          /\ executorMutex' /\ Current(c)'
      BY <2>1, <2>3, <2>7, <3>1 DEF Roles, Current
    <3> QED
      BY <2>3, <2>6, <3>2 DEF WalkStuck
  <2>8. ASSUME UNCHANGED <<onResult, commandMutex, executorMutex, executorList_>>, owner'[c] = owner[c]
        PROVE  WalkStuck'
    BY <2>1, <2>8 DEF WalkStuck, Current
  <2>9. ASSUME NEW d \in Commands, StartProcess(d) \/ BeginStep(d)
        PROVE  WalkStuck' /\ Kept
    <3>1. Kept /\ UNCHANGED commandMutex /\ owner'[c] = owner[c]
      BY <1>1, <2>2, <2>9 DEF StartProcess, BeginStep, AddCommand, SendRequest, SendRequestFails, RefusalReported,
         EndProcess, GetResult, BeginTo, TypeInv, TypeOK
    <3>2. CASE UNCHANGED onResult
      BY <2>8, <3>1, <3>2
    <3>3. CASE ~UNCHANGED onResult
      <4>1. begin[d] = "send" /\ onResult' = [onResult EXCEPT ![d]["begin"] = "enter"]
        BY <2>9, <3>3 DEF StartProcess, BeginStep, AddCommand, SendRequest, SendRequestFails, RefusalReported,
           EndProcess, GetResult, BeginTo
      <4>2. ResultTo(d, "begin", "idle", "enter") /\ (d = c => r # "begin")
        BY <1>1, <2>3, <4>1 DEF BeginInv, ResultTo
      <4> QED
        BY <2>7, <3>1, <4>2 DEF Roles
    <3> QED
      BY <3>2, <3>3
  <2>10. ASSUME NEW d \in Commands, DriverAnswers(d) \/ OnAcquireInfo(d) \/ OnAcquireInfoEnd(d)
         PROVE  WalkStuck' /\ Kept
    <3>1. Kept /\ UNCHANGED owner
      BY <2>10 DEF DriverAnswers, OnAcquireInfo, OnAcquireInfoEnd
    <3>2. CASE DriverAnswers(d)
      <4>1. ResultTo(d, "driver", "idle", "enter") /\ UNCHANGED commandMutex /\ (d = c => r # "driver")
        BY <2>3, <3>2 DEF DriverAnswers, ResultTo
      <4> QED
        BY <2>7, <3>1, <4>1 DEF Roles
    <3>3. CASE OnAcquireInfo(d)
      <4>1. ResultTo(d, "tip", "idle", "inner") /\ commandMutex' = [commandMutex EXCEPT ![d] = "tip"] /\ d # c
        BY <2>3, <2>6, <3>3 DEF OnAcquireInfo
      <4>2. commandMutex'[c] = commandMutex[c]
        BY <1>1, <4>1 DEF TypeInv, TypeOK
      <4> QED
        BY <2>7, <3>1, <4>1, <4>2 DEF Roles
    <3>4. CASE OnAcquireInfoEnd(d)
      <4>1. ResultTo(d, "tip", "inner", "idle") /\ commandMutex' = [commandMutex EXCEPT ![d] = Free] /\ d # c
        BY <2>4, <3>4 DEF OnAcquireInfoEnd, ResultTo, Roles
      <4>2. commandMutex'[c] = commandMutex[c]
        BY <1>1, <4>1 DEF TypeInv, TypeOK
      <4> QED
        BY <2>7, <3>1, <4>1, <4>2 DEF Roles
    <3> QED
      BY <2>10, <3>2, <3>3, <3>4
  <2>11. ASSUME NEW d \in Commands, NEW q \in Roles \ {"tip"}, ResultStep(d, q)
         PROVE  WalkStuck' /\ Kept
    <3>1. Kept /\ UNCHANGED owner
      BY <2>11 DEF ResultStep, OnResult, OnResultInner, OnResultEnd
    <3>2. d # c
      <4>1. ~OnResult(c, q)
        BY <2>3, <2>6 DEF OnResult
      <4>2. ~OnResultInner(c, q)
        BY <2>3, <2>4 DEF OnResultInner, ResultTo
      <4>3. ~OnResultEnd(c, q)
        BY <2>1 DEF OnResultEnd, RemoveCommand
      <4> QED
        BY <2>11, <4>1, <4>2, <4>3 DEF ResultStep
    <3>3. commandMutex'[c] = commandMutex[c]
      BY <1>1, <2>11, <3>2 DEF ResultStep, OnResult, OnResultInner, OnResultEnd, TypeInv, TypeOK
    <3>4. \E from : \E to \in {"idle", "enter", "inner", "end"} : ResultTo(d, q, from, to)
      BY <2>11 DEF ResultStep, OnResult, OnResultInner, OnResultEnd
    <3> QED
      BY <2>7, <3>1, <3>2, <3>3, <3>4
  <2>12. ASSUME NEW l \in Listeners, ListenerStep(l)
         PROVE  WalkStuck' /\ Kept
    <3>1. driverMutex # Free /\ (listener[l] \in HoldsDriver => listener[l] = "visit")
      BY <1>1, <2>5, <2>6 DEF LockInv
    <3>2. \A d \in Commands : ~VisitCommand(l, d)
      BY <2>2 DEF VisitCommand
    <3>3. /\ ~TakeDriver(l) /\ ~CreateExecutor(l) /\ ~CreateNoExecutor(l) /\ ~ClearCommands(l)
          /\ ~RegisterExecutor(l) /\ ~RegisterExecutorFails(l)
          /\ ~ConnectUnlocks(l) /\ ~EventDone(l) /\ ~OnHdiDisconnect(l) /\ ~RespondCallbackOnDisconnect(l)
      BY <2>1, <2>2, <3>1 DEF TakeDriver, CreateExecutor, CreateNoExecutor, RegisterExecutor,
         RegisterExecutorFails, ClearCommands, ConnectUnlocks, EventDone,
         OnHdiDisconnect, RespondCallbackOnDisconnect, ListenerTo, HoldsDriver
    <3>4. TakeManager(l)
      BY <2>12, <3>2, <3>3 DEF ListenerStep
    <3> QED
      BY <2>8, <3>4 DEF TakeManager
  <2>13. ASSUME NEW l \in Listeners, NEW e \in {"connect", "disconnect", "ready"}, Occurs(l, e)
         PROVE  WalkStuck' /\ Kept
    BY <2>8, <2>13 DEF Occurs
  <2>14. CASE UNCHANGED vars
    BY <2>8, <2>14 DEF vars
  <2> QED
    BY <1>1, <2>9, <2>10, <2>11, <2>12, <2>13, <2>14 DEF Next
<1>2. TypeInv /\ BeginInv /\ OnceInv /\ LockInv /\ WalkInv /\ [Next]_vars => StuckForEver
  BY <1>1 DEF StuckForEver
<1> QED
  BY <1>2, BeginInvariant, MutexInvariants, PTL DEF Spec
=============================================================================
