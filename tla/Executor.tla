------------------------------ MODULE Executor ------------------------------
(***************************************************************************)
(* common/executors: one driver with one executor, the commands that run   *)
(* on it, and the mutexes of DriverManager, Driver, Executor and           *)
(* AsyncCommandBase.  A command is begun by an IPC thread of the framework,*)
(* answered by the driver's callback threads, and ended by the thread that *)
(* learns of a disconnect.  A std::mutex that its own thread locks again   *)
(* never comes free: that is what the build does.                          *)
(***************************************************************************)
EXTENDS Naturals, FiniteSets

CONSTANTS
  Commands,       \* commands, one per OnBeginExecute or OnSetProperty
  MaxConnects,    \* bound on OnHdiConnect
  MaxAnswers      \* bound on the driver's OnResult calls for one command

ASSUME ExecutorAssumption ==
  /\ MaxConnects \in Nat
  /\ MaxAnswers \in Nat

VARIABLES
  kind,             \* kind[c]: "messenger" (enroll, auth, identify) or "custom"
  generation,       \* counts the rounds of OnHdiConnect, of one Executor object each
  executorList_,    \* the Executor in the driver's list: its generation, or 0
  executorHdi_,     \* is executorHdi_ of that executor set?
  registered,       \* the generation the framework has a callback of
  unregistered,     \* the last generation that came to no callback of the framework, or 0
  command2Respond_, \* of the executor in the list
  owner,            \* owner[c]: the generation c runs on
  begin,            \* begin[c]: where the IPC thread in StartProcess stands
  isFinished_,      \* isFinished_[c]
  onResult,         \* onResult[c][r]: where thread r stands in OnResult
  answers,          \* answers[c]: how often the driver called OnResult
  told,             \* told[c]: how often c called Finish, or set its promise
  commandMutex,     \* commandMutex[c]: the thread that holds mutex_ of c
  executorMutex,    \* is mutex_ of the executor held by the walk?
  driverMutex,      \* the listener thread that holds Driver::mutex_
  managerMutex,     \* the listener thread that holds DriverManager::mutex_
  event,            \* event[l]: the event listener thread l handles
  listener,         \* listener[l]: where it stands
  left              \* commands RespondCallbackOnDisconnect has yet to visit

vars == <<kind, generation, executorList_, executorHdi_, registered, unregistered,
          command2Respond_, owner, begin, isFinished_, onResult, answers, told, commandMutex,
          executorMutex, driverMutex, managerMutex, event, listener, left>>

frameworkVars == <<registered, unregistered>>
executorVars == <<generation, executorList_, executorHdi_, frameworkVars>>
resultVars   == <<isFinished_, onResult, answers, told, commandMutex>>
listenerVars == <<executorMutex, driverMutex, managerMutex, event, listener, left>>

\* The HDI status listener, the system ability listener, the parameter watch.
Listeners == {"hdi", "ability", "param"}

\* Who may be inside a command: the IPC thread, two threads of the driver, and
\* the listener thread that walks over the commands.
Roles == {"begin", "driver", "tip", "walk"}

Free == "free"

BeginStates == {"idle", "add", "send", "refused", "end", "wait", "failed", "returned"}

ListenerStates == {"idle", "manager", "driver", "null", "walk", "visit", "clear",
                   "again", "create", "register", "unlock"}

TypeOK ==
  /\ kind \in [Commands -> {"messenger", "custom"}]
  /\ generation \in 0..MaxConnects
  /\ executorList_ \in 0..MaxConnects /\ registered \in 0..MaxConnects
  /\ unregistered \in 0..MaxConnects
  /\ executorHdi_ \in BOOLEAN
  /\ command2Respond_ \in SUBSET Commands /\ left \in SUBSET Commands
  /\ owner \in [Commands -> 0..MaxConnects]
  /\ begin \in [Commands -> BeginStates]
  /\ isFinished_ \in [Commands -> BOOLEAN]
  /\ onResult \in [Commands -> [Roles -> {"idle", "enter", "inner", "end"}]]
  /\ answers \in [Commands -> 0..MaxAnswers]
  /\ told \in [Commands -> Nat]
  /\ commandMutex \in [Commands -> Roles \cup {Free}]
  /\ executorMutex \in BOOLEAN
  /\ driverMutex \in Listeners \cup {Free} /\ managerMutex \in Listeners \cup {Free}
  /\ event \in [Listeners -> {"none", "connect", "disconnect", "ready"}]
  /\ listener \in [Listeners -> ListenerStates]

Init ==
  /\ kind \in [Commands -> {"messenger", "custom"}]
  /\ generation = 0 /\ executorList_ = 0 /\ registered = 0
  /\ executorHdi_ = FALSE /\ unregistered = 0
  /\ command2Respond_ = {} /\ left = {}
  /\ owner = [c \in Commands |-> 0]
  /\ begin = [c \in Commands |-> "idle"]
  /\ isFinished_ = [c \in Commands |-> FALSE]
  /\ onResult = [c \in Commands |-> [r \in Roles |-> "idle"]]
  /\ answers = [c \in Commands |-> 0]
  /\ told = [c \in Commands |-> 0]
  /\ commandMutex = [c \in Commands |-> Free]
  /\ executorMutex = FALSE
  /\ driverMutex = Free /\ managerMutex = Free
  /\ event = [l \in Listeners |-> "none"]
  /\ listener = [l \in Listeners |-> "idle"]

(***************************************************************************)
(* StartProcess, on an IPC thread of the framework                         *)
(***************************************************************************)

BeginTo(c, from, to) ==
  /\ begin[c] = from
  /\ begin' = [begin EXCEPT ![c] = to]

\* The executor of c: an old one is gone from the list, nobody shares its mutex.
Current(c) == owner[c] = executorList_

\* OnBeginExecute or OnSetProperty through the callback the framework has: it
\* fails at once when the callback's executor has been released.
StartProcess(c) ==
  /\ registered # 0
  /\ BeginTo(c, "idle", IF registered = executorList_ THEN "add" ELSE "failed")
  /\ owner' = [owner EXCEPT ![c] = registered]
  /\ UNCHANGED <<kind, executorVars, command2Respond_, resultVars, listenerVars>>

\* Mutant: the command is handed to the driver and never entered in the set.
AddCommandForgotten(c) ==
  /\ BeginTo(c, "add", "send")
  /\ Current(c) => ~executorMutex
  /\ UNCHANGED <<kind, executorVars, command2Respond_, owner, resultVars, listenerVars>>

AddCommand(c) ==
  /\ BeginTo(c, "add", "send")
  /\ Current(c) => ~executorMutex
  /\ command2Respond_' = IF Current(c) THEN command2Respond_ \cup {c} ELSE command2Respond_
  /\ UNCHANGED <<kind, executorVars, owner, resultVars, listenerVars>>

\* The driver takes the request; a custom command then waits for its promise.
SendRequest(c) ==
  /\ Current(c) /\ executorHdi_
  /\ BeginTo(c, "send", IF kind[c] = "custom" THEN "wait" ELSE "returned")
  /\ UNCHANGED <<kind, executorVars, command2Respond_, owner, resultVars, listenerVars>>

\* No driver, or it refuses; CustomCommand::SendRequest then calls OnResult.
SendRequestFails(c) ==
  /\ \/ BeginTo(c, "send", "end") /\ UNCHANGED onResult
     \/ /\ Current(c) /\ executorHdi_ /\ kind[c] = "custom"
        /\ BeginTo(c, "send", "refused")
        /\ onResult' = [onResult EXCEPT ![c]["begin"] = "enter"]
  /\ UNCHANGED <<kind, executorVars, command2Respond_, owner, isFinished_, answers, told,
                 commandMutex, listenerVars>>

RefusalReported(c) ==
  /\ onResult[c]["begin"] = "idle"
  /\ BeginTo(c, "refused", "end")
  /\ UNCHANGED <<kind, executorVars, command2Respond_, owner, resultVars, listenerVars>>

\* RemoveCommand, which AsyncCommandBase::EndProcess calls.
RemoveCommand(c) ==
  /\ Current(c) => ~executorMutex
  /\ command2Respond_' = IF Current(c) THEN command2Respond_ \ {c} ELSE command2Respond_

EndProcess(c) ==
  /\ BeginTo(c, "end", "failed")
  /\ RemoveCommand(c)
  /\ UNCHANGED <<kind, executorVars, owner, resultVars, listenerVars>>

\* CustomCommand::GetResult: the promise is set, or one second is over.
GetResult(c) ==
  /\ BeginTo(c, "wait", "returned") \/ BeginTo(c, "wait", "failed")
  /\ begin'[c] = "returned" => told[c] > 0
  /\ UNCHANGED <<kind, executorVars, command2Respond_, owner, resultVars, listenerVars>>

(***************************************************************************)
(* AsyncCommandBase::OnResult and OnAcquireInfo                            *)
(***************************************************************************)

ResultTo(c, r, from, to) ==
  /\ onResult[c][r] = from
  /\ onResult' = [onResult EXCEPT ![c][r] = to]

\* The driver has taken the request of c.
Accepted(c) == begin[c] \in {"wait", "returned"}

DriverAnswers(c) ==
  /\ Accepted(c) \/ (begin[c] = "send" /\ Current(c) /\ executorHdi_)
  /\ answers[c] < MaxAnswers
  /\ ResultTo(c, "driver", "idle", "enter")
  /\ answers' = [answers EXCEPT ![c] = @ + 1]
  /\ UNCHANGED <<kind, executorVars, command2Respond_, owner, begin, isFinished_, told,
                 commandMutex, listenerVars>>

\* Mutant: the test of isFinished_ is made before the mutex is taken.
OnResultUnchecked(c, r) ==
  /\ commandMutex[c] = Free
  /\ ResultTo(c, r, "enter", "inner")
  /\ isFinished_' = [isFinished_ EXCEPT ![c] = TRUE]
  /\ commandMutex' = [commandMutex EXCEPT ![c] = r]
  /\ UNCHANGED <<kind, executorVars, command2Respond_, owner, begin, answers, told, listenerVars>>

\* Mutant: OnResult does not take the command's mutex.
OnResultUnlocked(c, r) ==
  /\ ResultTo(c, r, "enter", IF isFinished_[c] THEN "idle" ELSE "inner")
  /\ isFinished_' = [isFinished_ EXCEPT ![c] = TRUE]
  /\ UNCHANGED <<kind, executorVars, command2Respond_, owner, begin, answers, told, commandMutex,
                 listenerVars>>

OnResult(c, r) ==
  /\ commandMutex[c] = Free
  /\ \/ /\ isFinished_[c]
        /\ ResultTo(c, r, "enter", "idle")
        /\ UNCHANGED <<isFinished_, commandMutex>>
     \/ /\ ~isFinished_[c]
        /\ ResultTo(c, r, "enter", "inner")
        /\ isFinished_' = [isFinished_ EXCEPT ![c] = TRUE]
        /\ commandMutex' = [commandMutex EXCEPT ![c] = r]
  /\ UNCHANGED <<kind, executorVars, command2Respond_, owner, begin, answers, told, listenerVars>>

\* MessengerFinish, or SetResult of a custom command.
OnResultInner(c, r) ==
  /\ ResultTo(c, r, "inner", "end")
  /\ told' = [told EXCEPT ![c] = @ + 1]
  /\ UNCHANGED <<kind, executorVars, command2Respond_, owner, begin, isFinished_, answers,
                 commandMutex, listenerVars>>

\* EndProcess inside OnResult; the walk comes here with the executor's mutex in
\* its own hands and waits for itself.
OnResultEnd(c, r) ==
  /\ ResultTo(c, r, "end", "idle")
  /\ RemoveCommand(c)
  /\ commandMutex' = [commandMutex EXCEPT ![c] = Free]
  /\ UNCHANGED <<kind, executorVars, owner, begin, isFinished_, answers, told, listenerVars>>

\* OnAcquireInfo; SendData goes out with the command's mutex held.
OnAcquireInfo(c) ==
  /\ Accepted(c)
  /\ commandMutex[c] = Free /\ ~isFinished_[c]
  /\ ResultTo(c, "tip", "idle", "inner")
  /\ commandMutex' = [commandMutex EXCEPT ![c] = "tip"]
  /\ UNCHANGED <<kind, executorVars, command2Respond_, owner, begin, isFinished_, answers, told,
                 listenerVars>>

\* Mutant: a mutex that is not released on the way out.
OnAcquireInfoEndKeepsMutex(c) ==
  /\ ResultTo(c, "tip", "inner", "idle")
  /\ UNCHANGED <<kind, executorVars, command2Respond_, owner, begin, isFinished_, answers, told,
                 commandMutex, listenerVars>>

OnAcquireInfoEnd(c) ==
  /\ ResultTo(c, "tip", "inner", "idle")
  /\ commandMutex' = [commandMutex EXCEPT ![c] = Free]
  /\ UNCHANGED <<kind, executorVars, command2Respond_, owner, begin, isFinished_, answers, told,
                 listenerVars>>

(***************************************************************************)
(* Events: the driver comes and goes, the framework is ready               *)
(***************************************************************************)

ListenerTo(l, from, to) ==
  /\ listener[l] = from
  /\ listener' = [listener EXCEPT ![l] = to]

\* SERVIE_STATUS_START and _STOP go to the HDI listener, OnRemoveSystemAbility
\* to the ability listener, the parameter to the watch.
Occurs(l, e) ==
  /\ <<l, e>> \in {<<"hdi", "connect">>, <<"hdi", "disconnect">>, <<"ability", "disconnect">>,
                   <<"param", "ready">>}
  /\ e = "connect" => generation < MaxConnects
  /\ e = "disconnect" => executorList_ # 0
  /\ ListenerTo(l, "idle", "manager")
  /\ event' = [event EXCEPT ![l] = e]
  /\ UNCHANGED <<kind, executorVars, command2Respond_, owner, begin, resultVars, executorMutex,
                 driverMutex, managerMutex, left>>

\* GetDriverByServiceName holds DriverManager::mutex_ for the lookup only,
\* OnAllHdiDisconnect and OnFrameworkReady for all of their work.
TakeManager(l) ==
  /\ managerMutex = Free
  /\ managerMutex' = IF l = "hdi" THEN Free ELSE l
  /\ ListenerTo(l, "manager", "driver")
  /\ UNCHANGED <<kind, executorVars, command2Respond_, owner, begin, resultVars, executorMutex,
                 driverMutex, event, left>>

\* Driver::OnHdiDisconnect, which OnHdiConnect calls first, and OnFrameworkReady
TakeDriver(l) ==
  /\ driverMutex = Free
  /\ driverMutex' = l
  /\ ListenerTo(l, "driver", IF executorList_ = 0
                             THEN IF event[l] = "connect" THEN "again" ELSE "unlock"
                             ELSE IF event[l] = "ready" THEN "register" ELSE "null")
  /\ UNCHANGED <<kind, executorVars, command2Respond_, owner, begin, resultVars, executorMutex,
                 managerMutex, event, left>>

\* Executor::OnHdiDisconnect
OnHdiDisconnect(l) ==
  /\ ListenerTo(l, "null", "walk")
  /\ executorHdi_' = FALSE
  /\ UNCHANGED <<kind, generation, executorList_, frameworkVars, command2Respond_, owner, begin,
                 resultVars, executorMutex, driverMutex, managerMutex, event, left>>

\* RespondCallbackOnDisconnect takes the executor's mutex and visits each command.
RespondCallbackOnDisconnect(l) ==
  /\ ListenerTo(l, "walk", "visit")
  /\ executorMutex' = TRUE
  /\ left' = command2Respond_
  /\ UNCHANGED <<kind, executorVars, command2Respond_, owner, begin, resultVars, driverMutex,
                 managerMutex, event>>

VisitCommand(l, c) ==
  /\ listener[l] = "visit" /\ c \in left
  /\ \A d \in Commands : onResult[d]["walk"] = "idle"
  /\ left' = left \ {c}
  /\ ResultTo(c, "walk", "idle", "enter")
  /\ UNCHANGED <<kind, executorVars, command2Respond_, owner, begin, isFinished_, answers, told,
                 commandMutex, executorMutex, driverMutex, managerMutex, event, listener>>

\* command2Respond_.clear(), the mutexes go, executorList_.clear().
ClearCommands(l) ==
  /\ left = {} /\ \A c \in Commands : onResult[c]["walk"] = "idle"
  /\ ListenerTo(l, "visit", IF event[l] = "connect" THEN "again" ELSE "unlock")
  /\ executorMutex' = FALSE
  /\ command2Respond_' = {}
  /\ executorList_' = 0
  /\ UNCHANGED <<kind, generation, executorHdi_, frameworkVars, owner, begin, resultVars,
                 driverMutex, managerMutex, event, left>>

\* OnHdiConnect lets go of Driver::mutex_ and takes it again.
ConnectUnlocks(l) ==
  /\ ListenerTo(l, "again", "create")
  /\ driverMutex' = Free
  /\ UNCHANGED <<kind, executorVars, command2Respond_, owner, begin, resultVars, executorMutex,
                 managerMutex, event, left>>

\* A new Executor object with the driver's HDI.
CreateExecutor(l) ==
  /\ driverMutex = Free
  /\ driverMutex' = l
  /\ ListenerTo(l, "create", "register")
  /\ generation' = generation + 1
  /\ executorList_' = generation + 1
  /\ executorHdi_' = TRUE
  /\ command2Respond_' = {}
  /\ UNCHANGED <<kind, frameworkVars, owner, begin, resultVars, executorMutex, managerMutex,
                 event, left>>

\* The driver names no executor, or none can be made.
CreateNoExecutor(l) ==
  /\ driverMutex = Free
  /\ driverMutex' = l
  /\ ListenerTo(l, "create", "unlock")
  /\ generation' = generation + 1
  /\ unregistered' = generation + 1
  /\ UNCHANGED <<kind, executorList_, executorHdi_, registered, command2Respond_, owner, begin,
                 resultVars, executorMutex, managerMutex, event, left>>

\* Mutant: only the first executor is registered.
RegisterExecutorOnce(l) ==
  /\ ~executorMutex
  /\ ListenerTo(l, "register", "unlock")
  /\ registered' = IF executorHdi_ /\ registered = 0 THEN executorList_ ELSE registered
  /\ UNCHANGED <<kind, generation, executorList_, executorHdi_, unregistered, command2Respond_,
                 owner, begin, resultVars, executorMutex, driverMutex, managerMutex, event, left>>

\* Executor::OnFrameworkReady and RegisterExecutorCallback: it takes the
\* executor's mutex once, for the callback object.
RegisterExecutor(l) ==
  /\ executorHdi_ /\ ~executorMutex
  /\ ListenerTo(l, "register", "unlock")
  /\ registered' = executorList_ /\ unregistered' = 0
  /\ UNCHANGED <<kind, generation, executorList_, executorHdi_, command2Respond_, owner, begin,
                 resultVars, executorMutex, driverMutex, managerMutex, event, left>>

\* No HDI, no executor info from it, or the framework does not take the callback.
RegisterExecutorFails(l) ==
  /\ ListenerTo(l, "register", "unlock")
  /\ unregistered' = executorList_
  /\ UNCHANGED <<kind, generation, executorList_, executorHdi_, registered, command2Respond_,
                 owner, begin, resultVars, executorMutex, driverMutex, managerMutex, event, left>>

EventDone(l) ==
  /\ ListenerTo(l, "unlock", "idle")
  /\ driverMutex' = Free
  /\ managerMutex' = IF managerMutex = l THEN Free ELSE managerMutex
  /\ event' = [event EXCEPT ![l] = "none"]
  /\ UNCHANGED <<kind, executorVars, command2Respond_, owner, begin, resultVars, executorMutex,
                 left>>

BeginStep(c) ==
  \/ AddCommand(c) \/ SendRequest(c) \/ SendRequestFails(c) \/ RefusalReported(c)
  \/ EndProcess(c) \/ GetResult(c)

ResultStep(c, r) == OnResult(c, r) \/ OnResultInner(c, r) \/ OnResultEnd(c, r)

ListenerStep(l) ==
  \/ TakeManager(l) \/ TakeDriver(l) \/ OnHdiDisconnect(l) \/ RespondCallbackOnDisconnect(l)
  \/ (\E c \in Commands : VisitCommand(l, c)) \/ ClearCommands(l) \/ ConnectUnlocks(l)
  \/ CreateExecutor(l) \/ CreateNoExecutor(l) \/ RegisterExecutor(l)
  \/ RegisterExecutorFails(l) \/ EventDone(l)

Next ==
  \/ \E c \in Commands :
       \/ StartProcess(c) \/ BeginStep(c) \/ DriverAnswers(c)
       \/ OnAcquireInfo(c) \/ OnAcquireInfoEnd(c)
       \/ \E r \in Roles \ {"tip"} : ResultStep(c, r)
  \/ \E l \in Listeners :
       ListenerStep(l) \/ \E e \in {"connect", "disconnect", "ready"} : Occurs(l, e)

\* Threads run on, and a mutex that comes free again and again is granted.
Fairness ==
  /\ \A c \in Commands :
       /\ WF_vars(BeginStep(c)) /\ WF_vars(OnAcquireInfoEnd(c))
       /\ \A r \in Roles \ {"tip"} : SF_vars(ResultStep(c, r))
  /\ \A l \in Listeners : SF_vars(ListenerStep(l))

Spec == Init /\ [][Next]_vars

FairSpec == Spec /\ Fairness

(***************************************************************************)
(* Properties                                                              *)
(***************************************************************************)

\* Whatever the driver repeats and however a disconnect races it, a command
\* tells the framework once: a second Finish would take the schedule's count
\* of another executor, a second set_value on the promise throws.
FinishOnce == \A c \in Commands : told[c] <= 1

\* A command has one message to the framework on its way at a time, and none
\* beside its Finish: the executor side of what LastExecutorReports of module
\* CoAuth relies on.
OneMessageAtATime ==
  \A c \in Commands : Cardinality({r \in Roles : onResult[c][r] \in {"inner", "end"}}) <= 1

\* A command the driver works on is in command2Respond_ of its executor, so a
\* disconnect finds it.
AcceptedIsTracked ==
  \A c \in Commands :
    Accepted(c) /\ Current(c) /\ ~isFinished_[c] => c \in command2Respond_

\* A command that was answered by its driver reaches the framework.
AnswerReachesFramework == \A c \in Commands : answers[c] > 0 ~> told[c] > 0

\* The thread in RespondCallbackOnDisconnect waits for a mutex for ever: for
\* executorMutex, which it holds itself, or for that of a command whose thread
\* waits for executorMutex.
WalkStuck ==
  \E c \in Commands :
    /\ executorMutex /\ Current(c)
    /\ \/ onResult[c]["walk"] = "end"
       \/ /\ onResult[c]["walk"] = "enter" /\ commandMutex[c] # Free
          /\ onResult[c][commandMutex[c]] = "end"

\* A connect event comes to the listener after g rounds of OnHdiConnect.
Connects(g) ==
  event["hdi"] = "connect" /\ listener["hdi"] = "manager" /\ generation = g

\* After a connect the new executor is registered, however disconnects, commands
\* and the framework's readiness interleave, unless the driver names none, its
\* registration fails, or the walk over unfinished commands is stuck: no other
\* order of the four mutexes stops the listeners. (driver.cpp:34-84,
\* executor.cpp:48-128)
ReconnectRegisters ==
  \A g \in 0..(MaxConnects - 1) :
    Connects(g) ~> registered > g \/ g + 1 = unregistered \/ WalkStuck
=============================================================================
