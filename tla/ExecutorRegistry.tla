-------------------------- MODULE ExecutorRegistry --------------------------
(***************************************************************************)
(* How executors of one type come to be in the resource pool of co_auth,   *)
(* and how they leave it.  An executor process registers when its driver   *)
(* connects and when the service sends its boot event; Driver::mutex_ is   *)
(* held for the whole of it, so a process registers once at a time.  The   *)
(* process and the service may die at any step.  Every start of the        *)
(* service begins with an empty pool; the device behind it keeps what it   *)
(* was told.  A process that dies does not come back: one that starts      *)
(* again is another element of Processes.                                  *)
(***************************************************************************)
EXTENDS Naturals, FiniteSetsExt

CONSTANTS
  Processes,      \* executor processes, each with one driver and one executor
  Ids,            \* executor ids the device draws from, never one twice
  MaxConnects,    \* bound on OnHdiConnect in one process
  MaxStarts       \* bound on the starts of the service

ASSUME RegistryAssumption ==
  /\ Ids \subseteq Nat
  /\ MaxConnects \in Nat
  /\ MaxStarts \in Nat

VARIABLES
  service,            \* "up" or "down"
  start,              \* the number of its last start
  booted,             \* processes the boot event is on its way to
  process,            \* process[p]: "absent", "alive" or "dead"
  generation,         \* generation[p]: counts the Executor objects of p
  executorList_,      \* executorList_[p]: the one in the driver's list, or 0
  executorMessenger_, \* executorMessenger_[p]: the start the messenger of its callback is of
  proxy_,             \* proxy_[p]: the start the cached proxy is of, or 0
  register,           \* register[p]: where the registration of p stands
  proxy,              \* proxy[p]: the proxy that registration uses
  executorId,         \* executorId[p]: the id the device gave it
  returned,           \* returned[p]: how the last registration of p ended
  spent,              \* ids the device has given
  device,             \* ids of the executors the device has
  authResPool_,       \* executor id -> callback, as process and Executor object
  watched,            \* <<id, process>>: death recipients of the service
  died,               \* ids the pool has been cleared of and the device has yet to
  late                \* ids inserted after their death notice

vars == <<service, start, booted, process, generation, executorList_, executorMessenger_, proxy_,
          register, proxy, executorId, returned, spent, device, authResPool_, watched, died, late>>

serviceVars  == <<service, start>>
executorVars == <<process, generation, executorList_>>
callVars     == <<proxy, executorId>>
deviceVars   == <<spent, device>>
poolVars     == <<authResPool_, watched, died, late>>

Steps == {"idle", "proxy", "call", "add", "watch", "insert", "ready"}

\* The steps that a thread of the service takes for the process.
InService == {"add", "watch", "insert", "ready"}

Answers == {"none", "ok", "no info", "no service", "dead service", "refused"}

Callbacks == [process : Processes, generation : Nat \ {0}]

TypeOK ==
  /\ service \in {"up", "down"} /\ start \in Nat
  /\ booted \in SUBSET Processes
  /\ process \in [Processes -> {"absent", "alive", "dead"}]
  /\ generation \in [Processes -> Nat]
  /\ executorList_ \in [Processes -> Nat]
  /\ executorMessenger_ \in [Processes -> Nat]
  /\ proxy_ \in [Processes -> Nat] /\ proxy \in [Processes -> Nat]
  /\ register \in [Processes -> Steps]
  /\ executorId \in [Processes -> Nat]
  /\ returned \in [Processes -> Answers]
  /\ device \in SUBSET spent /\ spent \in SUBSET Ids
  /\ DOMAIN authResPool_ \in SUBSET spent
  /\ \A id \in DOMAIN authResPool_ : authResPool_[id] \in Callbacks
  /\ watched \in SUBSET (spent \X Processes)
  /\ died \in SUBSET spent /\ late \in SUBSET spent

Init ==
  /\ service = "down" /\ start = 0
  /\ booted = {}
  /\ process = [p \in Processes |-> "absent"]
  /\ generation = [p \in Processes |-> 0]
  /\ executorList_ = [p \in Processes |-> 0]
  /\ executorMessenger_ = [p \in Processes |-> 0]
  /\ proxy_ = [p \in Processes |-> 0] /\ proxy = [p \in Processes |-> 0]
  /\ register = [p \in Processes |-> "idle"]
  /\ executorId = [p \in Processes |-> 0]
  /\ returned = [p \in Processes |-> "none"]
  /\ spent = {} /\ device = {}
  /\ authResPool_ = <<>>
  /\ watched = {} /\ died = {} /\ late = {}

Alive(p) == process[p] = "alive"

Running == service = "up"

RegisterTo(p, from, to) ==
  /\ register[p] = from
  /\ register' = [register EXCEPT ![p] = to]

Returns(p, from, result) ==
  /\ RegisterTo(p, from, "idle")
  /\ returned' = [returned EXCEPT ![p] = result]

\* The pool has a callback of the Executor that is in p's list now.
Registered(p) ==
  \E id \in DOMAIN authResPool_ :
    authResPool_[id] = [process |-> p, generation |-> executorList_[p]]

\* The lookup by type, which takes the first entry of the map.
FindExecutorCallback == authResPool_[Min(DOMAIN authResPool_)]

\* Executor::OnFrameworkReady: without an HDI, or without info from it, it does
\* not register.
StartRegister(p) ==
  \/ RegisterTo(p, "idle", "proxy") /\ UNCHANGED returned
  \/ Returns(p, "idle", "no info")

(***************************************************************************)
(* The service                                                             *)
(***************************************************************************)

\* OnStart: publish, then the boot event, which every process that watches the
\* parameter is sent.
OnStart ==
  /\ ~Running /\ start < MaxStarts
  /\ service' = "up" /\ start' = start + 1
  /\ booted' = booted \cup {p \in Processes : Alive(p)}
  /\ UNCHANGED <<executorVars, executorMessenger_, proxy_, register, callVars, returned,
                 deviceVars, poolVars>>

\* The process of the service dies: registrations in it end as failed requests.
ServiceDies ==
  /\ Running
  /\ service' = "down"
  /\ register' = [p \in Processes |-> IF register[p] \in InService THEN "idle" ELSE register[p]]
  /\ returned' = [p \in Processes |->
                    IF Alive(p) /\ register[p] \in InService THEN "dead service" ELSE returned[p]]
  /\ executorId' = [p \in Processes |-> 0]
  /\ authResPool_' = <<>>
  /\ watched' = {} /\ died' = {} /\ late' = {}
  /\ UNCHANGED <<start, booted, executorVars, executorMessenger_, proxy_, proxy, deviceVars>>

(***************************************************************************)
(* The executor process                                                    *)
(***************************************************************************)

ProcessStarts(p) ==
  /\ process[p] = "absent"
  /\ process' = [process EXCEPT ![p] = "alive"]
  /\ UNCHANGED <<serviceVars, booted, generation, executorList_, executorMessenger_, proxy_,
                 register, callVars, returned, deviceVars, poolVars>>

\* What the service does for it goes on.
ProcessDies(p) ==
  /\ Alive(p)
  /\ process' = [process EXCEPT ![p] = "dead"]
  /\ executorList_' = [executorList_ EXCEPT ![p] = 0]
  /\ executorMessenger_' = [executorMessenger_ EXCEPT ![p] = 0]
  /\ proxy_' = [proxy_ EXCEPT ![p] = 0] /\ proxy' = [proxy EXCEPT ![p] = 0]
  /\ booted' = booted \ {p}
  /\ register' = [register EXCEPT ![p] = IF @ \in InService THEN @ ELSE "idle"]
  /\ returned' = [returned EXCEPT ![p] = "none"]
  /\ UNCHANGED <<serviceVars, generation, executorId, deviceVars, poolVars>>

\* Driver::OnHdiConnect: the old Executor goes, a new one with a new callback
\* registers. (A driver that names no executor leaves what a disconnect leaves.)
OnHdiConnect(p) ==
  /\ Alive(p) /\ generation[p] < MaxConnects
  /\ StartRegister(p)
  /\ generation' = [generation EXCEPT ![p] = @ + 1]
  /\ executorList_' = [executorList_ EXCEPT ![p] = generation[p] + 1]
  /\ executorMessenger_' = [executorMessenger_ EXCEPT ![p] = 0]
  /\ UNCHANGED <<serviceVars, booted, process, proxy_, callVars, deviceVars, poolVars>>

\* Driver::OnHdiDisconnect. What it does to commands is in module Executor.
OnHdiDisconnect(p) ==
  /\ register[p] = "idle" /\ executorList_[p] # 0
  /\ executorList_' = [executorList_ EXCEPT ![p] = 0]
  /\ UNCHANGED <<serviceVars, booted, process, generation, executorMessenger_, proxy_, register,
                 callVars, returned, deviceVars, poolVars>>

\* Mutant: an executor that has a callback is not registered again.
OnFrameworkReadyOnce(p) ==
  /\ p \in booted /\ register[p] = "idle"
  /\ booted' = booted \ {p}
  /\ IF executorList_[p] # 0 /\ executorMessenger_[p] = 0 THEN StartRegister(p)
                                                         ELSE UNCHANGED <<register, returned>>
  /\ UNCHANGED <<serviceVars, executorVars, executorMessenger_, proxy_, callVars, deviceVars,
                 poolVars>>

\* Driver::OnFrameworkReady, for a driver with an executor and for one without.
OnFrameworkReady(p) ==
  /\ p \in booted
  /\ booted' = booted \ {p}
  /\ IF executorList_[p] # 0 THEN StartRegister(p)
                             ELSE register[p] = "idle" /\ UNCHANGED <<register, returned>>
  /\ UNCHANGED <<serviceVars, executorVars, executorMessenger_, proxy_, callVars, deviceVars,
                 poolVars>>

\* AuthExecutorRegistry::GetProxy: the cached one, or the running service's.
GetProxy(p) ==
  /\ proxy_[p] # 0 \/ Running
  /\ RegisterTo(p, "proxy", "call")
  /\ proxy_' = [proxy_ EXCEPT ![p] = IF @ # 0 THEN @ ELSE start]
  /\ proxy' = [proxy EXCEPT ![p] = proxy_'[p]]
  /\ UNCHANGED <<serviceVars, booted, executorVars, executorMessenger_, executorId, returned,
                 deviceVars, poolVars>>

GetProxyFails(p) ==
  /\ proxy_[p] = 0 /\ ~Running
  /\ Returns(p, "proxy", "no service")
  /\ UNCHANGED <<serviceVars, booted, executorVars, executorMessenger_, proxy_, callVars,
                 deviceVars, poolVars>>

\* The process hears that the service its proxy is of has died.
ResetProxy(p) ==
  /\ proxy_[p] # 0
  /\ ~Running \/ proxy_[p] # start
  /\ proxy_' = [proxy_ EXCEPT ![p] = 0]
  /\ UNCHANGED <<serviceVars, booted, executorVars, executorMessenger_, register, callVars,
                 returned, deviceVars, poolVars>>
(***************************************************************************)
(* AuthResManager::Register, on an IPC thread of the service               *)
(***************************************************************************)

\* CoAuthProxy::Register reaches the service of its proxy, if that still runs.
SendRequest(p) ==
  /\ IF Running /\ proxy[p] = start
     THEN RegisterTo(p, "call", "add") /\ UNCHANGED returned
     ELSE Returns(p, "call", "dead service")
  /\ proxy' = [proxy EXCEPT ![p] = 0]
  /\ UNCHANGED <<serviceVars, booted, executorVars, executorMessenger_, proxy_, executorId,
                 deviceVars, poolVars>>

\* The device draws an id.
AddExecutor(p) ==
  /\ RegisterTo(p, "add", "watch")
  /\ \E id \in Ids \ spent :
       /\ executorId' = [executorId EXCEPT ![p] = id]
       /\ spent' = spent \cup {id} /\ device' = device \cup {id}
  /\ UNCHANGED <<serviceVars, booted, executorVars, executorMessenger_, proxy_, proxy, returned,
                 poolVars>>

\* Nobody to answer when the process has died.
Answer(p, from, result) ==
  /\ RegisterTo(p, from, "idle")
  /\ returned' = IF Alive(p) THEN [returned EXCEPT ![p] = result] ELSE returned
  /\ executorId' = [executorId EXCEPT ![p] = 0]

AddExecutorFails(p) ==
  /\ Answer(p, "add", "refused")
  /\ UNCHANGED <<serviceVars, booted, executorVars, executorMessenger_, proxy_, proxy, deviceVars,
                 poolVars>>

AddDeathRecipient(p) ==
  /\ Alive(p)
  /\ RegisterTo(p, "watch", "insert")
  /\ watched' = watched \cup {<<executorId[p], p>>}
  /\ UNCHANGED <<serviceVars, booted, executorVars, executorMessenger_, proxy_, callVars, returned,
                 deviceVars, authResPool_, died, late>>

\* The process has died: Register returns, and the device keeps the executor.
AddDeathRecipientFails(p) ==
  /\ ~Alive(p)
  /\ Answer(p, "watch", "refused")
  /\ UNCHANGED <<serviceVars, booted, executorVars, executorMessenger_, proxy_, proxy, deviceVars,
                 poolVars>>

\* Mutant: the entry is of the Executor the driver has by now.
InsertCurrent(p) ==
  /\ RegisterTo(p, "insert", "ready")
  /\ authResPool_' = [i \in DOMAIN authResPool_ \cup {executorId[p]} |->
                        IF i \in DOMAIN authResPool_ THEN authResPool_[i]
                        ELSE [process |-> p, generation |-> executorList_[p]]]
  /\ UNCHANGED <<serviceVars, booted, executorVars, executorMessenger_, proxy_, callVars,
                 returned, deviceVars, watched, died, late>>

Insert(p) ==
  LET id == executorId[p]
  IN  /\ RegisterTo(p, "insert", "ready")
      /\ authResPool_' = [i \in DOMAIN authResPool_ \cup {id} |->
                            IF i \in DOMAIN authResPool_ THEN authResPool_[i]
                            ELSE [process |-> p, generation |-> generation[p]]]
      /\ late' = IF <<id, p>> \in watched THEN late ELSE late \cup {id}
      /\ UNCHANGED <<serviceVars, booted, executorVars, executorMessenger_, proxy_, callVars,
                     returned, deviceVars, watched, died>>

\* Mutant: a callback that has a messenger keeps it.
OnMessengerReadyOnce(p) ==
  /\ Answer(p, "ready", "ok")
  /\ executorMessenger_' = IF Alive(p) /\ executorMessenger_[p] = 0
                           THEN [executorMessenger_ EXCEPT ![p] = start] ELSE executorMessenger_
  /\ UNCHANGED <<serviceVars, booted, executorVars, proxy_, proxy, deviceVars, poolVars>>

\* The callback gets the messenger of this start, unless its process has died.
OnMessengerReady(p) ==
  /\ Answer(p, "ready", "ok")
  /\ executorMessenger_' = IF Alive(p) THEN [executorMessenger_ EXCEPT ![p] = start]
                                       ELSE executorMessenger_
  /\ UNCHANGED <<serviceVars, booted, executorVars, proxy_, proxy, deviceVars, poolVars>>

(***************************************************************************)
(* The death notice, which clears the pool and then the device             *)
(***************************************************************************)

\* Mutant: the device is told and the pool is not.
OnRemoteDiedKeeps(id, p) ==
  /\ <<id, p>> \in watched /\ process[p] = "dead"
  /\ watched' = watched \ {<<id, p>>}
  /\ died' = died \cup {id}
  /\ UNCHANGED <<serviceVars, booted, executorVars, executorMessenger_, proxy_, register, callVars,
                 returned, deviceVars, authResPool_, late>>

OnRemoteDied(id, p) ==
  /\ <<id, p>> \in watched /\ process[p] = "dead"
  /\ watched' = watched \ {<<id, p>>}
  /\ authResPool_' = [i \in DOMAIN authResPool_ \ {id} |-> authResPool_[i]]
  /\ died' = died \cup {id}
  /\ UNCHANGED <<serviceVars, booted, executorVars, executorMessenger_, proxy_, register, callVars,
                 returned, deviceVars, late>>

DeleteExecutor(id) ==
  /\ id \in died
  /\ died' = died \ {id}
  /\ device' = device \ {id}
  /\ UNCHANGED <<serviceVars, booted, executorVars, executorMessenger_, proxy_, register, callVars,
                 returned, spent, authResPool_, watched, late>>

(***************************************************************************)
(* Specification                                                           *)
(***************************************************************************)

RegisterStep(p) ==
  \/ GetProxy(p) \/ GetProxyFails(p) \/ SendRequest(p)
  \/ AddExecutor(p) \/ AddExecutorFails(p)
  \/ AddDeathRecipient(p) \/ AddDeathRecipientFails(p)
  \/ Insert(p) \/ OnMessengerReady(p)

ProcessStep(p) ==
  \/ ProcessStarts(p) \/ ProcessDies(p)
  \/ OnHdiConnect(p) \/ OnHdiDisconnect(p) \/ OnFrameworkReady(p) \/ ResetProxy(p)

Next ==
  \/ OnStart \/ ServiceDies
  \/ \E p \in Processes : ProcessStep(p) \/ RegisterStep(p)
  \/ \E id \in Ids, p \in Processes : OnRemoteDied(id, p)
  \/ \E id \in Ids : DeleteExecutor(id)

Spec == Init /\ [][Next]_vars

\* A registration goes on, and notices and events arrive. Drivers, processes and
\* the service come and go as they like.
Fairness ==
  /\ \A p \in Processes :
       WF_vars(RegisterStep(p)) /\ WF_vars(OnFrameworkReady(p)) /\ WF_vars(ResetProxy(p))
  /\ \A id \in Ids : WF_vars(DeleteExecutor(id))
  /\ \A id \in Ids, p \in Processes : WF_vars(OnRemoteDied(id, p))

FairSpec == Spec /\ Fairness

(***************************************************************************)
(* Properties                                                              *)
(***************************************************************************)

\* Every callback in the pool is of an executor the device has and whose death
\* the service will hear of, save one inserted after its death notice came,
\* which stays until the service dies. (auth_res_manager.cpp:77-85, 159-167)
EntryIsWatched ==
  \A id \in DOMAIN authResPool_ :
    LET p == authResPool_[id].process
    IN  \/ id \in device /\ <<id, p>> \in watched
        \/ id \in late /\ process[p] = "dead"

\* An executor the pool leads to has the messenger of this start of the service,
\* without which its commands answer nobody, or is about to get it.
\* (auth_res_manager.cpp:85-94, framework_executor_callback.cpp:104-118)
MessengerFollows ==
  \A p \in Processes : Registered(p) => executorMessenger_[p] = start \/ register[p] = "ready"

\* Registrations that end like this are not tried again until the next event.
Unrepeated == {"no info", "dead service", "refused"}

\* While service and driver stay, the driver's executor comes into the pool,
\* whichever of connect, boot event and notices come first, unless its last
\* registration had no info from the driver, was refused or went to the proxy of
\* a dead service: no event follows that one. One that found no service is
\* followed by the boot event. (executor.cpp:62-82, auth_executor_registry.cpp:26-66)
OnlyFailureMisses ==
  \A p \in Processes :
    LET Ready == Running /\ Alive(p) /\ executorList_[p] # 0
    IN  Ready ~> (~Ready \/ Registered(p) \/ [](returned[p] \in Unrepeated))

\* executor.cpp:51: "after hid connect re-register resource pool", read as: once
\* the Executor of a new connect is registered, a lookup does not lead to one
\* that its process has released.
ReconnectIsFound ==
  \A p \in Processes :
    Registered(p) =>
      LET found == FindExecutorCallback
      IN  Alive(found.process) => executorList_[found.process] = found.generation
=============================================================================
