--------------------------- MODULE RegistryProofs ---------------------------
(***************************************************************************)
(* Type correctness of ExecutorRegistry, its two safety invariants, and    *)
(* what its liveness property rests on.                                    *)
(***************************************************************************)
EXTENDS ExecutorRegistry, TLAPS

\* Who has an id of the device and has yet to insert it.
Inserting(p) == register[p] \in {"watch", "insert"}

\* What an id stands for before its executor is in the pool.
WatchIsFresh ==
  \A p \in Processes :
    register[p] = "watch" =>
      /\ executorId[p] \in device \ died
      /\ executorId[p] \notin DOMAIN authResPool_
      /\ \A q \in Processes : <<executorId[p], q>> \notin watched

InsertIsFresh ==
  \A p \in Processes :
    register[p] = "insert" =>
      /\ executorId[p] \in spent \ DOMAIN authResPool_
      /\ \A q \in Processes : <<executorId[p], q>> \in watched => q = p
      /\ <<executorId[p], p>> \notin watched => process[p] = "dead"

IdsDiffer ==
  \A p, q \in Processes : Inserting(p) /\ Inserting(q) /\ executorId[p] = executorId[q] => p = q

\* One process dies for one id, and until then the device has it.
WatchedOnce ==
  /\ \A id \in Ids, p, q \in Processes : <<id, p>> \in watched /\ <<id, q>> \in watched => p = q
  /\ \A id \in Ids, p \in Processes : <<id, p>> \in watched => id \in device \ died

\* Nothing is in the pool of a service that does not run.
DownIsEmpty ==
  ~Running => /\ DOMAIN authResPool_ = {}
              /\ \A p \in Processes : register[p] \notin InService

\* No entry is of an Executor object yet to come.
EntryIsPast ==
  /\ \A id \in DOMAIN authResPool_ :
       authResPool_[id].generation <= generation[authResPool_[id].process]
  /\ \A p \in Processes : ~Alive(p) => executorList_[p] = 0

\* Types, by what an action changes, and what the update of a table needs to
\* know of the step before.
ServiceTyped ==
  /\ service \in {"up", "down"} /\ start \in Nat
  /\ booted \in SUBSET Processes

TablesTyped ==
  /\ process \in [Processes -> {"absent", "alive", "dead"}]
  /\ generation \in [Processes -> Nat]
  /\ executorList_ \in [Processes -> Nat]
  /\ executorMessenger_ \in [Processes -> Nat]
  /\ proxy_ \in [Processes -> Nat] /\ proxy \in [Processes -> Nat]
  /\ register \in [Processes -> Steps]
  /\ executorId \in [Processes -> Nat]
  /\ returned \in [Processes -> Answers]

PoolTyped ==
  /\ device \in SUBSET spent /\ spent \in SUBSET Ids
  /\ DOMAIN authResPool_ \in SUBSET spent
  /\ \A id \in DOMAIN authResPool_ : authResPool_[id] \in Callbacks
  /\ watched \in SUBSET (spent \X Processes)
  /\ died \in SUBSET spent /\ late \in SUBSET spent

StepsLinked ==
  \A p \in Processes :
    /\ Inserting(p) => executorId[p] \in spent
    /\ register[p] # "idle" \/ executorList_[p] # 0 => generation[p] >= 1

TypeInv == ServiceTyped /\ TablesTyped /\ PoolTyped /\ StepsLinked

-----------------------------------------------------------------------------
(***************************************************************************)
(* Type correctness                                                        *)
(***************************************************************************)

LEMMA TableUpdate ==
  ASSUME NEW S, NEW T, NEW f \in [S -> T], NEW x \in S, NEW v \in T
  PROVE  [f EXCEPT ![x] = v] \in [S -> T]
OBVIOUS

LEMMA EmptyPool == DOMAIN <<>> = {}
OBVIOUS

LEMMA GenerationIsNat ==
  ASSUME TablesTyped, NEW p \in Processes
  PROVE  generation[p] \in Nat
<1>1. generation \in [Processes -> Nat]
  BY DEF TablesTyped
<1> QED
  BY <1>1

\* A registration starts with the proxy or is over at once.
LEMMA StartTyped ==
  ASSUME TablesTyped, NEW p \in Processes, StartRegister(p)
  PROVE  /\ register' \in [Processes -> Steps] /\ returned' \in [Processes -> Answers]
         /\ register[p] = "idle" /\ register'[p] \in {"idle", "proxy"}
         /\ \A q \in Processes \ {p} : register'[q] = register[q]
BY DEF StartRegister, RegisterTo, Returns, TablesTyped, Steps, Answers

LEMMA TypeStep == TypeInv /\ [Next]_vars => TypeInv'
<1> SUFFICES ASSUME ServiceTyped, TablesTyped, PoolTyped, StepsLinked, [Next]_vars
             PROVE  TypeInv'
  BY DEF TypeInv
<1> USE DEF TypeInv, Inserting, Steps, Answers, Running, Alive,
        serviceVars, executorVars, callVars, deviceVars, poolVars
<1>1. CASE OnStart
  <2>1. ServiceTyped'
    BY <1>1 DEF OnStart, ServiceTyped
  <2>2. TablesTyped'
    BY <1>1 DEF OnStart, TablesTyped
  <2>3. PoolTyped'
    BY <1>1 DEF OnStart, PoolTyped
  <2>4. StepsLinked'
    BY <1>1 DEF OnStart, StepsLinked
  <2> QED
    BY <2>1, <2>2, <2>3, <2>4
<1>2. CASE ServiceDies
  <2>1. ServiceTyped'
    BY <1>2 DEF ServiceDies, ServiceTyped
  <2>2. TablesTyped'
    BY <1>2 DEF ServiceDies, TablesTyped
  <2>3. PoolTyped'
    <3>0. authResPool_' = <<>>
      BY <1>2 DEF ServiceDies
    <3>1. DOMAIN authResPool_' = {}
      BY <3>0, EmptyPool
    <3>2. watched' = {} /\ died' = {} /\ late' = {} /\ device' = device /\ spent' = spent
      BY <1>2 DEF ServiceDies
    <3> QED
      BY <3>1, <3>2 DEF PoolTyped
  <2>4. StepsLinked'
    BY <1>2 DEF ServiceDies, StepsLinked, TablesTyped, InService
  <2> QED
    BY <2>1, <2>2, <2>3, <2>4
<1>3. ASSUME NEW p \in Processes, ProcessStep(p) PROVE TypeInv'
  <2>1. CASE ProcessStarts(p)
    <3>1. ServiceTyped'
      BY <2>1 DEF ProcessStarts, ServiceTyped
    <3>2. TablesTyped'
      BY <2>1 DEF ProcessStarts, TablesTyped, ServiceTyped
    <3>3. PoolTyped'
      BY <2>1 DEF ProcessStarts, PoolTyped
    <3>4. StepsLinked'
      BY <2>1 DEF ProcessStarts, StepsLinked, TablesTyped
    <3> QED
      BY <3>1, <3>2, <3>3, <3>4
  <2>2. CASE ProcessDies(p)
    <3>1. ServiceTyped'
      BY <2>2 DEF ProcessDies, ServiceTyped
    <3>2. TablesTyped'
      BY <2>2 DEF ProcessDies, InService, TablesTyped, ServiceTyped
    <3>3. PoolTyped'
      BY <2>2 DEF ProcessDies, PoolTyped
    <3>4. StepsLinked'
      BY <2>2 DEF ProcessDies, InService, StepsLinked, TablesTyped
    <3> QED
      BY <3>1, <3>2, <3>3, <3>4
  <2>3. CASE OnHdiConnect(p)
    <3>1. ServiceTyped'
      BY <2>3 DEF OnHdiConnect, ServiceTyped
    <3>a. generation[p] \in Nat /\ generation[p] + 1 \in Nat /\ generation[p] + 1 >= 1
      BY GenerationIsNat
    <3>b. /\ generation' = [generation EXCEPT ![p] = generation[p] + 1]
          /\ executorList_' = [executorList_ EXCEPT ![p] = generation[p] + 1]
          /\ executorMessenger_' = [executorMessenger_ EXCEPT ![p] = 0]
          /\ StartRegister(p)
          /\ UNCHANGED <<process, proxy_, proxy, executorId>>
      BY <2>3 DEF OnHdiConnect
    <3>c. /\ register' \in [Processes -> Steps] /\ returned' \in [Processes -> Answers]
          /\ register'[p] \in {"idle", "proxy"}
          /\ \A q \in Processes \ {p} : register'[q] = register[q]
      BY <3>b, StartTyped
    <3>2. TablesTyped'
      <4>1. generation' \in [Processes -> Nat] /\ executorList_' \in [Processes -> Nat]
        BY <3>a, <3>b, TableUpdate DEF TablesTyped
      <4>2. executorMessenger_' \in [Processes -> Nat]
        BY <3>b DEF TablesTyped
      <4> QED
        BY <3>b, <3>c, <4>1, <4>2 DEF TablesTyped
    <3>3. PoolTyped'
      BY <2>3 DEF OnHdiConnect, PoolTyped
    <3>4. StepsLinked'
      <4> SUFFICES ASSUME NEW q \in Processes
                   PROVE  /\ Inserting(q)' => executorId'[q] \in spent'
                          /\ register'[q] # "idle" \/ executorList_'[q] # 0 => generation'[q] >= 1
        BY DEF StepsLinked
      <4>0. spent' = spent
        BY <2>3 DEF OnHdiConnect
      <4>1. CASE q = p
        <5>1. generation'[q] = generation[p] + 1 /\ ~Inserting(q)'
          BY <3>b, <3>c, <4>1 DEF TablesTyped, Inserting
        <5> QED
          BY <3>a, <5>1
      <4>2. CASE q # p
        <5>1. /\ generation'[q] = generation[q] /\ register'[q] = register[q]
              /\ executorList_'[q] = executorList_[q] /\ executorId'[q] = executorId[q]
          BY <3>b, <3>c, <4>2 DEF TablesTyped
        <5> QED
          BY <4>0, <5>1 DEF StepsLinked
      <4> QED
        BY <4>1, <4>2
    <3> QED
      BY <3>1, <3>2, <3>3, <3>4
  <2>4. CASE OnHdiDisconnect(p)
    <3>1. ServiceTyped'
      BY <2>4 DEF OnHdiDisconnect, ServiceTyped
    <3>2. TablesTyped'
      BY <2>4 DEF OnHdiDisconnect, TablesTyped, ServiceTyped
    <3>3. PoolTyped'
      BY <2>4 DEF OnHdiDisconnect, PoolTyped
    <3>4. StepsLinked'
      BY <2>4 DEF OnHdiDisconnect, StepsLinked, TablesTyped
    <3> QED
      BY <3>1, <3>2, <3>3, <3>4
  <2>5. CASE OnFrameworkReady(p)
    <3>1. ServiceTyped'
      BY <2>5 DEF OnFrameworkReady, ServiceTyped
    <3>2. TablesTyped'
      BY <2>5, StartTyped DEF OnFrameworkReady, TablesTyped, ServiceTyped
    <3>3. PoolTyped'
      BY <2>5 DEF OnFrameworkReady, PoolTyped
    <3>4. StepsLinked'
      <4>0. UNCHANGED <<spent, executorId, generation, executorList_>>
        BY <2>5 DEF OnFrameworkReady
      <4>1. CASE executorList_[p] # 0
        <5>1. /\ register'[p] \in {"idle", "proxy"}
              /\ \A q \in Processes \ {p} : register'[q] = register[q]
          BY <2>5, <4>1, StartTyped DEF OnFrameworkReady
        <5>2. \A q \in Processes : Inserting(q)' => Inserting(q) /\ q # p
          BY <5>1 DEF Inserting
        <5> QED
          BY <4>0, <4>1, <5>1, <5>2 DEF StepsLinked
      <4>2. CASE executorList_[p] = 0
        <5>1. UNCHANGED register
          BY <2>5, <4>2 DEF OnFrameworkReady
        <5> QED
          BY <4>0, <5>1 DEF StepsLinked
      <4> QED
        BY <4>1, <4>2
    <3> QED
      BY <3>1, <3>2, <3>3, <3>4
  <2>6. CASE ResetProxy(p)
    <3>1. ServiceTyped'
      BY <2>6 DEF ResetProxy, ServiceTyped
    <3>2. TablesTyped'
      BY <2>6 DEF ResetProxy, TablesTyped, ServiceTyped
    <3>3. PoolTyped'
      BY <2>6 DEF ResetProxy, PoolTyped
    <3>4. StepsLinked'
      BY <2>6 DEF ResetProxy, StepsLinked, TablesTyped
    <3> QED
      BY <3>1, <3>2, <3>3, <3>4
  <2> QED
    BY <1>3, <2>1, <2>2, <2>3, <2>4, <2>5, <2>6 DEF ProcessStep
<1>4. ASSUME NEW p \in Processes, RegisterStep(p) PROVE TypeInv'
  <2>1. CASE GetProxy(p)
    <3>1. ServiceTyped'
      BY <2>1 DEF GetProxy, ServiceTyped
    <3>2. TablesTyped'
      BY <2>1 DEF GetProxy, RegisterTo, TablesTyped, ServiceTyped
    <3>3. PoolTyped'
      BY <2>1 DEF GetProxy, PoolTyped
    <3>4. StepsLinked'
      BY <2>1 DEF GetProxy, RegisterTo, StepsLinked, TablesTyped
    <3> QED
      BY <3>1, <3>2, <3>3, <3>4
  <2>2. CASE GetProxyFails(p)
    <3>1. ServiceTyped'
      BY <2>2 DEF GetProxyFails, ServiceTyped
    <3>2. TablesTyped'
      BY <2>2 DEF GetProxyFails, Returns, RegisterTo, TablesTyped, ServiceTyped
    <3>3. PoolTyped'
      BY <2>2 DEF GetProxyFails, PoolTyped
    <3>4. StepsLinked'
      BY <2>2 DEF GetProxyFails, Returns, RegisterTo, StepsLinked, TablesTyped
    <3> QED
      BY <3>1, <3>2, <3>3, <3>4
  <2>3. CASE SendRequest(p)
    <3>1. ServiceTyped'
      BY <2>3 DEF SendRequest, ServiceTyped
    <3>2. TablesTyped'
      BY <2>3 DEF SendRequest, Returns, RegisterTo, TablesTyped, ServiceTyped
    <3>3. PoolTyped'
      BY <2>3 DEF SendRequest, PoolTyped
    <3>4. StepsLinked'
      BY <2>3 DEF SendRequest, Returns, RegisterTo, StepsLinked, TablesTyped
    <3> QED
      BY <3>1, <3>2, <3>3, <3>4
  <2>4. CASE AddExecutor(p)
    <3>1. ServiceTyped'
      BY <2>4 DEF AddExecutor, ServiceTyped
    <3>2. TablesTyped'
      <4> PICK id \in Ids \ spent : executorId' = [executorId EXCEPT ![p] = id]
        BY <2>4 DEF AddExecutor
      <4>1. executorId' \in [Processes -> Nat]
        BY RegistryAssumption, TableUpdate DEF RegistryAssumption, TablesTyped
      <4>2. /\ register' = [register EXCEPT ![p] = "watch"]
            /\ UNCHANGED <<process, generation, executorList_, executorMessenger_, proxy_, proxy, returned>>
        BY <2>4 DEF AddExecutor, RegisterTo
      <4> QED
        BY <4>1, <4>2 DEF TablesTyped
    <3>3. PoolTyped'
      BY <2>4 DEF AddExecutor, PoolTyped
    <3>4. StepsLinked'
      BY <2>4 DEF AddExecutor, RegisterTo, StepsLinked, TablesTyped
    <3> QED
      BY <3>1, <3>2, <3>3, <3>4
  <2>5. CASE AddExecutorFails(p)
    <3>1. ServiceTyped'
      BY <2>5 DEF AddExecutorFails, ServiceTyped
    <3>2. TablesTyped'
      BY <2>5 DEF AddExecutorFails, Answer, RegisterTo, TablesTyped, ServiceTyped
    <3>3. PoolTyped'
      BY <2>5 DEF AddExecutorFails, PoolTyped
    <3>4. StepsLinked'
      BY <2>5 DEF AddExecutorFails, Answer, RegisterTo, StepsLinked, TablesTyped
    <3> QED
      BY <3>1, <3>2, <3>3, <3>4
  <2>6. CASE AddDeathRecipient(p)
    <3>1. ServiceTyped'
      BY <2>6 DEF AddDeathRecipient, ServiceTyped
    <3>2. TablesTyped'
      BY <2>6 DEF AddDeathRecipient, RegisterTo, TablesTyped, ServiceTyped
    <3>3. PoolTyped'
      <4>1. executorId[p] \in spent
        BY <2>6 DEF AddDeathRecipient, RegisterTo, StepsLinked
      <4>2. /\ watched' = watched \cup {<<executorId[p], p>>}
            /\ UNCHANGED <<spent, device, authResPool_, died, late>>
        BY <2>6 DEF AddDeathRecipient
      <4>3. watched' \in SUBSET (spent \X Processes)
        BY <4>1, <4>2 DEF PoolTyped
      <4> QED
        BY <4>2, <4>3 DEF PoolTyped
    <3>4. StepsLinked'
      BY <2>6 DEF AddDeathRecipient, RegisterTo, StepsLinked, TablesTyped
    <3> QED
      BY <3>1, <3>2, <3>3, <3>4
  <2>7. CASE AddDeathRecipientFails(p)
    <3>1. ServiceTyped'
      BY <2>7 DEF AddDeathRecipientFails, ServiceTyped
    <3>2. TablesTyped'
      BY <2>7 DEF AddDeathRecipientFails, Answer, RegisterTo, TablesTyped, ServiceTyped
    <3>3. PoolTyped'
      BY <2>7 DEF AddDeathRecipientFails, PoolTyped
    <3>4. StepsLinked'
      BY <2>7 DEF AddDeathRecipientFails, Answer, RegisterTo, StepsLinked, TablesTyped
    <3> QED
      BY <3>1, <3>2, <3>3, <3>4
  <2>8. CASE Insert(p)
    <3>1. ServiceTyped'
      BY <2>8 DEF Insert, ServiceTyped
    <3>2. TablesTyped'
      BY <2>8 DEF Insert, RegisterTo, TablesTyped, ServiceTyped
    <3>3. PoolTyped'
      <4> DEFINE id == executorId[p]
                 entry == [process |-> p, generation |-> generation[p]]
      <4>1. id \in spent /\ generation[p] >= 1
        BY <2>8 DEF Insert, RegisterTo, StepsLinked
      <4>2. generation[p] \in Nat \ {0}
        BY <4>1, GenerationIsNat
      <4>a. entry \in Callbacks
        BY <4>2 DEF Callbacks
      <4>3. /\ authResPool_' = [i \in DOMAIN authResPool_ \cup {id} |->
                                  IF i \in DOMAIN authResPool_ THEN authResPool_[i] ELSE entry]
            /\ late' = late \/ late' = late \cup {id}
            /\ UNCHANGED <<spent, device, watched, died>>
        BY <2>8 DEF Insert
      <4> HIDE DEF id, entry
      <4>4. DOMAIN authResPool_' \in SUBSET spent
        BY <4>1, <4>3 DEF PoolTyped
      <4>5. \A i \in DOMAIN authResPool_' : authResPool_'[i] \in Callbacks
        BY <4>a, <4>3 DEF PoolTyped
      <4> QED
        BY <4>1, <4>3, <4>4, <4>5 DEF PoolTyped
    <3>4. StepsLinked'
      BY <2>8 DEF Insert, RegisterTo, StepsLinked, TablesTyped
    <3> QED
      BY <3>1, <3>2, <3>3, <3>4
  <2>9. CASE OnMessengerReady(p)
    <3>1. ServiceTyped'
      BY <2>9 DEF OnMessengerReady, ServiceTyped
    <3>2. TablesTyped'
      BY <2>9 DEF OnMessengerReady, Answer, RegisterTo, TablesTyped, ServiceTyped
    <3>3. PoolTyped'
      BY <2>9 DEF OnMessengerReady, PoolTyped
    <3>4. StepsLinked'
      BY <2>9 DEF OnMessengerReady, Answer, RegisterTo, StepsLinked, TablesTyped
    <3> QED
      BY <3>1, <3>2, <3>3, <3>4
  <2> QED
    BY <1>4, <2>1, <2>2, <2>3, <2>4, <2>5, <2>6, <2>7, <2>8, <2>9 DEF RegisterStep
<1>5. ASSUME NEW id \in Ids, NEW p \in Processes, OnRemoteDied(id, p) PROVE TypeInv'
  <2>1. ServiceTyped' /\ TablesTyped' /\ StepsLinked'
    BY <1>5 DEF OnRemoteDied, ServiceTyped, TablesTyped, StepsLinked
  <2>2. PoolTyped'
    BY <1>5 DEF OnRemoteDied, PoolTyped
  <2> QED
    BY <2>1, <2>2
<1>6. ASSUME NEW id \in Ids, DeleteExecutor(id) PROVE TypeInv'
  <2>1. ServiceTyped' /\ TablesTyped' /\ StepsLinked'
    BY <1>6 DEF DeleteExecutor, ServiceTyped, TablesTyped, StepsLinked
  <2>2. PoolTyped'
    BY <1>6 DEF DeleteExecutor, PoolTyped
  <2> QED
    BY <2>1, <2>2
<1>7. CASE UNCHANGED vars
  BY <1>7 DEF vars, ServiceTyped, TablesTyped, PoolTyped, StepsLinked
<1> QED
  BY <1>1, <1>2, <1>3, <1>4, <1>5, <1>6, <1>7 DEF Next

LEMMA InitTyped == Init => TypeInv
<1> SUFFICES ASSUME Init PROVE TypeInv
  OBVIOUS
<1>1. ServiceTyped /\ TablesTyped
  BY DEF Init, ServiceTyped, TablesTyped, Steps, Answers
<1>2. PoolTyped
  BY DEF Init, PoolTyped
<1>3. StepsLinked
  BY DEF Init, StepsLinked, Inserting
<1> QED
  BY <1>1, <1>2, <1>3 DEF TypeInv

\* Every variable keeps its type, for any number of processes, ids and starts.
THEOREM TypeCorrect == Spec => []TypeOK
<1>1. TypeInv => TypeOK
  BY DEF TypeInv, ServiceTyped, TablesTyped, PoolTyped, TypeOK
<1> QED
  BY <1>1, InitTyped, TypeStep, PTL DEF Spec

-----------------------------------------------------------------------------
(***************************************************************************)
(* Entries and death recipients                                            *)
(***************************************************************************)

WatchInv == WatchIsFresh /\ InsertIsFresh /\ IdsDiffer /\ WatchedOnce /\ EntryIsWatched

\* What a step must keep of every process for WatchInv to outlast it, when it
\* leaves device and pool alone.
Undisturbed(q) ==
  /\ process[q] = "dead" => process'[q] = "dead"
  /\ Inserting(q)' => register'[q] = register[q] /\ executorId'[q] = executorId[q]

LEMMA WatchFrame ==
  ASSUME PoolTyped, WatchInv, UNCHANGED <<deviceVars, poolVars>>,
         \A q \in Processes : Undisturbed(q)
  PROVE  WatchInv'
<1>1. UNCHANGED <<spent, device, authResPool_, watched, died, late>>
  BY DEF deviceVars, poolVars
<1>2. WatchIsFresh' /\ InsertIsFresh' /\ IdsDiffer'
  BY <1>1 DEF WatchInv, WatchIsFresh, InsertIsFresh, IdsDiffer, Inserting, Undisturbed
<1>3. WatchedOnce'
  BY <1>1 DEF WatchInv, WatchedOnce
<1>4. EntryIsWatched'
  <2> SUFFICES ASSUME NEW id \in DOMAIN authResPool_
               PROVE  \/ id \in device /\ <<id, authResPool_[id].process>> \in watched
                      \/ id \in late /\ process'[authResPool_[id].process] = "dead"
    BY <1>1 DEF EntryIsWatched
  <2>1. authResPool_[id].process \in Processes
    BY DEF PoolTyped, Callbacks
  <2> QED
    BY <2>1 DEF WatchInv, EntryIsWatched, Undisturbed
<1> QED
  BY <1>2, <1>3, <1>4 DEF WatchInv

LEMMA ProcessKeepsWatch ==
  ASSUME TablesTyped, PoolTyped, WatchInv, NEW p \in Processes, ProcessStep(p)
  PROVE  WatchInv'
<1> USE DEF Undisturbed, Inserting, TablesTyped, RegisterTo, Alive,
        serviceVars, executorVars, callVars
<1>1. CASE ProcessStarts(p)
  BY <1>1, WatchFrame DEF ProcessStarts
<1>2. CASE ProcessDies(p)
  BY <1>2, WatchFrame DEF ProcessDies, InService
<1>3. CASE OnHdiConnect(p)
  BY <1>3, StartTyped, WatchFrame DEF OnHdiConnect
<1>4. CASE OnHdiDisconnect(p)
  BY <1>4, WatchFrame DEF OnHdiDisconnect
<1>5. CASE OnFrameworkReady(p)
  BY <1>5, StartTyped, WatchFrame DEF OnFrameworkReady
<1>6. CASE ResetProxy(p)
  BY <1>6, WatchFrame DEF ResetProxy
<1> QED
  BY <1>1, <1>2, <1>3, <1>4, <1>5, <1>6 DEF ProcessStep

LEMMA RegisterKeepsWatch ==
  ASSUME TablesTyped, PoolTyped, StepsLinked, WatchInv, NEW p \in Processes, RegisterStep(p)
  PROVE  WatchInv'
<1> USE DEF Undisturbed, Inserting, RegisterTo, Returns, Answer,
        serviceVars, executorVars, callVars
<1>1. CASE GetProxy(p)
  BY <1>1, WatchFrame DEF GetProxy, TablesTyped
<1>2. CASE GetProxyFails(p)
  BY <1>2, WatchFrame DEF GetProxyFails, TablesTyped
<1>3. CASE SendRequest(p)
  BY <1>3, WatchFrame DEF SendRequest, TablesTyped
<1>4. CASE AddExecutorFails(p)
  BY <1>4, WatchFrame DEF AddExecutorFails, TablesTyped
<1>5. CASE AddDeathRecipientFails(p)
  BY <1>5, WatchFrame DEF AddDeathRecipientFails, TablesTyped
<1>6. CASE OnMessengerReady(p)
  BY <1>6, WatchFrame DEF OnMessengerReady, TablesTyped
<1>7. CASE AddExecutor(p)
  <2> PICK id \in Ids \ spent :
        /\ executorId' = [executorId EXCEPT ![p] = id]
        /\ spent' = spent \cup {id} /\ device' = device \cup {id}
    BY <1>7 DEF AddExecutor
  <2>1. /\ register' = [register EXCEPT ![p] = "watch"]
        /\ UNCHANGED <<process, authResPool_, watched, died, late>>
    BY <1>7 DEF AddExecutor, poolVars
  <2>2. /\ id \notin device \cup died \cup DOMAIN authResPool_
        /\ \A q \in Processes : <<id, q>> \notin watched
    BY DEF PoolTyped
  <2>3. \A q \in Processes : q # p => register'[q] = register[q] /\ executorId'[q] = executorId[q]
    BY <2>1 DEF TablesTyped
  <2>4. register'[p] = "watch" /\ executorId'[p] = id
    BY <2>1 DEF TablesTyped
  <2>5. WatchIsFresh'
    BY <2>1, <2>2, <2>3, <2>4 DEF WatchInv, WatchIsFresh
  <2>6. InsertIsFresh'
    BY <2>1, <2>3, <2>4 DEF WatchInv, InsertIsFresh
  <2>7. IdsDiffer'
    BY <2>3, <2>4 DEF WatchInv, IdsDiffer, StepsLinked
  <2>8. WatchedOnce'
    BY <2>1 DEF WatchInv, WatchedOnce
  <2>9. EntryIsWatched'
    BY <2>1 DEF WatchInv, EntryIsWatched
  <2> QED
    BY <2>5, <2>6, <2>7, <2>8, <2>9 DEF WatchInv
<1>8. CASE AddDeathRecipient(p)
  <2> DEFINE id == executorId[p]
  <2>1. /\ register[p] = "watch"
        /\ register' = [register EXCEPT ![p] = "insert"]
        /\ watched' = watched \cup {<<id, p>>}
        /\ UNCHANGED <<process, executorId, spent, device, authResPool_, died, late>>
    BY <1>8 DEF AddDeathRecipient, deviceVars
  <2>2. /\ id \in device \ died /\ id \in spent /\ id \notin DOMAIN authResPool_
        /\ \A q \in Processes : <<id, q>> \notin watched
    BY <2>1 DEF WatchInv, WatchIsFresh, StepsLinked
  <2>3. \A q \in Processes : q # p => register'[q] = register[q]
    BY <2>1 DEF TablesTyped
  <2>4. register'[p] = "insert"
    BY <2>1 DEF TablesTyped
  <2>5. \A q \in Processes : q # p /\ Inserting(q) => executorId[q] # id
    BY <2>1 DEF WatchInv, IdsDiffer
  <2> HIDE DEF id
  <2>6. WatchIsFresh'
    BY <2>1, <2>3, <2>4, <2>5 DEF WatchInv, WatchIsFresh
  <2>7. InsertIsFresh'
    <3>1. executorId'[p] = id
      BY <2>1 DEF id
    <3>2. ASSUME NEW q \in Processes, q # p, register'[q] = "insert"
          PROVE  /\ executorId'[q] \in spent' \ DOMAIN authResPool_'
                 /\ \A r \in Processes : <<executorId'[q], r>> \in watched' => r = q
                 /\ <<executorId'[q], q>> \notin watched' => process'[q] = "dead"
      BY <2>1, <2>3, <2>5, <3>2 DEF WatchInv, InsertIsFresh
    <3> QED
      BY <2>1, <2>2, <3>1, <3>2 DEF InsertIsFresh
  <2>8. IdsDiffer'
    BY <2>1, <2>3 DEF WatchInv, IdsDiffer
  <2>9. WatchedOnce'
    BY <2>1, <2>2 DEF WatchInv, WatchedOnce
  <2>10. EntryIsWatched'
    BY <2>1 DEF WatchInv, EntryIsWatched
  <2> QED
    BY <2>6, <2>7, <2>8, <2>9, <2>10 DEF WatchInv
<1>9. CASE Insert(p)
  <2> DEFINE id == executorId[p]
             entry == [process |-> p, generation |-> generation[p]]
  <2>1. /\ register[p] = "insert"
        /\ register' = [register EXCEPT ![p] = "ready"]
        /\ authResPool_' = [i \in DOMAIN authResPool_ \cup {id} |->
                              IF i \in DOMAIN authResPool_ THEN authResPool_[i] ELSE entry]
        /\ late' = IF <<id, p>> \in watched THEN late ELSE late \cup {id}
        /\ UNCHANGED <<process, executorId, spent, device, watched, died>>
    BY <1>9 DEF Insert, deviceVars
  <2>2. /\ id \in spent /\ id \notin DOMAIN authResPool_
        /\ <<id, p>> \notin watched => process[p] = "dead"
    BY <2>1 DEF WatchInv, InsertIsFresh
  <2>3. \A q \in Processes : q # p => register'[q] = register[q]
    BY <2>1 DEF TablesTyped
  <2>4. register'[p] = "ready"
    BY <2>1 DEF TablesTyped
  <2>5. \A q \in Processes : q # p /\ Inserting(q) => executorId[q] # id
    BY <2>1 DEF WatchInv, IdsDiffer
  <2>a. entry.process = p
    OBVIOUS
  <2> HIDE DEF id, entry
  <2>6. DOMAIN authResPool_' = DOMAIN authResPool_ \cup {id}
    BY <2>1
  <2>7. WatchIsFresh'
    BY <2>1, <2>3, <2>4, <2>5, <2>6 DEF WatchInv, WatchIsFresh
  <2>8. InsertIsFresh'
    BY <2>1, <2>3, <2>4, <2>5, <2>6 DEF WatchInv, InsertIsFresh
  <2>9. IdsDiffer'
    BY <2>1, <2>3, <2>4 DEF WatchInv, IdsDiffer
  <2>10. WatchedOnce'
    BY <2>1 DEF WatchInv, WatchedOnce
  <2>11. EntryIsWatched'
    <3>1. authResPool_'[id].process = p
      BY <2>1, <2>2, <2>a
    <3>2. \/ id \in device' /\ <<id, p>> \in watched'
          \/ id \in late' /\ process'[p] = "dead"
      <4>1. CASE <<id, p>> \in watched
        <5>1. id \in Ids
          BY <2>2 DEF PoolTyped
        <5> QED
          BY <2>1, <4>1, <5>1 DEF WatchInv, WatchedOnce
      <4>2. CASE <<id, p>> \notin watched
        BY <2>1, <2>2, <4>2
      <4> QED
        BY <4>1, <4>2
    <3>3. late \subseteq late'
      BY <2>1
    <3>4. ASSUME NEW i \in DOMAIN authResPool_
          PROVE  authResPool_'[i] = authResPool_[i]
      BY <2>1
    <3> QED
      BY <2>1, <2>6, <3>1, <3>2, <3>3, <3>4 DEF WatchInv, EntryIsWatched
  <2> QED
    BY <2>7, <2>8, <2>9, <2>10, <2>11 DEF WatchInv
<1> QED
  BY <1>1, <1>2, <1>3, <1>4, <1>5, <1>6, <1>7, <1>8, <1>9 DEF RegisterStep

LEMMA NoticeKeepsWatch ==
  ASSUME PoolTyped, WatchInv, NEW id \in Ids, NEW p \in Processes, OnRemoteDied(id, p)
  PROVE  WatchInv'
<1>1. /\ <<id, p>> \in watched /\ process[p] = "dead"
      /\ watched' = watched \ {<<id, p>>}
      /\ died' = died \cup {id}
      /\ DOMAIN authResPool_' = DOMAIN authResPool_ \ {id}
      /\ \A i \in DOMAIN authResPool_ \ {id} : authResPool_'[i] = authResPool_[i]
      /\ UNCHANGED <<process, register, executorId, spent, device, late>>
  BY DEF OnRemoteDied, executorVars, callVars, deviceVars
<1>2. WatchIsFresh'
  BY <1>1 DEF WatchInv, WatchIsFresh
<1>3. InsertIsFresh'
  BY <1>1 DEF WatchInv, InsertIsFresh
<1>4. IdsDiffer'
  BY <1>1 DEF WatchInv, IdsDiffer, Inserting
<1>5. WatchedOnce'
  BY <1>1 DEF WatchInv, WatchedOnce
<1>6. EntryIsWatched'
  BY <1>1 DEF WatchInv, EntryIsWatched
<1> QED
  BY <1>2, <1>3, <1>4, <1>5, <1>6 DEF WatchInv

LEMMA DeleteKeepsWatch ==
  ASSUME PoolTyped, WatchInv, NEW id \in Ids, DeleteExecutor(id)
  PROVE  WatchInv'
<1>1. /\ id \in died
      /\ died' \subseteq died
      /\ device' = device \ {id}
      /\ UNCHANGED <<process, register, executorId, spent, authResPool_, watched, late>>
  BY DEF DeleteExecutor, executorVars, callVars
<1>2. \A q \in Processes : <<id, q>> \notin watched
  BY <1>1 DEF WatchInv, WatchedOnce
<1>3. WatchIsFresh' /\ InsertIsFresh' /\ IdsDiffer'
  BY <1>1 DEF WatchInv, WatchIsFresh, InsertIsFresh, IdsDiffer, Inserting
<1>4. WatchedOnce'
  BY <1>1, <1>2 DEF WatchInv, WatchedOnce
<1>5. EntryIsWatched'
  <2>1. \A i \in DOMAIN authResPool_ : authResPool_[i].process \in Processes
    BY DEF PoolTyped, Callbacks
  <2> QED
    BY <1>1, <1>2, <2>1 DEF WatchInv, EntryIsWatched
<1> QED
  BY <1>3, <1>4, <1>5 DEF WatchInv

LEMMA ServiceKeepsWatch ==
  ASSUME TablesTyped, PoolTyped, WatchInv, OnStart \/ ServiceDies
  PROVE  WatchInv'
<1>1. CASE OnStart
  BY <1>1, WatchFrame DEF OnStart, Undisturbed, executorVars, callVars
<1>2. CASE ServiceDies
  <2>1. /\ authResPool_' = <<>> /\ watched' = {}
        /\ \A q \in Processes : ~Inserting(q)'
    BY <1>2 DEF ServiceDies, InService, Inserting, TablesTyped, Steps
  <2>2. DOMAIN authResPool_' = {}
    BY <2>1, EmptyPool
  <2>3. WatchIsFresh' /\ InsertIsFresh' /\ IdsDiffer'
    BY <2>1 DEF WatchIsFresh, InsertIsFresh, IdsDiffer, Inserting
  <2>4. WatchedOnce' /\ EntryIsWatched'
    BY <2>1, <2>2 DEF WatchedOnce, EntryIsWatched
  <2> QED
    BY <2>3, <2>4 DEF WatchInv
<1> QED
  BY <1>1, <1>2

\* Entries and death recipients are as WatchInv has them, in every reachable state.
LEMMA WatchInductive == Spec => []WatchInv
<1>1. Init => TypeInv /\ WatchInv
  <2> SUFFICES ASSUME Init PROVE WatchInv
    BY InitTyped
  <2>1. WatchIsFresh /\ InsertIsFresh /\ IdsDiffer /\ WatchedOnce
    BY DEF Init, WatchIsFresh, InsertIsFresh, IdsDiffer, Inserting, WatchedOnce
  <2>2. DOMAIN authResPool_ = {}
    BY EmptyPool DEF Init
  <2> QED
    BY <2>1, <2>2 DEF WatchInv, EntryIsWatched
<1>2. TypeInv /\ WatchInv /\ [Next]_vars => WatchInv'
  <2> SUFFICES ASSUME TablesTyped, PoolTyped, StepsLinked, WatchInv, [Next]_vars PROVE WatchInv'
    BY DEF TypeInv
  <2>1. CASE OnStart \/ ServiceDies
    BY <2>1, ServiceKeepsWatch
  <2>2. ASSUME NEW p \in Processes, ProcessStep(p) PROVE WatchInv'
    BY <2>2, ProcessKeepsWatch
  <2>3. ASSUME NEW p \in Processes, RegisterStep(p) PROVE WatchInv'
    BY <2>3, RegisterKeepsWatch
  <2>4. ASSUME NEW id \in Ids, NEW p \in Processes, OnRemoteDied(id, p) PROVE WatchInv'
    BY <2>4, NoticeKeepsWatch
  <2>5. ASSUME NEW id \in Ids, DeleteExecutor(id) PROVE WatchInv'
    BY <2>5, DeleteKeepsWatch
  <2>6. CASE UNCHANGED vars
    BY <2>6, WatchFrame DEF vars, Undisturbed, deviceVars, poolVars
  <2> QED
    BY <2>1, <2>2, <2>3, <2>4, <2>5, <2>6 DEF Next
<1> QED
  BY <1>1, <1>2, TypeStep, PTL DEF Spec

\* Every entry of the pool will be cleared by a death notice, save the late ones,
\* for any number of processes and ids: EntryIsWatched is an invariant.
THEOREM PoolIsCleared == Spec => []EntryIsWatched
<1>1. WatchInv => EntryIsWatched
  BY DEF WatchInv
<1> QED
  BY <1>1, WatchInductive, PTL

-----------------------------------------------------------------------------
(***************************************************************************)
(* Messengers                                                              *)
(***************************************************************************)

MessengerInv == DownIsEmpty /\ EntryIsPast /\ MessengerFollows

\* What a step must keep of every process for MessengerInv to outlast it, when it
\* leaves service and pool alone.
SameMessenger(q) ==
  /\ process'[q] = process[q] /\ generation'[q] = generation[q]
  /\ executorList_'[q] = executorList_[q] /\ executorMessenger_'[q] = executorMessenger_[q]
  /\ register[q] = "ready" => register'[q] = "ready"
  /\ register'[q] \in InService => Running \/ register[q] \in InService

LEMMA MessengerFrame ==
  ASSUME PoolTyped, MessengerInv, UNCHANGED <<service, start, authResPool_>>,
         \A q \in Processes : SameMessenger(q)
  PROVE  MessengerInv'
<1>1. DownIsEmpty'
  BY DEF MessengerInv, DownIsEmpty, Running, SameMessenger
<1>2. \A id \in DOMAIN authResPool_ : authResPool_[id].process \in Processes
  BY DEF PoolTyped, Callbacks
<1>3. EntryIsPast'
  BY <1>2 DEF MessengerInv, EntryIsPast, Alive, SameMessenger
<1>4. MessengerFollows'
  BY DEF MessengerInv, MessengerFollows, Registered, SameMessenger
<1> QED
  BY <1>1, <1>3, <1>4 DEF MessengerInv

\* The same where one process changes, which then leads nobody to a callback of
\* its own or has its messenger.
LEMMA MessengerOfOne ==
  ASSUME PoolTyped, MessengerInv, UNCHANGED <<service, start, authResPool_>>,
         NEW p \in Processes,
         \A q \in Processes \ {p} : SameMessenger(q),
         register'[p] \in InService => Running \/ register[p] \in InService,
         \A id \in DOMAIN authResPool_ :
           authResPool_[id].process = p => authResPool_[id].generation <= generation'[p],
         ~Alive(p)' => executorList_'[p] = 0,
         Registered(p)' => executorMessenger_'[p] = start \/ register'[p] = "ready"
  PROVE  MessengerInv'
<1>1. DownIsEmpty'
  BY DEF MessengerInv, DownIsEmpty, Running, SameMessenger
<1>2. \A id \in DOMAIN authResPool_ : authResPool_[id].process \in Processes
  BY DEF PoolTyped, Callbacks
<1>3. EntryIsPast'
  BY <1>2 DEF MessengerInv, EntryIsPast, Alive, SameMessenger
<1>4. MessengerFollows'
  BY DEF MessengerInv, MessengerFollows, Registered, SameMessenger
<1> QED
  BY <1>1, <1>3, <1>4 DEF MessengerInv

\* A driver that a step leaves without an executor is not registered after it.
LEMMA NoneIsUnregistered ==
  ASSUME PoolTyped', NEW p \in Processes, executorList_'[p] = 0
  PROVE  ~Registered(p)'
<1>1. \A id \in DOMAIN authResPool_' : authResPool_'[id].generation # 0
  BY DEF PoolTyped, Callbacks
<1>2. [process |-> p, generation |-> executorList_'[p]].generation = 0
  OBVIOUS
<1> QED
  BY <1>1, <1>2 DEF Registered

LEMMA ProcessKeepsMessenger ==
  ASSUME TablesTyped, PoolTyped, PoolTyped', MessengerInv, NEW p \in Processes, ProcessStep(p)
  PROVE  MessengerInv'
<1> USE DEF SameMessenger, RegisterTo, Alive, serviceVars, executorVars, callVars, poolVars
<1>1. CASE ProcessStarts(p)
  <2>1. process[p] = "absent" /\ process'[p] = "alive"
    BY <1>1 DEF ProcessStarts, TablesTyped
  <2>2. executorList_'[p] = 0
    BY <1>1, <2>1 DEF ProcessStarts, MessengerInv, EntryIsPast
  <2>3. ~Registered(p)'
    BY <2>2, NoneIsUnregistered
  <2> QED
    BY <1>1, <2>1, <2>3, MessengerOfOne DEF ProcessStarts, TablesTyped, MessengerInv, EntryIsPast
<1>2. CASE ProcessDies(p)
  <2>1. executorList_'[p] = 0
    BY <1>2 DEF ProcessDies, TablesTyped
  <2>2. ~Registered(p)'
    BY <2>1, NoneIsUnregistered
  <2>3. register'[p] \in InService => register[p] \in InService
    BY <1>2 DEF ProcessDies, TablesTyped, InService
  <2> QED
    BY <1>2, <2>1, <2>2, <2>3, MessengerOfOne
    DEF ProcessDies, TablesTyped, MessengerInv, EntryIsPast
<1>3. CASE OnHdiConnect(p)
  <2>1. /\ generation' = [generation EXCEPT ![p] = generation[p] + 1]
        /\ executorList_' = [executorList_ EXCEPT ![p] = generation[p] + 1]
        /\ executorMessenger_' = [executorMessenger_ EXCEPT ![p] = 0]
        /\ StartRegister(p) /\ process[p] = "alive"
        /\ UNCHANGED <<service, start, process, authResPool_>>
    BY <1>3 DEF OnHdiConnect
  <2>a. /\ register'[p] \in {"idle", "proxy"}
        /\ \A q \in Processes \ {p} : register'[q] = register[q]
    BY <2>1, StartTyped
  <2>2. generation'[p] = generation[p] + 1 /\ executorList_'[p] = generation[p] + 1
    BY <2>1 DEF TablesTyped
  <2>3. /\ generation[p] \in Nat
        /\ \A id \in DOMAIN authResPool_ : authResPool_[id].generation \in Nat
    BY GenerationIsNat DEF PoolTyped, Callbacks
  <2>4. \A id \in DOMAIN authResPool_ :
          authResPool_[id].process = p => authResPool_[id].generation <= generation[p]
    BY DEF MessengerInv, EntryIsPast
  <2>5. \A id \in DOMAIN authResPool_ :
          authResPool_[id].process = p =>
            /\ authResPool_[id].generation <= generation'[p]
            /\ authResPool_[id].generation # executorList_'[p]
    BY <2>2, <2>3, <2>4
  <2>6. ~Registered(p)'
    BY <2>1, <2>5 DEF Registered
  <2>7. \A q \in Processes \ {p} : SameMessenger(q)
    BY <2>1, <2>a DEF TablesTyped
  <2>8. register'[p] \notin InService
    BY <2>a DEF InService
  <2> QED
    BY <2>1, <2>5, <2>6, <2>7, <2>8, MessengerOfOne
<1>4. CASE OnHdiDisconnect(p)
  <2>1. executorList_'[p] = 0 /\ register'[p] = "idle"
    BY <1>4 DEF OnHdiDisconnect, TablesTyped
  <2>2. ~Registered(p)'
    BY <2>1, NoneIsUnregistered
  <2> QED
    BY <1>4, <2>1, <2>2, MessengerOfOne
    DEF OnHdiDisconnect, TablesTyped, MessengerInv, EntryIsPast, InService
<1>5. CASE OnFrameworkReady(p)
  BY <1>5, StartTyped, MessengerFrame DEF OnFrameworkReady, TablesTyped, InService
<1>6. CASE ResetProxy(p)
  BY <1>6, MessengerFrame DEF ResetProxy
<1> QED
  BY <1>1, <1>2, <1>3, <1>4, <1>5, <1>6 DEF ProcessStep

LEMMA RegisterKeepsMessenger ==
  ASSUME TablesTyped, PoolTyped, PoolTyped', MessengerInv, NEW p \in Processes, RegisterStep(p)
  PROVE  MessengerInv'
<1> USE DEF SameMessenger, RegisterTo, Returns, Answer, InService,
        serviceVars, executorVars, callVars, poolVars
<1>1. CASE GetProxy(p)
  BY <1>1, MessengerFrame DEF GetProxy, TablesTyped
<1>2. CASE GetProxyFails(p)
  BY <1>2, MessengerFrame DEF GetProxyFails, TablesTyped
<1>3. CASE SendRequest(p)
  BY <1>3, MessengerFrame DEF SendRequest, TablesTyped
<1>4. CASE AddExecutor(p)
  BY <1>4, MessengerFrame DEF AddExecutor, TablesTyped
<1>5. CASE AddExecutorFails(p)
  BY <1>5, MessengerFrame DEF AddExecutorFails, TablesTyped
<1>6. CASE AddDeathRecipient(p)
  BY <1>6, MessengerFrame DEF AddDeathRecipient, TablesTyped
<1>7. CASE AddDeathRecipientFails(p)
  BY <1>7, MessengerFrame DEF AddDeathRecipientFails, TablesTyped
<1>8. CASE Insert(p)
  <2> DEFINE entry == [process |-> p, generation |-> generation[p]]
  <2>1. /\ register[p] = "insert"
        /\ register' = [register EXCEPT ![p] = "ready"]
        /\ UNCHANGED <<service, start, process, generation, executorList_, executorMessenger_>>
    BY <1>8 DEF Insert
  <2>2. \A i \in DOMAIN authResPool_' :
          (i \in DOMAIN authResPool_ /\ authResPool_'[i] = authResPool_[i]) \/ authResPool_'[i] = entry
    BY <1>8 DEF Insert
  <2>3. Running
    BY <2>1 DEF MessengerInv, DownIsEmpty
  <2>4. /\ entry.process = p /\ entry.generation = generation[p]
        /\ generation[p] \in Nat
    BY GenerationIsNat
  <2> HIDE DEF entry
  <2>5. DownIsEmpty'
    BY <2>1, <2>3 DEF DownIsEmpty, Running
  <2>6. EntryIsPast'
    BY <2>1, <2>2, <2>4 DEF MessengerInv, EntryIsPast, Alive
  <2>7. MessengerFollows'
    <3> SUFFICES ASSUME NEW q \in Processes, Registered(q)', register'[q] # "ready"
                 PROVE  executorMessenger_'[q] = start'
      BY DEF MessengerFollows
    <3>1. q # p /\ register[q] # "ready"
      BY <2>1 DEF TablesTyped
    <3>2. PICK i \in DOMAIN authResPool_' :
            authResPool_'[i] = [process |-> q, generation |-> executorList_[q]]
      BY <2>1 DEF Registered
    <3>3. authResPool_'[i].process = q
      BY <3>2
    <3>4. i \in DOMAIN authResPool_ /\ authResPool_'[i] = authResPool_[i]
      BY <2>2, <2>4, <3>1, <3>3
    <3>5. Registered(q)
      BY <3>2, <3>4 DEF Registered
    <3> QED
      BY <2>1, <3>1, <3>5 DEF MessengerInv, MessengerFollows
  <2> QED
    BY <2>5, <2>6, <2>7 DEF MessengerInv
<1>9. CASE OnMessengerReady(p)
  <2>1. /\ register' = [register EXCEPT ![p] = "idle"]
        /\ UNCHANGED <<service, start, process, generation, executorList_, authResPool_>>
    BY <1>9 DEF OnMessengerReady
  <2>2. \A q \in Processes \ {p} : executorMessenger_'[q] = executorMessenger_[q]
    BY <1>9 DEF OnMessengerReady, TablesTyped
  <2>3. \A q \in Processes \ {p} : SameMessenger(q)
    BY <2>1, <2>2 DEF TablesTyped
  <2>4. Registered(p)' => executorMessenger_'[p] = start
    <3>1. CASE Alive(p)
      BY <1>9, <3>1 DEF OnMessengerReady, TablesTyped
    <3>2. CASE ~Alive(p)
      <4>1. executorList_'[p] = 0
        BY <2>1, <3>2 DEF MessengerInv, EntryIsPast
      <4> QED
        BY <4>1, NoneIsUnregistered
    <3> QED
      BY <3>1, <3>2
  <2>5. register'[p] = "idle"
    BY <2>1 DEF TablesTyped
  <2> QED
    BY <2>1, <2>3, <2>4, <2>5, MessengerOfOne DEF MessengerInv, EntryIsPast, Alive
<1> QED
  BY <1>1, <1>2, <1>3, <1>4, <1>5, <1>6, <1>7, <1>8, <1>9 DEF RegisterStep

LEMMA ServiceKeepsMessenger ==
  ASSUME TablesTyped, PoolTyped, MessengerInv, OnStart \/ ServiceDies
  PROVE  MessengerInv'
<1> USE DEF executorVars, callVars, poolVars
<1>1. DOMAIN authResPool_' = {}
  <2>1. CASE OnStart
    BY <2>1 DEF OnStart, MessengerInv, DownIsEmpty
  <2>2. CASE ServiceDies
    BY <2>2, EmptyPool DEF ServiceDies
  <2> QED
    BY <2>1, <2>2
<1>2. EntryIsPast'
  BY <1>1 DEF OnStart, ServiceDies, MessengerInv, EntryIsPast, Alive
<1>3. MessengerFollows'
  BY <1>1 DEF MessengerFollows, Registered
<1>4. DownIsEmpty'
  <2>1. CASE OnStart
    BY <2>1 DEF OnStart, DownIsEmpty, Running
  <2>2. CASE ServiceDies
    <3>1. \A q \in Processes : register'[q] \notin InService
      BY <2>2 DEF ServiceDies, InService
    <3> QED
      BY <1>1, <3>1 DEF DownIsEmpty
  <2> QED
    BY <2>1, <2>2
<1> QED
  BY <1>2, <1>3, <1>4 DEF MessengerInv

\* Executor objects, their entries and their messengers are as MessengerInv has them.
LEMMA MessengerInductive == Spec => []MessengerInv
<1>1. Init => MessengerInv
  <2> SUFFICES ASSUME Init PROVE MessengerInv
    OBVIOUS
  <2>1. DOMAIN authResPool_ = {}
    BY EmptyPool DEF Init
  <2> QED
    BY <2>1 DEF Init, MessengerInv, DownIsEmpty, EntryIsPast, MessengerFollows, Registered, InService
<1>2. TypeInv /\ TypeInv' /\ MessengerInv /\ [Next]_vars => MessengerInv'
  <2> SUFFICES ASSUME TablesTyped, PoolTyped, PoolTyped', MessengerInv, [Next]_vars
               PROVE  MessengerInv'
    BY DEF TypeInv
  <2>1. CASE OnStart \/ ServiceDies
    BY <2>1, ServiceKeepsMessenger
  <2>2. ASSUME NEW p \in Processes, ProcessStep(p) PROVE MessengerInv'
    BY <2>2, ProcessKeepsMessenger
  <2>3. ASSUME NEW p \in Processes, RegisterStep(p) PROVE MessengerInv'
    BY <2>3, RegisterKeepsMessenger
  <2>4. ASSUME NEW id \in Ids, NEW p \in Processes, OnRemoteDied(id, p) PROVE MessengerInv'
    <3>1. /\ UNCHANGED <<service, start, process, generation, executorList_, executorMessenger_, register>>
          /\ DOMAIN authResPool_' \subseteq DOMAIN authResPool_
          /\ \A i \in DOMAIN authResPool_' : authResPool_'[i] = authResPool_[i]
      BY <2>4 DEF OnRemoteDied, serviceVars, executorVars
    <3> QED
      BY <3>1 DEF MessengerInv, DownIsEmpty, EntryIsPast, MessengerFollows, Registered, Running, Alive
  <2>5. ASSUME NEW id \in Ids, DeleteExecutor(id) PROVE MessengerInv'
    BY <2>5, MessengerFrame DEF DeleteExecutor, SameMessenger, serviceVars, executorVars
  <2>6. CASE UNCHANGED vars
    BY <2>6, MessengerFrame DEF vars, SameMessenger
  <2> QED
    BY <2>1, <2>2, <2>3, <2>4, <2>5, <2>6 DEF Next
<1> QED
  BY <1>1, <1>2, InitTyped, TypeStep, PTL DEF Spec

\* Whoever the pool leads to has the messenger of this start of the service or is
\* about to get it: MessengerFollows is an invariant.
THEOREM RegisteredHasMessenger == Spec => []MessengerFollows
<1>1. MessengerInv => MessengerFollows
  BY DEF MessengerInv
<1> QED
  BY <1>1, MessengerInductive, PTL

-----------------------------------------------------------------------------
(***************************************************************************)
(* What OnlyFailureMisses rests on: no driver is missed                    *)
(***************************************************************************)

\* The driver's executor is in the pool of the running service, a registration or
\* the boot event is on its way, or the last one had no info from the driver, was
\* refused or went to the proxy of a dead service.
NotMissed(p) ==
  \/ register[p] # "idle" \/ p \in booted
  \/ Registered(p)
  \/ returned[p] \in Unrepeated

\* A registration is of the Executor in the list, and before it returns "ok" that
\* one is in the pool.
Caught(p) ==
  Alive(p) /\ executorList_[p] # 0 =>
    /\ executorList_[p] = generation[p]
    /\ register[p] = "ready" => Registered(p)
    /\ Running => NotMissed(p)

CaughtInv == \A p \in Processes : Caught(p)

\* What a step must keep of a process for Caught to outlast it.
KeptInSight(q) ==
  /\ process'[q] = process[q]
  /\ executorList_'[q] = executorList_[q] /\ generation'[q] = generation[q]
  /\ register'[q] = register[q] /\ returned'[q] = returned[q]
  /\ q \in booted => q \in booted'
  /\ Alive(q) /\ Registered(q) => Registered(q)'

LEMMA SightKeeps ==
  ASSUME NEW q \in Processes, Caught(q), KeptInSight(q), UNCHANGED service
  PROVE  Caught(q)'
BY DEF Caught, KeptInSight, NotMissed, Unrepeated, Alive, Running

\* An entry outlasts a step that leaves the pool and the driver's list alone.
LEMMA EntryStays ==
  ASSUME NEW q \in Processes, UNCHANGED authResPool_, executorList_'[q] = executorList_[q]
  PROVE  Registered(q) => Registered(q)'
BY DEF Registered

LEMMA ProcessKeepsSight ==
  ASSUME TablesTyped, MessengerInv, CaughtInv, NEW p \in Processes, ProcessStep(p)
  PROVE  CaughtInv'
<1> USE DEF CaughtInv, TablesTyped, RegisterTo, Returns, StartRegister, Unrepeated, serviceVars, executorVars,
        callVars, poolVars
<1>1. UNCHANGED <<service, authResPool_>>
  BY DEF ProcessStep, ProcessStarts, ProcessDies, OnHdiConnect, OnHdiDisconnect, OnFrameworkReady, ResetProxy
<1>2. ASSUME NEW q \in Processes \ {p}
      PROVE  /\ UNCHANGED <<process[q], executorList_[q], generation[q], register[q], returned[q]>>
             /\ q \in booted => q \in booted'
  BY DEF ProcessStep, ProcessStarts, ProcessDies, OnHdiConnect, OnHdiDisconnect, OnFrameworkReady, ResetProxy
<1>3. ASSUME NEW q \in Processes \ {p}
      PROVE  Caught(q)'
  <2>1. KeptInSight(q)
    BY <1>1, <1>2, EntryStays DEF KeptInSight
  <2> QED
    BY <1>1, <2>1, SightKeeps
<1>4. Caught(p)'
  <2>1. CASE ProcessStarts(p)
    <3>1. process[p] = "absent" /\ UNCHANGED <<executorList_[p], generation[p], register[p], returned[p], booted>>
      BY <2>1 DEF ProcessStarts
    <3>2. executorList_[p] = 0
      BY <3>1 DEF MessengerInv, EntryIsPast, Alive
    <3> QED
      BY <3>1, <3>2 DEF Caught
  <2>2. CASE ProcessDies(p)
    BY <2>2 DEF ProcessDies, Caught, Alive
  <2>3. CASE OnHdiConnect(p)
    <3>1. /\ register'[p] = "proxy" \/ (register'[p] = "idle" /\ returned'[p] = "no info")
          /\ executorList_'[p] = generation'[p]
      BY <2>3 DEF OnHdiConnect
    <3> QED
      BY <3>1 DEF Caught, NotMissed
  <2>4. CASE OnHdiDisconnect(p)
    BY <2>4 DEF OnHdiDisconnect, Caught
  <2>5. CASE OnFrameworkReady(p)
    <3>1. UNCHANGED <<executorList_[p], generation[p], process[p]>>
      BY <2>5 DEF OnFrameworkReady
    <3>2. executorList_[p] # 0 =>
            register'[p] = "proxy" \/ (register'[p] = "idle" /\ returned'[p] = "no info")
      BY <2>5 DEF OnFrameworkReady
    <3> QED
      BY <3>1, <3>2 DEF Caught, NotMissed, Alive
  <2>6. CASE ResetProxy(p)
    <3>1. KeptInSight(p)
      BY <1>1, <2>6, EntryStays DEF KeptInSight, ResetProxy
    <3> QED
      BY <1>1, <3>1, SightKeeps
  <2> QED
    BY <2>1, <2>2, <2>3, <2>4, <2>5, <2>6 DEF ProcessStep
<1> QED
  BY <1>3, <1>4

\* A registration ends in the pool, or with an answer nothing follows.
LEMMA RegisterKeepsSight ==
  ASSUME TablesTyped, WatchInv, CaughtInv, NEW p \in Processes, RegisterStep(p)
  PROVE  CaughtInv'
<1> USE DEF CaughtInv, TablesTyped, RegisterTo, Returns, Answer, Unrepeated, serviceVars, executorVars, callVars, poolVars
<1>1. ASSUME NEW q \in Processes \ {p}
      PROVE  UNCHANGED <<process[q], executorList_[q], generation[q], register[q], returned[q]>>
  BY DEF RegisterStep, GetProxy, GetProxyFails, SendRequest, AddExecutor, AddExecutorFails, AddDeathRecipient,
     AddDeathRecipientFails, Insert, OnMessengerReady
<1>2. UNCHANGED <<service, booted>> /\ UNCHANGED <<process[p], executorList_[p], generation[p]>>
  BY DEF RegisterStep, GetProxy, GetProxyFails, SendRequest, AddExecutor, AddExecutorFails, AddDeathRecipient,
     AddDeathRecipientFails, Insert, OnMessengerReady
<1>3. ASSUME NEW q \in Processes, Registered(q)
      PROVE  Registered(q)'
  <2>1. executorList_'[q] = executorList_[q]
    BY <1>1, <1>2
  <2>2. CASE Insert(p)
    <3>1. /\ DOMAIN authResPool_ \subseteq DOMAIN authResPool_'
          /\ \A i \in DOMAIN authResPool_ : authResPool_'[i] = authResPool_[i]
      BY <2>2 DEF Insert
    <3> QED
      BY <1>3, <2>1, <3>1 DEF Registered
  <2>3. CASE UNCHANGED authResPool_
    BY <1>3, <2>1, <2>3, EntryStays
  <2> QED
    BY <2>2, <2>3 DEF RegisterStep, GetProxy, GetProxyFails, SendRequest, AddExecutor, AddExecutorFails,
       AddDeathRecipient, AddDeathRecipientFails, OnMessengerReady
<1>4. ASSUME NEW q \in Processes \ {p}
      PROVE  Caught(q)'
  <2>1. KeptInSight(q)
    BY <1>1, <1>2, <1>3 DEF KeptInSight
  <2> QED
    BY <1>2, <2>1, SightKeeps
<1>5. Caught(p)'
  <2> SUFFICES ASSUME Alive(p), executorList_[p] # 0, executorList_[p] = generation[p],
                      register[p] = "ready" => Registered(p)
               PROVE  /\ register'[p] = "ready" => Registered(p)'
                      /\ Running => NotMissed(p)'
    BY <1>2 DEF Caught, Alive, Running
  <2>1. CASE GetProxy(p) \/ AddExecutor(p) \/ AddDeathRecipient(p)
    <3>1. register'[p] \in {"call", "watch", "insert"}
      BY <2>1 DEF GetProxy, AddExecutor, AddDeathRecipient
    <3> QED
      BY <3>1 DEF NotMissed
  <2>2. CASE GetProxyFails(p)
    BY <2>2 DEF GetProxyFails
  <2>3. CASE SendRequest(p)
    <3>1. register'[p] = "add" \/ (register'[p] = "idle" /\ returned'[p] = "dead service")
      BY <2>3 DEF SendRequest
    <3> QED
      BY <3>1 DEF NotMissed
  <2>4. CASE AddExecutorFails(p) \/ AddDeathRecipientFails(p)
    <3>1. register'[p] = "idle" /\ returned'[p] = "refused"
      BY <2>4 DEF AddExecutorFails, AddDeathRecipientFails
    <3> QED
      BY <3>1 DEF NotMissed
  <2>5. CASE Insert(p)
    <3>1. register[p] = "insert" /\ register'[p] = "ready"
      BY <2>5 DEF Insert
    <3>2. executorId[p] \notin DOMAIN authResPool_
      BY <3>1 DEF WatchInv, InsertIsFresh
    <3>3. /\ executorId[p] \in DOMAIN authResPool_'
          /\ authResPool_'[executorId[p]] = [process |-> p, generation |-> generation[p]]
      BY <2>5, <3>2 DEF Insert
    <3>4. Registered(p)'
      BY <1>2, <3>3 DEF Registered
    <3> QED
      BY <3>4 DEF NotMissed
  <2>6. CASE OnMessengerReady(p)
    <3>1. register[p] = "ready" /\ register'[p] = "idle"
      BY <2>6 DEF OnMessengerReady
    <3> QED
      BY <1>3, <3>1 DEF NotMissed
  <2> QED
    BY <2>1, <2>2, <2>3, <2>4, <2>5, <2>6 DEF RegisterStep
<1> QED
  BY <1>4, <1>5

\* A death notice clears the pool of the dead only.
LEMMA NoticeKeepsSight ==
  ASSUME PoolTyped, WatchInv, CaughtInv, NEW id \in Ids, NEW p \in Processes, OnRemoteDied(id, p)
  PROVE  CaughtInv'
<1>1. /\ <<id, p>> \in watched /\ process[p] = "dead"
      /\ DOMAIN authResPool_' = DOMAIN authResPool_ \ {id}
      /\ \A i \in DOMAIN authResPool_' : authResPool_'[i] = authResPool_[i]
      /\ UNCHANGED <<service, booted, process, generation, executorList_, register, returned>>
  BY DEF OnRemoteDied, serviceVars, executorVars
<1>2. ASSUME NEW q \in Processes, Alive(q), Registered(q)
      PROVE  Registered(q)'
  <2>1. PICK i \in DOMAIN authResPool_ : authResPool_[i] = [process |-> q, generation |-> executorList_[q]]
    BY <1>2 DEF Registered
  <2>2. authResPool_[i].process = q
    BY <2>1
  <2>3. <<i, q>> \in watched
    BY <1>2, <2>2 DEF WatchInv, EntryIsWatched, Alive
  <2>4. i # id
    <3>1. q # p
      BY <1>1, <1>2 DEF Alive
    <3> QED
      BY <1>1, <2>3, <3>1 DEF WatchInv, WatchedOnce
  <2>5. i \in DOMAIN authResPool_' /\ authResPool_'[i] = [process |-> q, generation |-> executorList_'[q]]
    BY <1>1, <2>1, <2>4
  <2> QED
    BY <2>5 DEF Registered
<1>3. ASSUME NEW q \in Processes
      PROVE  KeptInSight(q)
  BY <1>1, <1>2 DEF KeptInSight
<1> QED
  BY <1>1, <1>3, SightKeeps DEF CaughtInv

\* The boot event is sent to everyone who is alive.
LEMMA ServiceKeepsSight ==
  ASSUME TablesTyped, CaughtInv, OnStart \/ ServiceDies
  PROVE  CaughtInv'
<1> USE DEF TablesTyped, executorVars, poolVars
<1>1. CASE OnStart
  <2>1. ASSUME NEW q \in Processes
        PROVE  Caught(q)'
    <3>1. Alive(q) => q \in booted'
      BY <1>1 DEF OnStart
    <3>2. Registered(q) => Registered(q)'
      BY <1>1, EntryStays DEF OnStart
    <3>3. UNCHANGED <<process[q], executorList_[q], generation[q], register[q]>>
      BY <1>1 DEF OnStart
    <3> QED
      BY <3>1, <3>2, <3>3 DEF CaughtInv, Caught, NotMissed, Alive
  <2> QED
    BY <2>1 DEF CaughtInv
<1>2. CASE ServiceDies
  <2>1. ASSUME NEW q \in Processes
        PROVE  Caught(q)'
    <3>1. /\ UNCHANGED <<process[q], executorList_[q], generation[q]>>
          /\ service' = "down" /\ register'[q] # "ready"
      BY <1>2 DEF ServiceDies, InService
    <3> QED
      BY <3>1 DEF CaughtInv, Caught, Alive, Running
  <2> QED
    BY <2>1 DEF CaughtInv
<1> QED
  BY <1>1, <1>2

\* The safety half of OnlyFailureMisses: a driver of a living process that a
\* running service does not find has a registration or a boot event to come, or its
\* last registration had no info from the driver, was refused or went to the proxy
\* of a dead service.
NoDriverIsMissed ==
  \A p \in Processes : Running /\ Alive(p) /\ executorList_[p] # 0 => NotMissed(p)

\* However connects, the service's starts and deaths, the boot events and the
\* death notices of other processes interleave: nothing but a driver without info, a
\* refusal and the stale proxy costs a driver its place in the pool.
THEOREM NobodyIsMissed == Spec => []NoDriverIsMissed
<1>1. Init => CaughtInv
  BY DEF Init, CaughtInv, Caught, Alive
<1>2. TypeInv /\ WatchInv /\ MessengerInv /\ CaughtInv /\ [Next]_vars => CaughtInv'
  <2> SUFFICES ASSUME TablesTyped, PoolTyped, WatchInv, MessengerInv, CaughtInv, [Next]_vars
               PROVE  CaughtInv'
    BY DEF TypeInv
  <2>1. CASE OnStart \/ ServiceDies
    BY <2>1, ServiceKeepsSight
  <2>2. ASSUME NEW p \in Processes, ProcessStep(p) PROVE CaughtInv'
    BY <2>2, ProcessKeepsSight
  <2>3. ASSUME NEW p \in Processes, RegisterStep(p) PROVE CaughtInv'
    BY <2>3, RegisterKeepsSight
  <2>4. ASSUME NEW id \in Ids, NEW p \in Processes, OnRemoteDied(id, p) PROVE CaughtInv'
    BY <2>4, NoticeKeepsSight
  <2>5. ASSUME UNCHANGED vars \/ \E id \in Ids : DeleteExecutor(id)
        PROVE  CaughtInv'
    <3>1. UNCHANGED <<service, booted, process, generation, executorList_, register, returned, authResPool_>>
      BY <2>5 DEF DeleteExecutor, vars, serviceVars, executorVars
    <3>2. ASSUME NEW q \in Processes
          PROVE  KeptInSight(q)
      BY <3>1, EntryStays DEF KeptInSight
    <3> QED
      BY <3>1, <3>2, SightKeeps DEF CaughtInv
  <2> QED
    BY <2>1, <2>2, <2>3, <2>4, <2>5 DEF Next
<1>3. CaughtInv => NoDriverIsMissed
  BY DEF CaughtInv, Caught, NoDriverIsMissed
<1> QED
  BY <1>1, <1>2, <1>3, InitTyped, TypeStep, WatchInductive, MessengerInductive, PTL DEF Spec
=============================================================================
