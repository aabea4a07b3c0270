------------------------- MODULE ThreadGroupsProofs -------------------------
(***************************************************************************)
(* Proofs about ThreadGroups, for every set of transactions and pools and  *)
(* every number of threads and tasks.                                      *)
(***************************************************************************)
EXTENDS ThreadGroups, SequenceTheorems, FiniteSetTheorems, TLAPS

\* The operation that holds the mutex is one a caller can have asked for, and a
\* thread that gives itself back is inside the task that does it.
LockInv ==
  /\ mutex_.op \in {"retain", "post"} => mutex_.transaction \in Transactions
  /\ mutex_.op = "post" => mutex_.what \in {"post", "finish"}
  /\ mutex_.op = "release" => mutex_.by \in Pools /\ current[mutex_.by].what = "finish"

TypeInv == TypeOK /\ LockInv

\* frees_ never holds more pools than are kept.
SizeInv ==
  /\ stopped = {}
  /\ IsFiniteSet(Retained) /\ IsFiniteSet(Created)
  /\ Len(frees_) + Cardinality(Retained) <= ThreadNum
  /\ Cardinality(Created) <= Len(frees_) + Cardinality(Retained)

IInv == TypeInv /\ SizeInv /\ PoolsHaveOneOwner

\* As long as there is room in frees_, a pool given back is moved to its end.
LEMMA GivingBack ==
  ASSUME frees_ \in Seq(Pools), NEW p \in Pools, Len(frees_) < ThreadNumKeep, ThreadNumKeep \in Nat,
         GiveBack(p)
  PROVE  frees_' = Append(frees_, p) /\ stopped' = stopped
<1> DEFINE all  == Append(frees_, p)
           over == IF Len(all) > ThreadNumKeep THEN Len(all) - ThreadNumKeep ELSE 0
<1>1. all \in Seq(Pools) /\ Len(all) = Len(frees_) + 1
  OBVIOUS
<1>2. over = 0
  BY <1>1
<1>3. frees_' = SubSeq(all, over + 1, Len(all)) /\ stopped' = stopped \cup {all[i] : i \in 1..over}
  BY DEF GiveBack
<1> HIDE DEF all, over
<1>4. frees_' = all
  BY <1>1, <1>2, <1>3, SubSeqFull
<1>5. stopped' = stopped
  <2>1. 1..over = {}
    BY <1>2
  <2> QED
    BY <1>3, <2>1
<1> QED
  BY <1>4, <1>5 DEF all

\* A task added to the queue of one pool.
LEMMA AddingTask ==
  ASSUME tasks \in [Pools -> Seq(Tasks)], NEW p \in Pools, NEW task \in Tasks, AddTask(p, task)
  PROVE  /\ tasks' \in [Pools -> Seq(Tasks)]
         /\ \A q \in Pools : tasks'[q] = IF q = p THEN Append(tasks[p], task) ELSE tasks[q]
BY DEF AddTask

\* The free pools after one is given back, and after the oldest is taken.
LEMMA FreeAppended ==
  ASSUME frees_ \in Seq(Pools), NEW p \in Pools, frees_' = Append(frees_, p)
  PROVE  /\ frees_' \in Seq(Pools) /\ Len(frees_') = Len(frees_) + 1
         /\ Free' = Free \cup {p}
         /\ \A i \in DOMAIN frees_' : frees_'[i] = IF i = Len(frees_) + 1 THEN p ELSE frees_[i]
         /\ DOMAIN frees_' = 1..(Len(frees_) + 1) /\ DOMAIN frees_ = 1..Len(frees_)
BY DEF Free

LEMMA FreeTaken ==
  ASSUME frees_ \in Seq(Pools), frees_ # <<>>, frees_' = Tail(frees_)
  PROVE  /\ frees_' \in Seq(Pools) /\ Len(frees_') = Len(frees_) - 1
         /\ Free = Free' \cup {Head(frees_)} /\ Head(frees_) = frees_[1]
         /\ \A i \in DOMAIN frees_' : frees_'[i] = frees_[i + 1] /\ i + 1 \in DOMAIN frees_ /\ i # 0
         /\ 1 \in DOMAIN frees_ /\ Head(frees_) \in Pools
<1>1. Len(frees_) > 0 /\ DOMAIN frees_ = 1..Len(frees_)
  BY EmptySeq
<1>2. /\ frees_' \in Seq(Pools) /\ Len(frees_') = Len(frees_) - 1
      /\ \A i \in 1..Len(frees_') : frees_'[i] = frees_[i + 1]
  BY HeadTailProperties
<1>3. DOMAIN frees_' = 1..Len(frees_')
  BY <1>2
<1>4. Head(frees_) = frees_[1] /\ Head(frees_) \in Pools
  BY <1>1
<1>5. ASSUME NEW i \in DOMAIN frees_
      PROVE  i = 1 \/ (i - 1 \in DOMAIN frees_' /\ frees_[i] = frees_'[i - 1])
  BY <1>1, <1>2, <1>3, <1>5
<1>6. Free = Free' \cup {Head(frees_)}
  <2>1. ASSUME NEW i \in DOMAIN frees_
        PROVE  frees_[i] \in Free' \cup {Head(frees_)}
    BY <1>4, <1>5, <2>1 DEF Free
  <2>2. ASSUME NEW i \in DOMAIN frees_'
        PROVE  frees_'[i] \in Free
    BY <1>1, <1>2, <1>3, <2>2 DEF Free
  <2>3. Head(frees_) \in Free
    BY <1>1, <1>4 DEF Free
  <2> QED
    BY <2>1, <2>2, <2>3 DEF Free
<1> QED
  BY <1>1, <1>2, <1>3, <1>4, <1>6

(***************************************************************************)
(* One owner for each pool, and room for all of them                       *)
(***************************************************************************)

\* A transaction retains the oldest free pool, or a new one.
LEMMA Retaining ==
  ASSUME ThreadGroupsAssumption, IInv, RetainTaskThread
  PROVE  IInv'
<1> DEFINE t == mutex_.transaction
<1> USE ThreadGroupsAssumption DEF ThreadGroupsAssumption
<1>1. PICK p \in Pools :
        /\ \/ frees_ = <<>> /\ p \notin Created /\ UNCHANGED frees_
           \/ frees_ # <<>> /\ p = Head(frees_) /\ frees_' = Tail(frees_)
        /\ retains_' = [retains_ EXCEPT ![t] = p]
        /\ AddTask(p, Task("ensure", t))
  BY DEF RetainTaskThread, EnsureTransaction
<1>2. /\ t \in Transactions /\ t \notin Retained /\ Cardinality(Retained) < ThreadNum
      /\ mutex_' = NoOp
      /\ UNCHANGED <<pools_, stopped, current, transactionCurr_, bounds>>
  BY DEF RetainTaskThread, Unlock, IInv, TypeInv, LockInv
<1>3. /\ retains_ \in [Transactions -> Pools \cup {None}] /\ frees_ \in Seq(Pools)
      /\ tasks \in [Pools -> Seq(Tasks)] /\ stopped = {}
  BY DEF IInv, TypeInv, TypeOK, SizeInv
<1>4. \A u \in Transactions : retains_'[u] = IF u = t THEN p ELSE retains_[u]
  BY <1>1, <1>3
<1>5. /\ Retained' = Retained \cup {t} /\ p # None
      /\ retains_'[t] = p /\ \A u \in Retained : u # t /\ retains_'[u] = retains_[u]
  BY <1>2, <1>4 DEF Retained
<1>6. tasks' \in [Pools -> Seq(Tasks)]
  BY <1>1, <1>2, <1>3, AddingTask DEF Task, Tasks
<1>7. frees_' \in Seq(Pools)
  BY <1>1, <1>3, FreeTaken
<1>8. TypeInv'
  <2>1. retains_' \in [Transactions -> Pools \cup {None}]
    BY <1>1, <1>3
  <2> QED
    BY <1>2, <1>6, <1>7, <2>1 DEF IInv, TypeInv, TypeOK, LockInv, NoOp, Operation, bounds
<1>9. /\ IsFiniteSet(Retained') /\ Cardinality(Retained') = Cardinality(Retained) + 1
      /\ Cardinality(Retained) \in Nat /\ Cardinality(Created) \in Nat
  BY <1>2, <1>5, FS_AddElement, FS_CardinalityType DEF IInv, SizeInv
<1>10. CASE frees_ = <<>>
  <2>1. Created' = Created \cup {p} /\ p \notin Created /\ frees_' = frees_
    BY <1>1, <1>2, <1>4, <1>5, <1>10 DEF Created, Free
  <2>2. IsFiniteSet(Created') /\ Cardinality(Created') = Cardinality(Created) + 1
    BY <2>1, FS_AddElement DEF IInv, SizeInv
  <2>3. Len(frees_) = 0
    BY <1>10
  <2>4. SizeInv'
    BY <1>2, <1>3, <1>9, <2>1, <2>2, <2>3 DEF IInv, SizeInv
  <2>5. p \notin Free /\ p \notin stopped /\ \A u \in Retained : retains_[u] # p
    BY <2>1 DEF Created
  <2>6. Free' = Free
    BY <2>1 DEF Free
  <2>7. PoolsHaveOneOwner'
    BY <1>2, <1>5, <2>1, <2>5, <2>6 DEF IInv, PoolsHaveOneOwner
  <2> QED
    BY <1>8, <2>4, <2>7 DEF IInv
<1>11. CASE frees_ # <<>>
  <2>1. p = Head(frees_) /\ frees_' = Tail(frees_)
    BY <1>1, <1>11
  <2>2. /\ Len(frees_') = Len(frees_) - 1
        /\ Free = Free' \cup {p} /\ p = frees_[1] /\ 1 \in DOMAIN frees_
        /\ \A i \in DOMAIN frees_' : frees_'[i] = frees_[i + 1] /\ i + 1 \in DOMAIN frees_ /\ i # 0
    BY <1>3, <1>11, <2>1, FreeTaken
  <2>3. p \in Free
    BY <2>2
  <2>4. \A i \in DOMAIN frees_' : i \in Int /\ i + 1 # 1
    BY <1>7, <2>2
  <2>5. p \notin Free'
    BY <2>2, <2>4 DEF Free, IInv, PoolsHaveOneOwner
  <2>6. Created' = Created
    <3>1. {retains_'[u] : u \in Retained'} = {retains_[u] : u \in Retained} \cup {p}
      BY <1>5
    <3> QED
      BY <1>2, <2>2, <3>1 DEF Created
  <2>7. SizeInv'
    BY <1>2, <1>3, <1>9, <2>2, <2>6 DEF IInv, SizeInv
  <2>8. \A i, j \in DOMAIN frees_' : frees_'[i] = frees_'[j] => i = j
    <3> SUFFICES ASSUME NEW i \in DOMAIN frees_', NEW j \in DOMAIN frees_', frees_'[i] = frees_'[j]
                 PROVE  i = j
      OBVIOUS
    <3>1. i + 1 = j + 1
      BY <2>2 DEF IInv, PoolsHaveOneOwner
    <3> QED
      BY <2>4, <3>1
  <2>9. \A u, v \in Retained' : retains_'[u] = retains_'[v] => u = v
    <3>1. \A u \in Retained : retains_'[u] # p
      BY <1>5, <2>3 DEF IInv, PoolsHaveOneOwner
    <3> QED
      BY <1>5, <3>1 DEF IInv, PoolsHaveOneOwner
  <2>10. \A u \in Retained' : retains_'[u] \notin Free' \cup stopped'
    BY <1>2, <1>3, <1>5, <2>2, <2>5 DEF IInv, PoolsHaveOneOwner
  <2>11. Free' \cap stopped' = {}
    BY <1>2, <1>3
  <2> QED
    BY <1>8, <2>7, <2>8, <2>9, <2>10, <2>11 DEF IInv, PoolsHaveOneOwner
<1> QED
  BY <1>10, <1>11

\* A transaction gives its pool back: by itself, or when the group is destroyed.
LEMMA Releasing ==
  ASSUME ThreadGroupsAssumption, IInv, NEW t \in Retained,
         EnsureTransaction(retains_[t], None), GiveBack(retains_[t]),
         retains_' = [retains_ EXCEPT ![t] = None]
  PROVE  /\ SizeInv' /\ PoolsHaveOneOwner'
         /\ frees_' \in Seq(Pools) /\ tasks' \in [Pools -> Seq(Tasks)]
         /\ retains_' \in [Transactions -> Pools \cup {None}]
         /\ UNCHANGED stopped
<1> DEFINE p == retains_[t]
<1> USE ThreadGroupsAssumption DEF ThreadGroupsAssumption
<1>1. /\ retains_ \in [Transactions -> Pools \cup {None}] /\ frees_ \in Seq(Pools)
      /\ tasks \in [Pools -> Seq(Tasks)] /\ stopped = {}
  BY DEF IInv, TypeInv, TypeOK, SizeInv
<1>2. t \in Transactions /\ p \in Pools
  BY <1>1 DEF Retained
<1>3. \A u \in Transactions : retains_'[u] = IF u = t THEN None ELSE retains_[u]
  BY <1>1
<1>4. Retained' = Retained \ {t}
  BY <1>3 DEF Retained
<1>5. /\ IsFiniteSet(Retained') /\ Cardinality(Retained') = Cardinality(Retained) - 1
      /\ Cardinality(Retained) \in Nat /\ Cardinality(Retained') \in Nat /\ Cardinality(Created) \in Nat
  BY <1>4, FS_RemoveElement, FS_CardinalityType DEF IInv, SizeInv
<1>6. Len(frees_) < ThreadNumKeep /\ Len(frees_) \in Nat
  BY <1>1, <1>5 DEF IInv, SizeInv
<1>7. frees_' = Append(frees_, p) /\ stopped' = stopped
  BY <1>1, <1>2, <1>6, GivingBack
<1>8. /\ frees_' \in Seq(Pools) /\ Len(frees_') = Len(frees_) + 1
      /\ Free' = Free \cup {p}
      /\ \A i \in DOMAIN frees_' : frees_'[i] = IF i = Len(frees_) + 1 THEN p ELSE frees_[i]
      /\ DOMAIN frees_' = 1..(Len(frees_) + 1) /\ DOMAIN frees_ = 1..Len(frees_)
  BY <1>1, <1>2, <1>7, FreeAppended
<1>9. Created' = Created
  BY <1>3, <1>4, <1>7, <1>8 DEF Created, Retained
<1>10. SizeInv'
  BY <1>1, <1>5, <1>6, <1>7, <1>8, <1>9 DEF IInv, SizeInv
<1>11. p \notin Free
  BY DEF IInv, PoolsHaveOneOwner
<1>12. \A i, j \in DOMAIN frees_' : frees_'[i] = frees_'[j] => i = j
  <2> SUFFICES ASSUME NEW i \in DOMAIN frees_', NEW j \in DOMAIN frees_', frees_'[i] = frees_'[j]
               PROVE  i = j
    OBVIOUS
  <2>1. \A k \in DOMAIN frees_' : k # Len(frees_) + 1 => k \in DOMAIN frees_ /\ frees_'[k] = frees_[k] /\ frees_[k] # p
    BY <1>6, <1>8, <1>11 DEF Free
  <2> QED
    BY <1>8, <2>1 DEF IInv, PoolsHaveOneOwner
<1>13. /\ \A u, v \in Retained' : retains_'[u] = retains_'[v] => u = v
       /\ \A u \in Retained' : retains_'[u] \notin Free' \cup stopped'
       /\ Free' \cap stopped' = {}
  BY <1>1, <1>3, <1>4, <1>7, <1>8 DEF IInv, PoolsHaveOneOwner, Retained
<1>14. tasks' \in [Pools -> Seq(Tasks)]
  BY <1>1, <1>2, AddingTask DEF EnsureTransaction, Task, Tasks
<1>15. retains_' \in [Transactions -> Pools \cup {None}]
  BY <1>1
<1> QED
  BY <1>7, <1>8, <1>10, <1>12, <1>13, <1>14, <1>15 DEF PoolsHaveOneOwner

\* The other operations and the threads leave the pools to their owners.
LEMMA OwnerFrame ==
  ASSUME SizeInv, PoolsHaveOneOwner, UNCHANGED <<retains_, frees_, stopped>>
  PROVE  SizeInv' /\ PoolsHaveOneOwner'
BY DEF SizeInv, PoolsHaveOneOwner, Retained, Free, Created

LEMMA Inductive == Spec => []IInv
<1>1. ASSUME ThreadGroupsAssumption, Init
      PROVE  IInv
  <2> USE <1>1 DEF ThreadGroupsAssumption, Init
  <2>1. Retained = {} /\ Created = {} /\ Free = {}
    BY DEF Retained, Created, Free
  <2>2. SizeInv
    BY <2>1, FS_EmptySet DEF SizeInv
  <2>3. PoolsHaveOneOwner
    BY <2>1 DEF PoolsHaveOneOwner
  <2>4. pools_ \in BOOLEAN
    BY Zenon
  <2>5. TypeOK
    BY <2>4 DEF TypeOK, NoOp, Operation, Operations
  <2>6. TypeInv
    BY <2>5 DEF TypeInv, LockInv, NoOp, Operation
  <2> QED
    BY <2>2, <2>3, <2>6 DEF IInv
<1>2. ASSUME ThreadGroupsAssumption, IInv, [Next]_vars
      PROVE  IInv'
  <2> USE <1>2
  <2> USE DEF IInv
  <2>1. CASE RetainTaskThread
    BY <2>1, Retaining
  <2>2. CASE ReleaseTaskThread
    <3>1. mutex_.transaction \in Retained /\ mutex_.by \in Pools
      BY <2>2 DEF ReleaseTaskThread, TypeInv, LockInv
    <3>2. /\ SizeInv' /\ PoolsHaveOneOwner'
          /\ frees_' \in Seq(Pools) /\ tasks' \in [Pools -> Seq(Tasks)]
          /\ retains_' \in [Transactions -> Pools \cup {None}]
          /\ UNCHANGED stopped
      BY <2>2, <3>1, Releasing DEF ReleaseTaskThread
    <3>3. TypeInv'
      BY <2>2, <3>1, <3>2 DEF ReleaseTaskThread, TypeInv, TypeOK, LockInv, Unlock, NoOp, Operation, bounds
    <3> QED
      BY <3>2, <3>3
  <2>3. CASE DestroyReleases
    <3>1. PICK t \in Retained :
            /\ EnsureTransaction(retains_[t], None) /\ GiveBack(retains_[t])
            /\ retains_' = [retains_ EXCEPT ![t] = None]
      BY <2>3 DEF DestroyReleases
    <3>2. /\ SizeInv' /\ PoolsHaveOneOwner'
          /\ frees_' \in Seq(Pools) /\ tasks' \in [Pools -> Seq(Tasks)]
          /\ retains_' \in [Transactions -> Pools \cup {None}]
          /\ UNCHANGED stopped
      BY <3>1, Releasing
    <3>3. TypeInv'
      BY <2>3, <3>2 DEF DestroyReleases, TypeInv, TypeOK, LockInv, bounds
    <3> QED
      BY <3>2, <3>3
  <2> USE DEF bounds, TypeInv, TypeOK, LockInv
  <2>4. CASE CreateThreadGroup
    BY <2>4, OwnerFrame DEF CreateThreadGroup
  <2>5. CASE CallDestroy
    BY <2>5, OwnerFrame DEF CallDestroy, Lock, Operation, Operations
  <2>6. ASSUME NEW t \in Transactions, CallRetain(t)
        PROVE  IInv'
    BY <2>6, OwnerFrame DEF CallRetain, Lock, Operation, Operations
  <2>7. ASSUME NEW t \in Transactions, NEW what \in {"post", "finish"}, CallPost(t, what)
        PROVE  IInv'
    BY <2>7, OwnerFrame DEF CallPost, Lock, Operation, Operations
  <2>8. ASSUME NEW p \in Pools, CallRelease(p)
        PROVE  IInv'
    <3>1. current[p].transaction \in Transactions \cup {None}
      BY <2>8 DEF Tasks, NoTask, Task
    <3> QED
      BY <2>8, <3>1, OwnerFrame DEF CallRelease, Lock, Operation, Operations
  <2>9. CASE RetainFails \/ PostFails
    BY <2>9, OwnerFrame DEF RetainFails, PostFails, Unlock, NoOp, Operation
  <2>10. CASE DestroyThreadGroup
    <3>1. pools_' \in BOOLEAN
      BY <2>10, Zenon DEF DestroyThreadGroup
    <3>2. mutex_' = NoOp /\ UNCHANGED <<retains_, frees_, stopped, tasks, current, transactionCurr_, bounds>>
      BY <2>10 DEF DestroyThreadGroup, Unlock
    <3> QED
      BY <3>1, <3>2, OwnerFrame DEF NoOp, Operation
  <2>11. CASE ReleaseFails
    BY <2>11, OwnerFrame DEF ReleaseFails, Unlock, NoOp, Operation
  <2>12. CASE PostTask
    <3>1. retains_[mutex_.transaction] \in Pools /\ Task(mutex_.what, mutex_.transaction) \in Tasks
      BY <2>12 DEF PostTask, Retained, Task, Tasks
    <3>2. tasks' \in [Pools -> Seq(Tasks)]
      BY <2>12, <3>1, AddingTask DEF PostTask
    <3> QED
      BY <2>12, <3>2, OwnerFrame DEF PostTask, Unlock, NoOp, Operation
  <2>13. ASSUME NEW p \in Pools, TakeTask(p)
         PROVE  IInv'
    <3>1. Head(tasks[p]) \in Tasks /\ Tail(tasks[p]) \in Seq(Tasks)
      BY <2>13, HeadTailProperties DEF TakeTask
    <3>2. tasks' \in [Pools -> Seq(Tasks)] /\ current' \in [Pools -> Tasks \cup {NoTask}]
      BY <2>13, <3>1 DEF TakeTask
    <3>3. LockInv'
      BY <2>13 DEF TakeTask, NoTask, Task
    <3> QED
      BY <2>13, <3>2, <3>3, OwnerFrame DEF TakeTask
  <2>14. ASSUME NEW p \in Pools, RunEnsure(p)
         PROVE  IInv'
    <3>1. current[p].transaction \in Transactions \cup {None}
      BY <2>14 DEF Tasks, NoTask, Task
    <3> QED
      BY <2>14, <3>1, OwnerFrame DEF RunEnsure
  <2>15. ASSUME NEW p \in Pools, RunPost(p)
         PROVE  IInv'
    BY <2>15, OwnerFrame DEF RunPost
  <2>16. CASE UNCHANGED vars
    BY <2>16, OwnerFrame DEF vars
  <2> QED
    BY <2>1, <2>2, <2>3, <2>4, <2>5, <2>6, <2>7, <2>8, <2>9, <2>10, <2>11, <2>12, <2>13, <2>14, <2>15, <2>16
    DEF Next, OperationStep, ThreadStep
<1> QED
  BY <1>1, <1>2, ThreadGroupsAssumption, PTL DEF Spec

\* Every variable of the group keeps its type.
THEOREM TypeCorrect == Spec => []TypeOK
BY Inductive, PTL DEF IInv, TypeInv

\* No pool is ever retained by two transactions, or by one while it is free.
THEOREM OwnersAreSingle == Spec => []PoolsHaveOneOwner
BY Inductive, PTL DEF IInv

\* The loop that pops frees_ never destroys a pool, whatever retains and releases
\* came before, as long as no more threads are allowed than are kept.
THEOREM NoneDestroyed == Spec => []NoPoolDestroyed
<1>1. IInv => NoPoolDestroyed
  <2> SUFFICES ASSUME IInv
               PROVE  NoPoolDestroyed
    OBVIOUS
  <2>1. Cardinality(Created) \in Nat /\ Cardinality(Retained) \in Nat /\ Len(frees_) \in Nat
    BY FS_CardinalityType DEF IInv, SizeInv, TypeInv, TypeOK
  <2> QED
    BY <2>1, ThreadGroupsAssumption DEF ThreadGroupsAssumption, IInv, SizeInv, NoPoolDestroyed
<1> QED
  BY <1>1, Inductive, PTL

(***************************************************************************)
(* A task runs under the name of its transaction                           *)
(***************************************************************************)

Posts == {"post", "finish"}

\* Places 1..i-1 of the queue of p hold no EnsureTransaction.
NoneBefore(p, i) == \A k \in 1..(i - 1) : tasks[p][k].what # "ensure"

\* The name the thread of p will have once it is through with its present task.
Named(p, t) ==
  IF current[p].what = "ensure" THEN current[p].transaction = t ELSE transactionCurr_[p] = t

\* The name it will have at place i of its queue.
NamedAt(p, i, t) ==
  \/ NoneBefore(p, i) /\ Named(p, t)
  \/ \E j \in 1..(i - 1) :
       /\ tasks[p][j] = Task("ensure", t)
       /\ \A k \in (j + 1)..(i - 1) : tasks[p][k].what # "ensure"

\* Each post is queued where its name will be right, and so would be the next
\* one of a transaction that retains the pool.
QueueInv ==
  \A p \in Pools : \A i \in DOMAIN tasks[p] :
    tasks[p][i].what \in Posts => NamedAt(p, i, tasks[p][i].transaction)

EndInv == \A t \in Retained : NamedAt(retains_[t], Len(tasks[retains_[t]]) + 1, t)

NameInv == QueueInv /\ EndInv /\ TaskSeesItsTransaction

\* What a place in the queue sees depends on the places before it alone.
LEMMA SameBefore ==
  ASSUME NEW p \in Pools, NEW i \in Nat, NEW t, NamedAt(p, i, t),
         \A k \in 1..(i - 1) : tasks'[p][k] = tasks[p][k],
         Named(p, t) => Named(p, t)'
  PROVE  NamedAt(p, i, t)'
<1>1. CASE NoneBefore(p, i) /\ Named(p, t)
  BY <1>1 DEF NamedAt, NoneBefore
<1>2. ASSUME NEW j \in 1..(i - 1), tasks[p][j] = Task("ensure", t),
             \A k \in (j + 1)..(i - 1) : tasks[p][k].what # "ensure"
      PROVE  NamedAt(p, i, t)'
  <2>1. tasks'[p][j] = Task("ensure", t)
    BY <1>2
  <2>2. \A k \in (j + 1)..(i - 1) : tasks'[p][k].what # "ensure"
    BY <1>2
  <2> QED
    BY <1>2, <2>1, <2>2 DEF NamedAt
<1> QED
  BY <1>1, <1>2 DEF NamedAt

\* A task is added to the queue of p: for each place up to the new one nothing
\* changes, after it the name is the same, or the one it ensures.
LEMMA NamesAfterAdding ==
  ASSUME TypeOK, QueueInv, NEW p \in Pools, NEW task \in Tasks, AddTask(p, task),
         \A q \in Pools : \A t : Named(q, t) => Named(q, t)',
         task.what \in Posts => NamedAt(p, Len(tasks[p]) + 1, task.transaction)
  PROVE  /\ QueueInv'
         /\ \A q \in Pools, t \in Transactions :
              q # p /\ NamedAt(q, Len(tasks[q]) + 1, t) => NamedAt(q, Len(tasks[q]) + 1, t)'
         /\ \A t \in Transactions :
              \/ task.what # "ensure" /\ NamedAt(p, Len(tasks[p]) + 1, t)
              \/ task = Task("ensure", t)
              => NamedAt(p, Len(tasks[p]) + 1, t)'
<1>0. PICK n \in Nat : n = Len(tasks[p])
  BY DEF TypeOK
<1>1. /\ tasks' \in [Pools -> Seq(Tasks)]
      /\ \A q \in Pools : tasks'[q] = IF q = p THEN Append(tasks[p], task) ELSE tasks[q]
  BY AddingTask DEF TypeOK
<1>2. /\ n \in Nat /\ DOMAIN tasks[p] = 1..n
      /\ Len(tasks'[p]) = n + 1 /\ DOMAIN tasks'[p] = 1..(n + 1)
      /\ tasks'[p][n + 1] = task /\ \A k \in 1..n : tasks'[p][k] = tasks[p][k]
  <2>1. tasks[p] \in Seq(Tasks) /\ tasks'[p] = Append(tasks[p], task)
    BY <1>1 DEF TypeOK
  <2> QED
    BY <1>0, <2>1
<1>3. ASSUME NEW i \in 1..(n + 1), NEW t, NamedAt(p, i, t)
      PROVE  NamedAt(p, i, t)'
  <2>1. i \in Nat /\ \A k \in 1..(i - 1) : k \in 1..n
    BY <1>2
  <2>2. \A k \in 1..(i - 1) : tasks'[p][k] = tasks[p][k]
    BY <1>2, <2>1
  <2> QED
    BY <1>3, <2>1, <2>2, SameBefore
<1>4. ASSUME NEW q \in Pools, q # p, NEW i \in Nat, NEW t, NamedAt(q, i, t)
      PROVE  NamedAt(q, i, t)'
  BY <1>1, <1>4, SameBefore
<1>5. QueueInv'
  <2> SUFFICES ASSUME NEW q \in Pools, NEW i \in DOMAIN tasks'[q], tasks'[q][i].what \in Posts
               PROVE  NamedAt(q, i, tasks[q][i].transaction)'
    BY DEF QueueInv
  <2>1. CASE q # p
    <3>1. tasks'[q] = tasks[q] /\ i \in Nat
      BY <1>1, <2>1 DEF TypeOK
    <3> QED
      BY <1>4, <2>1, <3>1 DEF QueueInv
  <2>2. CASE q = p /\ i \in 1..n
    <3>1. NamedAt(p, i, tasks[p][i].transaction) /\ tasks'[p][i] = tasks[p][i]
      BY <1>2, <2>2 DEF QueueInv
    <3> QED
      BY <1>2, <1>3, <2>2, <3>1
  <2>3. CASE q = p /\ i = n + 1
    BY <1>0, <1>2, <1>3, <2>3
  <2> QED
    BY <1>2, <2>1, <2>2, <2>3
<1>6. ASSUME NEW q \in Pools, NEW t \in Transactions, q # p, NamedAt(q, Len(tasks[q]) + 1, t)
      PROVE  NamedAt(q, Len(tasks[q]) + 1, t)'
  <2>1. tasks'[q] = tasks[q] /\ Len(tasks[q]) + 1 \in Nat
    BY <1>1, <1>6 DEF TypeOK
  <2> QED
    BY <1>4, <1>6, <2>1
<1>7. ASSUME NEW t \in Transactions, task.what # "ensure", NamedAt(p, n + 1, t)
      PROVE  NamedAt(p, Len(tasks[p]) + 1, t)'
  <2>1. NamedAt(p, n + 1, t)'
    BY <1>2, <1>3, <1>7
  <2>2. tasks'[p][n + 1].what # "ensure"
    BY <1>2, <1>7
  <2>3. NamedAt(p, n + 2, t)'
    <3>1. \A k \in 1..(n + 2 - 1) : k = n + 1 \/ k \in 1..(n + 1 - 1)
      BY <1>2
    <3>2. CASE NoneBefore(p, n + 1)' /\ Named(p, t)'
      <4>1. NoneBefore(p, n + 2)'
        BY <2>2, <3>1, <3>2 DEF NoneBefore
      <4> QED
        BY <3>2, <4>1 DEF NamedAt
    <3>3. ASSUME NEW j \in 1..(n + 1 - 1), tasks'[p][j] = Task("ensure", t),
                 \A k \in (j + 1)..(n + 1 - 1) : tasks'[p][k].what # "ensure"
          PROVE  NamedAt(p, n + 2, t)'
      <4>1. \A k \in (j + 1)..(n + 2 - 1) : tasks'[p][k].what # "ensure"
        BY <1>2, <2>2, <3>3
      <4>2. j \in 1..(n + 2 - 1)
        BY <1>2
      <4> QED
        BY <3>3, <4>1, <4>2 DEF NamedAt
    <3> QED
      BY <2>1, <3>2, <3>3 DEF NamedAt
  <2> QED
    BY <1>2, <2>3
<1>8. ASSUME NEW t \in Transactions, task = Task("ensure", t)
      PROVE  NamedAt(p, Len(tasks[p]) + 1, t)'
  <2>1. n + 1 \in 1..(n + 2 - 1) /\ \A k \in (n + 1 + 1)..(n + 2 - 1) : FALSE
    BY <1>2
  <2>2. NamedAt(p, n + 2, t)'
    BY <1>2, <1>8, <2>1 DEF NamedAt
  <2> QED
    BY <1>2, <2>2
<1> QED
  BY <1>0, <1>5, <1>6, <1>7, <1>8

\* The thread takes the first task: the places move up, and the name that was
\* right at one of them still is.
LEMMA NamesAfterTaking ==
  ASSUME TypeOK, NEW p \in Pools, TakeTask(p), NEW i \in Nat, NEW t, NamedAt(p, i + 1, t), i > 0,
         i <= Len(tasks[p])
  PROVE  NamedAt(p, i, t)'
<1>1. /\ tasks[p] \in Seq(Tasks) /\ tasks[p] # <<>> /\ current[p] = NoTask
      /\ tasks'[p] = Tail(tasks[p]) /\ current'[p] = tasks[p][1] /\ transactionCurr_' = transactionCurr_
  BY DEF TakeTask, TypeOK
<1>2. \A k \in 1..(i - 1) : tasks'[p][k] = tasks[p][k + 1]
  <2>1. /\ Len(Tail(tasks[p])) = Len(tasks[p]) - 1 /\ Len(tasks[p]) \in Nat
        /\ \A k \in 1..Len(Tail(tasks[p])) : Tail(tasks[p])[k] = tasks[p][k + 1]
    BY <1>1, HeadTailProperties
  <2> QED
    BY <1>1, <2>1
<1>3. CASE NoneBefore(p, i + 1) /\ Named(p, t)
  <2>1. transactionCurr_[p] = t
    BY <1>1, <1>3 DEF Named, NoTask, Task
  <2>2. \A k \in 1..i : tasks[p][k].what # "ensure"
    BY <1>3 DEF NoneBefore
  <2>3. Named(p, t)'
    BY <1>1, <2>1, <2>2 DEF Named
  <2>4. \A k \in 1..(i - 1) : k + 1 \in 1..i
    OBVIOUS
  <2>5. \A k \in 1..(i - 1) : tasks'[p][k].what # "ensure"
    BY <1>2, <2>2, <2>4
  <2> QED
    BY <2>3, <2>5 DEF NamedAt, NoneBefore
<1>4. ASSUME NEW j \in 1..(i + 1 - 1), tasks[p][j] = Task("ensure", t),
             \A k \in (j + 1)..(i + 1 - 1) : tasks[p][k].what # "ensure"
      PROVE  NamedAt(p, i, t)'
  <2>1. CASE j = 1
    <3>1. Named(p, t)'
      BY <1>1, <1>4, <2>1 DEF Named, Task
    <3>2. \A k \in 1..(i - 1) : k + 1 \in (j + 1)..(i + 1 - 1)
      BY <2>1
    <3>3. \A k \in 1..(i - 1) : tasks'[p][k].what # "ensure"
      BY <1>2, <1>4, <3>2
    <3> QED
      BY <3>1, <3>3 DEF NamedAt, NoneBefore
  <2>2. CASE j # 1
    <3>1. j - 1 \in 1..(i - 1) /\ tasks'[p][j - 1] = Task("ensure", t)
      BY <1>2, <1>4, <2>2
    <3>2. \A k \in ((j - 1) + 1)..(i - 1) : k \in 1..(i - 1) /\ k + 1 \in (j + 1)..(i + 1 - 1)
      BY <2>2
    <3>3. \A k \in ((j - 1) + 1)..(i - 1) : tasks'[p][k].what # "ensure"
      BY <1>2, <1>4, <3>2
    <3> QED
      BY <3>1, <3>3 DEF NamedAt
  <2> QED
    BY <2>1, <2>2
<1> QED
  BY <1>3, <1>4 DEF NamedAt

\* A step that leaves queues and pools alone, and no thread without the name it
\* will have.
LEMMA NameFrame ==
  ASSUME TypeOK, NameInv, UNCHANGED <<tasks, retains_>>,
         \A p \in Pools : \A t : Named(p, t) => Named(p, t)',
         TaskSeesItsTransaction'
  PROVE  NameInv'
<1>1. ASSUME NEW p \in Pools, NEW i \in Nat, NEW t, NamedAt(p, i, t)
      PROVE  NamedAt(p, i, t)'
  BY <1>1, SameBefore
<1>2. \A p \in Pools : DOMAIN tasks[p] \subseteq Nat /\ Len(tasks[p]) + 1 \in Nat
  BY DEF TypeOK
<1>3. QueueInv'
  BY <1>1, <1>2 DEF NameInv, QueueInv
<1>4. EndInv'
  <2>1. \A t \in Retained : retains_[t] \in Pools
    BY DEF Retained, TypeOK
  <2> QED
    BY <1>1, <1>2, <2>1 DEF NameInv, EndInv, Retained
<1> QED
  BY <1>3, <1>4 DEF NameInv

\* A pool is given back with the name 0 queued.
LEMMA NamesAfterReleasing ==
  ASSUME TypeOK, PoolsHaveOneOwner, NameInv, NEW t \in Retained,
         EnsureTransaction(retains_[t], None), retains_' = [retains_ EXCEPT ![t] = None],
         \A p \in Pools : \A u : Named(p, u) => Named(p, u)',
         TaskSeesItsTransaction'
  PROVE  NameInv'
<1>1. t \in Transactions /\ retains_[t] \in Pools
  BY DEF Retained, TypeOK
<1>2. /\ QueueInv'
      /\ \A q \in Pools, u \in Transactions :
           q # retains_[t] /\ NamedAt(q, Len(tasks[q]) + 1, u) => NamedAt(q, Len(tasks[q]) + 1, u)'
  BY <1>1, NamesAfterAdding DEF NameInv, EnsureTransaction, Task, Tasks, Posts
<1>3. \A u \in Retained' : u \in Retained /\ u # t /\ u \in Transactions /\ retains_'[u] = retains_[u]
                           /\ retains_[u] \in Pools
  BY DEF Retained, TypeOK
<1>4. EndInv'
  <2> SUFFICES ASSUME NEW u \in Retained'
               PROVE  NamedAt(retains_[u], Len(tasks[retains_[u]]) + 1, u)'
    BY DEF EndInv
  <2>1. PICK q \in Pools : q = retains_[u] /\ q = retains_'[u] /\ q # retains_[t]
    BY <1>3 DEF PoolsHaveOneOwner
  <2>2. NamedAt(q, Len(tasks[q]) + 1, u)
    BY <1>3, <2>1 DEF NameInv, EndInv
  <2>3. NamedAt(q, Len(tasks[q]) + 1, u)'
    BY <1>2, <1>3, <2>1, <2>2
  <2> QED
    BY <2>1, <2>3
<1> QED
  BY <1>2, <1>4 DEF NameInv

LEMMA NameSteps ==
  ASSUME IInv, IInv', NameInv, [Next]_vars
  PROVE  NameInv'
<1> USE DEF IInv, TypeInv
<1>1. CASE RetainTaskThread
  <2> DEFINE t == mutex_.transaction
  <2>1. PICK p \in Pools :
          /\ retains_' = [retains_ EXCEPT ![t] = p]
          /\ AddTask(p, Task("ensure", t))
    BY <1>1 DEF RetainTaskThread, EnsureTransaction
  <2>2. PICK u \in Transactions : u = t
    BY <1>1 DEF RetainTaskThread, LockInv
  <2>3. /\ Retained' = Retained \cup {u} /\ u \notin Retained /\ retains_'[u] = p
        /\ \A v \in Retained : v # u /\ retains_'[v] = retains_[v] /\ retains_[v] \in Pools
                               /\ v \in Transactions
    BY <1>1, <2>1, <2>2, ThreadGroupsAssumption
    DEF RetainTaskThread, Retained, TypeOK, ThreadGroupsAssumption
  <2>4. UNCHANGED <<current, transactionCurr_>>
    BY <1>1 DEF RetainTaskThread
  <2>5. \A q \in Pools : \A v : Named(q, v) => Named(q, v)'
    BY <2>4 DEF Named
  <2>6. Task("ensure", u) \in Tasks /\ Task("ensure", u).what \notin Posts /\ AddTask(p, Task("ensure", u))
    BY <2>1, <2>2 DEF Task, Tasks, Posts
  <2>7. /\ QueueInv'
        /\ \A q \in Pools, v \in Transactions :
             q # p /\ NamedAt(q, Len(tasks[q]) + 1, v) => NamedAt(q, Len(tasks[q]) + 1, v)'
        /\ NamedAt(p, Len(tasks[p]) + 1, u)'
    BY <2>5, <2>6, NamesAfterAdding DEF NameInv
  <2>8. EndInv'
    <3> SUFFICES ASSUME NEW v \in Retained'
                 PROVE  NamedAt(retains_[v], Len(tasks[retains_[v]]) + 1, v)'
      BY DEF EndInv
    <3>1. CASE v = u
      BY <2>3, <2>7, <3>1
    <3>2. CASE v # u
      <4>1. PICK q \in Pools : q = retains_[v] /\ q = retains_'[v] /\ v \in Retained /\ v \in Transactions
        BY <2>3, <3>2
      <4>2. q # p
        BY <2>3, <3>2, <4>1 DEF PoolsHaveOneOwner
      <4>3. NamedAt(q, Len(tasks[q]) + 1, v)
        BY <4>1 DEF NameInv, EndInv
      <4>4. NamedAt(q, Len(tasks[q]) + 1, v)'
        BY <2>7, <4>1, <4>2, <4>3
      <4> QED
        BY <4>1, <4>4
    <3> QED
      BY <3>1, <3>2
  <2>9. TaskSeesItsTransaction'
    BY <2>4 DEF NameInv, TaskSeesItsTransaction
  <2> QED
    BY <2>7, <2>8, <2>9 DEF NameInv
<1>2. CASE ReleaseTaskThread
  <2>1. PICK t \in Retained : t = mutex_.transaction
    BY <1>2 DEF ReleaseTaskThread
  <2>2. /\ EnsureTransaction(retains_[t], None) /\ retains_' = [retains_ EXCEPT ![t] = None]
        /\ current' = [current EXCEPT ![mutex_.by] = NoTask] /\ transactionCurr_' = transactionCurr_
        /\ current[mutex_.by].what = "finish"
    BY <1>2, <2>1 DEF ReleaseTaskThread, LockInv
  <2>3. \A p \in Pools : \A u : Named(p, u) => Named(p, u)'
    BY <2>2 DEF Named, NoTask, Task, TypeOK
  <2>4. TaskSeesItsTransaction'
    BY <2>2 DEF NameInv, TaskSeesItsTransaction, NoTask, Task, TypeOK
  <2> QED
    BY <2>2, <2>3, <2>4, NamesAfterReleasing
<1>3. CASE DestroyReleases
  <2>1. PICK t \in Retained :
          EnsureTransaction(retains_[t], None) /\ retains_' = [retains_ EXCEPT ![t] = None]
    BY <1>3 DEF DestroyReleases
  <2>2. UNCHANGED <<current, transactionCurr_>>
    BY <1>3 DEF DestroyReleases
  <2>3. \A p \in Pools : \A u : Named(p, u) => Named(p, u)'
    BY <2>2 DEF Named
  <2>4. TaskSeesItsTransaction'
    BY <2>2 DEF NameInv, TaskSeesItsTransaction
  <2> QED
    BY <2>1, <2>3, <2>4, NamesAfterReleasing
<1>4. CASE PostTask
  <2>1. PICK t \in Retained : t = mutex_.transaction
    BY <1>4 DEF PostTask
  <2>2. PICK p \in Pools : p = retains_[t]
    BY DEF Retained, TypeOK
  <2>3. PICK what \in Posts : what = mutex_.what
    BY <1>4 DEF PostTask, LockInv, Posts
  <2>4. AddTask(p, Task(what, t)) /\ UNCHANGED <<retains_, current, transactionCurr_>>
    BY <1>4, <2>1, <2>2, <2>3 DEF PostTask
  <2>5. t \in Transactions /\ Task(what, t) \in Tasks /\ Task(what, t).transaction = t
        /\ Task(what, t).what # "ensure"
    BY DEF Retained, Task, Tasks, Posts
  <2>6. \A q \in Pools : \A v : Named(q, v) => Named(q, v)'
    BY <2>4 DEF Named
  <2>7. NamedAt(p, Len(tasks[p]) + 1, t)
    BY <2>2 DEF NameInv, EndInv
  <2>8. /\ QueueInv'
        /\ \A q \in Pools, v \in Transactions :
             q # p /\ NamedAt(q, Len(tasks[q]) + 1, v) => NamedAt(q, Len(tasks[q]) + 1, v)'
        /\ NamedAt(p, Len(tasks[p]) + 1, t)'
    BY <2>4, <2>5, <2>6, <2>7, NamesAfterAdding DEF NameInv
  <2>9. EndInv'
    <3> SUFFICES ASSUME NEW v \in Retained'
                 PROVE  NamedAt(retains_[v], Len(tasks[retains_[v]]) + 1, v)'
      BY DEF EndInv
    <3>1. PICK q \in Pools : q = retains_[v] /\ q = retains_'[v] /\ v \in Retained /\ v \in Transactions
      BY <2>4 DEF Retained, TypeOK
    <3>2. CASE v = t
      BY <2>2, <2>8, <3>1, <3>2
    <3>3. CASE v # t
      <4>1. q # p
        BY <2>2, <3>1, <3>3 DEF PoolsHaveOneOwner
      <4>2. NamedAt(q, Len(tasks[q]) + 1, v)
        BY <3>1 DEF NameInv, EndInv
      <4>3. NamedAt(q, Len(tasks[q]) + 1, v)'
        BY <2>8, <3>1, <4>1, <4>2
      <4> QED
        BY <3>1, <4>3
    <3> QED
      BY <3>2, <3>3
  <2>10. TaskSeesItsTransaction'
    BY <2>4 DEF NameInv, TaskSeesItsTransaction
  <2> QED
    BY <2>8, <2>9, <2>10 DEF NameInv
<1>5. ASSUME NEW p \in Pools, TakeTask(p)
      PROVE  NameInv'
  <2>1. /\ tasks[p] \in Seq(Tasks) /\ tasks[p] # <<>> /\ current[p] = NoTask
        /\ tasks'[p] = Tail(tasks[p]) /\ current'[p] = tasks[p][1]
        /\ \A q \in Pools : q # p => tasks'[q] = tasks[q] /\ current'[q] = current[q]
        /\ UNCHANGED <<retains_, transactionCurr_>>
    BY <1>5 DEF TakeTask, TypeOK
  <2>2. PICK n \in Nat : n = Len(tasks[p]) /\ n > 0
    BY <2>1, EmptySeq
  <2>3. /\ DOMAIN tasks[p] = 1..n /\ Len(tasks'[p]) = n - 1 /\ DOMAIN tasks'[p] = 1..(n - 1)
        /\ \A i \in 1..(n - 1) : tasks'[p][i] = tasks[p][i + 1]
    BY <2>1, <2>2, HeadTailProperties
  <2>4. \A q \in Pools : DOMAIN tasks[q] \subseteq Nat /\ Len(tasks[q]) + 1 \in Nat
    BY DEF TypeOK
  <2>5. ASSUME NEW q \in Pools, q # p, NEW i \in Nat, NEW t, NamedAt(q, i, t)
        PROVE  NamedAt(q, i, t)'
    <3>1. Named(q, t) => Named(q, t)'
      BY <2>1, <2>5 DEF Named
    <3> QED
      BY <2>1, <2>5, <3>1, SameBefore
  <2>6. ASSUME NEW i \in Nat, i > 0, i <= n, NEW t, NamedAt(p, i + 1, t)
        PROVE  NamedAt(p, i, t)'
    BY <1>5, <2>2, <2>6, NamesAfterTaking
  <2>7. QueueInv'
    <3> SUFFICES ASSUME NEW q \in Pools, NEW i \in DOMAIN tasks'[q], tasks'[q][i].what \in Posts
                 PROVE  NamedAt(q, i, tasks[q][i].transaction)'
      BY DEF QueueInv
    <3>1. CASE q # p
      BY <2>1, <2>4, <2>5, <3>1 DEF NameInv, QueueInv
    <3>2. CASE q = p
      <4>1. i \in 1..(n - 1) /\ i \in Nat /\ i > 0 /\ i <= n /\ i + 1 \in 1..n
        BY <2>3, <3>2
      <4>2. tasks'[p][i] = tasks[p][i + 1]
        BY <2>3, <4>1
      <4>3. NamedAt(p, i + 1, tasks[p][i + 1].transaction)
        BY <2>3, <3>2, <4>1, <4>2 DEF NameInv, QueueInv
      <4>4. PICK t : t = tasks[p][i + 1].transaction
        OBVIOUS
      <4>5. NamedAt(p, i, t)'
        BY <2>6, <4>1, <4>3, <4>4
      <4> QED
        BY <3>2, <4>2, <4>4, <4>5
    <3> QED
      BY <3>1, <3>2
  <2>8. EndInv'
    <3> SUFFICES ASSUME NEW u \in Retained'
                 PROVE  NamedAt(retains_[u], Len(tasks[retains_[u]]) + 1, u)'
      BY DEF EndInv
    <3>1. PICK q \in Pools : q = retains_[u] /\ q = retains_'[u] /\ u \in Retained
      BY <2>1 DEF Retained, TypeOK
    <3>2. NamedAt(q, Len(tasks[q]) + 1, u)
      BY <3>1 DEF NameInv, EndInv
    <3>3. CASE q # p
      BY <2>1, <2>4, <2>5, <3>1, <3>2, <3>3
    <3>4. CASE q = p
      <4>1. NamedAt(p, n, u)'
        BY <2>2, <2>6, <3>2, <3>4
      <4> QED
        BY <2>2, <2>3, <3>1, <3>4, <4>1
    <3> QED
      BY <3>3, <3>4
  <2>9. TaskSeesItsTransaction'
    <3>1. ASSUME current'[p].what \in Posts
          PROVE  transactionCurr_'[p] = current'[p].transaction
      <4>1. NamedAt(p, 1, tasks[p][1].transaction)
        BY <2>1, <2>2, <2>3, <3>1 DEF NameInv, QueueInv
      <4>2. Named(p, tasks[p][1].transaction)
        BY <4>1 DEF NamedAt
      <4> QED
        BY <2>1, <4>2 DEF Named, NoTask, Task
    <3> QED
      BY <2>1, <3>1 DEF NameInv, TaskSeesItsTransaction, Posts
  <2> QED
    BY <2>7, <2>8, <2>9 DEF NameInv
<1>6. ASSUME NEW p \in Pools, RunEnsure(p)
      PROVE  NameInv'
  <2>1. UNCHANGED <<tasks, retains_>>
    BY <1>6 DEF RunEnsure
  <2>2. \A q \in Pools : \A t : Named(q, t) => Named(q, t)'
    BY <1>6 DEF RunEnsure, Named, NoTask, Task, TypeOK
  <2>3. TaskSeesItsTransaction'
    BY <1>6 DEF RunEnsure, NameInv, TaskSeesItsTransaction, NoTask, Task, TypeOK
  <2> QED
    BY <2>1, <2>2, <2>3, NameFrame
<1>7. ASSUME NEW p \in Pools, RunPost(p)
      PROVE  NameInv'
  <2>1. UNCHANGED <<tasks, retains_>>
    BY <1>7 DEF RunPost
  <2>2. \A q \in Pools : \A t : Named(q, t) => Named(q, t)'
    BY <1>7 DEF RunPost, Named, NoTask, Task, TypeOK
  <2>3. TaskSeesItsTransaction'
    BY <1>7 DEF RunPost, NameInv, TaskSeesItsTransaction, NoTask, Task, TypeOK
  <2> QED
    BY <2>1, <2>2, <2>3, NameFrame
<1>8. CASE ReleaseFails
  <2>1. /\ current' = [current EXCEPT ![mutex_.by] = NoTask] /\ current[mutex_.by].what = "finish"
        /\ UNCHANGED <<tasks, retains_, transactionCurr_>>
    BY <1>8 DEF ReleaseFails, LockInv
  <2>2. \A q \in Pools : \A t : Named(q, t) => Named(q, t)'
    BY <2>1 DEF Named, NoTask, Task, TypeOK
  <2>3. TaskSeesItsTransaction'
    BY <2>1 DEF NameInv, TaskSeesItsTransaction, NoTask, Task, TypeOK
  <2> QED
    BY <2>1, <2>2, <2>3, NameFrame
<1>9. ASSUME UNCHANGED <<tasks, retains_, current, transactionCurr_>>
      PROVE  NameInv'
  <2>1. \A q \in Pools : \A t : Named(q, t) => Named(q, t)'
    BY <1>9 DEF Named
  <2>2. TaskSeesItsTransaction'
    BY <1>9 DEF NameInv, TaskSeesItsTransaction
  <2> QED
    BY <1>9, <2>1, <2>2, NameFrame
<1>10. CASE CreateThreadGroup \/ CallDestroy \/ RetainFails \/ PostFails \/ DestroyThreadGroup \/ UNCHANGED vars
  BY <1>9, <1>10 DEF CreateThreadGroup, CallDestroy, Lock, RetainFails, PostFails, DestroyThreadGroup, vars
<1>11. ASSUME NEW t \in Transactions,
              CallRetain(t) \/ \E what \in {"post", "finish"} : CallPost(t, what)
       PROVE  NameInv'
  BY <1>9, <1>11 DEF CallRetain, CallPost, Lock
<1>12. ASSUME NEW p \in Pools, CallRelease(p)
       PROVE  NameInv'
  BY <1>9, <1>12 DEF CallRelease, Lock
<1> QED
  BY <1>1, <1>2, <1>3, <1>4, <1>5, <1>6, <1>7, <1>8, <1>10, <1>11, <1>12
  DEF Next, OperationStep, ThreadStep

\* GetCurrTransaction inside a posted task is the transaction it was posted for,
\* however pools were given back and retained again in between.
THEOREM NamesAreRight == Spec => []TaskSeesItsTransaction
<1>1. Init => NameInv
  BY DEF Init, NameInv, QueueInv, EndInv, TaskSeesItsTransaction, Retained, NoTask, Task
<1>2. NameInv => TaskSeesItsTransaction
  BY DEF NameInv
<1> QED
  BY <1>1, <1>2, NameSteps, Inductive, PTL DEF Spec

(***************************************************************************)
(* Waiting for room with the mutex held                                    *)
(***************************************************************************)

\* The pools that the operation with the mutex may give a task to next; none if it fails, has
\* come to its end or starts a new pool, whose queue is empty.
Targets ==
  IF ~pools_ THEN {}
  ELSE CASE mutex_.op = "retain" ->
              IF Cardinality(Retained) < ThreadNum /\ mutex_.transaction \notin Retained /\ frees_ # <<>>
              THEN {Head(frees_)} ELSE {}
         [] mutex_.op \in {"release", "post"} ->
              IF mutex_.transaction \in Retained THEN {retains_[mutex_.transaction]} ELSE {}
         [] mutex_.op = "destroy" -> {retains_[t] : t \in Retained}
         [] OTHER -> {}

Full(p) == Len(tasks[p]) = MaxTaskNum

\* Every pool the operation can go on with is full, and its thread waits for the mutex.
Stuck == Targets # {} /\ \A p \in Targets : Full(p) /\ current[p].what = "finish"

\* The thread of p has a task to take or to run, and needs no mutex for it.
ThreadGoes(p) ==
  /\ p \notin stopped /\ tasks[p] # <<>>
  /\ current[p].what \in {"none", "ensure", "post"}

\* The operation with the mutex has room, or the thread of a pool it waits for makes some.
MutexComesFree ==
  mutex_ # NoOp =>
    \/ Targets = {} \/ \E p \in Targets : ~Full(p)
    \/ \E p \in Targets : ThreadGoes(p)
    \/ Stuck

StuckForEver == Stuck => Stuck' /\ UNCHANGED <<mutex_, pools_, retains_, frees_>>

QueueBound == \A p \in Pools : Len(tasks[p]) <= MaxTaskNum

LEMMA QueueSteps == IInv /\ QueueBound /\ [Next]_vars => QueueBound'
<1> SUFFICES ASSUME IInv, QueueBound, [Next]_vars
             PROVE  QueueBound'
  OBVIOUS
<1> USE ThreadGroupsAssumption DEF IInv, TypeInv, TypeOK, QueueBound, bounds
<1>1. ASSUME NEW p \in Pools, NEW task, AddTask(p, task)
      PROVE  QueueBound'
  <2>1. \A q \in Pools : tasks'[q] = IF q = p THEN Append(tasks[p], task) ELSE tasks[q]
    BY <1>1 DEF AddTask
  <2>2. Len(Append(tasks[p], task)) = Len(tasks[p]) + 1 /\ Len(tasks[p]) < MaxTaskNum /\ Len(tasks[p]) \in Nat
    BY <1>1 DEF AddTask
  <2>3. \A q \in Pools : Len(tasks'[q]) = IF q = p THEN Len(tasks[p]) + 1 ELSE Len(tasks[q])
    BY <2>1, <2>2
  <2> HIDE DEF TypeOK
  <2> QED
    BY <2>2, <2>3
<1>2. ASSUME UNCHANGED tasks
      PROVE  QueueBound'
  BY <1>2
<1>3. CASE OperationStep
  <2>1. CASE RetainTaskThread
    BY <1>1, <2>1 DEF RetainTaskThread, EnsureTransaction
  <2>2. CASE ReleaseTaskThread
    <3>1. retains_[mutex_.transaction] \in Pools
      BY <2>2 DEF ReleaseTaskThread, Retained
    <3> QED
      BY <1>1, <2>2, <3>1 DEF ReleaseTaskThread, EnsureTransaction
  <2>3. CASE PostTask
    <3>1. retains_[mutex_.transaction] \in Pools
      BY <2>3 DEF PostTask, Retained
    <3> QED
      BY <1>1, <2>3, <3>1 DEF PostTask
  <2>4. CASE DestroyReleases
    <3>1. PICK t \in Retained : EnsureTransaction(retains_[t], None)
      BY <2>4 DEF DestroyReleases
    <3>2. retains_[t] \in Pools
      BY <3>1 DEF Retained
    <3> QED
      BY <1>1, <3>1, <3>2 DEF EnsureTransaction
  <2> QED
    BY <1>2, <1>3, <2>1, <2>2, <2>3, <2>4
    DEF OperationStep, RetainFails, ReleaseFails, PostFails, DestroyThreadGroup
<1>4. ASSUME NEW p \in Pools, TakeTask(p)
      PROVE  QueueBound'
  <2>1. \A q \in Pools : tasks'[q] = IF q = p THEN Tail(tasks[p]) ELSE tasks[q]
    BY <1>4 DEF TakeTask
  <2>2. Len(Tail(tasks[p])) = Len(tasks[p]) - 1 /\ Len(tasks[p]) \in Nat
    BY <1>4 DEF TakeTask
  <2>3. \A q \in Pools : Len(tasks'[q]) = IF q = p THEN Len(tasks[p]) - 1 ELSE Len(tasks[q])
    BY <2>1, <2>2
  <2> HIDE DEF TypeOK
  <2> QED
    BY <2>2, <2>3
<1> QED
  BY <1>2, <1>3, <1>4 DEF Next, vars, ThreadStep, RunEnsure, RunPost, CreateThreadGroup, CallDestroy, CallRetain,
     CallPost, CallRelease, Lock

LEMMA TargetsArePools == IInv => Targets \subseteq Pools
<1> SUFFICES ASSUME IInv
             PROVE  Targets \subseteq Pools
  OBVIOUS
<1>1. frees_ # <<>> => Head(frees_) \in Pools
  BY DEF IInv, TypeInv, TypeOK
<1>2. \A t \in Retained : retains_[t] \in Pools
  BY DEF IInv, TypeInv, TypeOK, Retained
<1> QED
  BY <1>1, <1>2 DEF Targets

\* For any number of transactions and pools: the operation that holds ThreadGroups::mutex_ has
\* room for its task, or waits for a thread that runs on, but for the one circle of AddTask with
\* the mutex held and the thread of the full queue in ReleaseTaskThread.
THEOREM OnlyJamKeepsMutex == Spec => []MutexComesFree
<1>1. Init => QueueBound
  BY ThreadGroupsAssumption DEF Init, QueueBound
<1>2. ASSUME IInv, QueueBound
      PROVE  MutexComesFree
  <2> SUFFICES ASSUME Targets # {}, \A p \in Targets : Full(p), \A p \in Targets : ~ThreadGoes(p)
               PROVE  Stuck
    BY DEF MutexComesFree
  <2>1. ASSUME NEW p \in Targets
        PROVE  current[p].what = "finish"
    <3>1. p \in Pools /\ stopped = {}
      BY <1>2, <2>1, TargetsArePools DEF IInv, SizeInv
    <3>2. tasks[p] # <<>>
      BY <2>1, ThreadGroupsAssumption DEF Full
    <3>3. current[p] \in Tasks \cup {NoTask}
      BY <1>2, <3>1 DEF IInv, TypeInv, TypeOK
    <3>4. current[p].what \in {"none", "ensure", "post", "finish"}
      BY <3>3 DEF Tasks, NoTask, Task
    <3> QED
      BY <2>1, <3>1, <3>2, <3>4 DEF ThreadGoes
  <2> QED
    BY <2>1 DEF Stuck
<1> QED
  BY <1>1, <1>2, QueueSteps, Inductive, PTL DEF Spec

\* That circle is never left: no thread, no other operation and no start of the group frees
\* the mutex, or a pool, again.
THEOREM JamIsFinal == Spec => [][StuckForEver]_vars
<1>1. ASSUME IInv, [Next]_vars, Stuck
      PROVE  Stuck' /\ UNCHANGED <<mutex_, pools_, retains_, frees_>>
  <2>1. \A p \in Targets : p \in Pools /\ Full(p) /\ current[p].what = "finish"
    BY <1>1, TargetsArePools DEF Stuck
  <2>2. /\ pools_ /\ Targets # {}
        /\ mutex_.op \in {"retain", "release", "post", "destroy"}
        /\ mutex_.op = "retain" =>
             /\ Cardinality(Retained) < ThreadNum /\ mutex_.transaction \notin Retained
             /\ frees_ # <<>> /\ Head(frees_) \in Targets
        /\ mutex_.op \in {"release", "post"} =>
             mutex_.transaction \in Retained /\ retains_[mutex_.transaction] \in Targets
        /\ mutex_.op = "destroy" => Retained # {} /\ \A t \in Retained : retains_[t] \in Targets
    BY <1>1 DEF Stuck, Targets
  <2>3. mutex_ # NoOp
    BY <2>2 DEF NoOp, Operation
  <2>4. \A p \in Targets : \A task : ~AddTask(p, task)
    BY <2>1, ThreadGroupsAssumption DEF AddTask, Full
  <2>5. ~OperationStep
    <3>1. ~RetainFails
      <4>1. IsFiniteSet(Retained)
        BY <1>1 DEF IInv, SizeInv
      <4>2. Cardinality(Retained) \in Nat
        BY <4>1, FS_CardinalityType
      <4>3. ~(Cardinality(Retained) < ThreadNum /\ Cardinality(Retained) >= ThreadNum)
        BY <4>2, ThreadGroupsAssumption
      <4> QED
        BY <2>2, <4>3, Zenon DEF RetainFails
    <3>2. ~RetainTaskThread
      BY <2>2, <2>4 DEF RetainTaskThread, EnsureTransaction
    <3>3. ~ReleaseFails /\ ~PostFails /\ ~DestroyThreadGroup
      BY <2>2 DEF ReleaseFails, PostFails, DestroyThreadGroup
    <3>4. ~ReleaseTaskThread /\ ~PostTask /\ ~DestroyReleases
      BY <2>2, <2>4 DEF ReleaseTaskThread, PostTask, DestroyReleases, EnsureTransaction
    <3> QED
      BY <3>1, <3>2, <3>3, <3>4 DEF OperationStep
  <2>6. ASSUME UNCHANGED <<mutex_, pools_, retains_, frees_>>,
               \A p \in Targets : tasks'[p] = tasks[p] /\ current'[p] = current[p]
        PROVE  Stuck' /\ UNCHANGED <<mutex_, pools_, retains_, frees_>>
    <3>1. Targets' = Targets
      BY <2>6 DEF Targets, Retained
    <3> QED
      BY <2>1, <2>2, <2>6, <3>1 DEF Stuck, Full
  <2>7. ASSUME NEW q \in Pools, ThreadStep(q)
        PROVE  Stuck' /\ UNCHANGED <<mutex_, pools_, retains_, frees_>>
    <3>1. q \notin Targets
      <4>1. current[q].what # "finish"
        BY <2>7 DEF ThreadStep, TakeTask, RunEnsure, RunPost, NoTask, Task
      <4> QED
        BY <2>1, <4>1
    <3>2. /\ UNCHANGED <<mutex_, pools_, retains_, frees_>>
          /\ \A p \in Targets : tasks'[p] = tasks[p] /\ current'[p] = current[p]
      BY <1>1, <2>1, <2>7, <3>1 DEF ThreadStep, TakeTask, RunEnsure, RunPost, IInv, TypeInv, TypeOK
    <3> QED
      BY <2>6, <3>2
  <2>8. CASE UNCHANGED vars
    BY <2>6, <2>8 DEF vars
  <2>9. /\ ~CreateThreadGroup /\ ~CallDestroy
        /\ \A t \in Transactions : ~CallRetain(t) /\ \A what \in {"post", "finish"} : ~CallPost(t, what)
        /\ \A p \in Pools : ~CallRelease(p)
    BY <2>3 DEF CreateThreadGroup, CallDestroy, CallRetain, CallPost, CallRelease, Lock
  <2> QED
    BY <1>1, <2>5, <2>7, <2>8, <2>9 DEF Next
<1>2. IInv /\ [Next]_vars => StuckForEver
  BY <1>1 DEF StuckForEver
<1> QED
  BY <1>2, Inductive, PTL DEF Spec
=============================================================================
