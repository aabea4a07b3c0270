---------------------------- MODULE ThreadGroups ----------------------------
(***************************************************************************)
(* common/thread_pool/thread_groups.cpp: one group whose transactions each *)
(* retain a pool of one thread.  Every operation runs under                *)
(* ThreadGroups::mutex_; the only place it can wait is ThreadPool::AddTask,*)
(* which blocks, with the mutex held, while the pool's queue is full.  So  *)
(* an operation is two steps: it takes the mutex, and it is carried out    *)
(* once there is room.                                                     *)
(***************************************************************************)
EXTENDS Naturals, Sequences, FiniteSets

CONSTANTS
  Transactions,   \* transaction ids, never 0
  Pools,          \* identities of ThreadPool objects
  ThreadNum,      \* GROUP_MAX_THREAD_NUM
  ThreadNumKeep,  \* THREAD_NUM_KEEP
  MaxTaskNum,     \* THREAD_MAX_TASK_NUM
  MaxPosts,       \* bound on the number of PostTask calls
  MaxStarts       \* bound on how often the service is started

None == "none"

ASSUME ThreadGroupsAssumption ==
  /\ None \notin Transactions /\ None \notin Pools
  /\ ThreadNum \in Nat \ {0}
  /\ ThreadNumKeep \in Nat /\ ThreadNum <= ThreadNumKeep
  /\ MaxTaskNum \in Nat \ {0}
  /\ MaxPosts \in Nat /\ MaxStarts \in Nat

VARIABLES
  pools_,           \* does the group exist?
  retains_,         \* retains_[t]: the pool t retains, or None
  frees_,           \* the free pools, oldest first
  stopped,          \* pools popped from frees_ and destroyed
  tasks,            \* tasks[p]: the queue of pool p
  current,          \* current[p]: the task its thread runs, or NoTask
  transactionCurr_, \* transactionCurr_[p], thread local: None stands for 0
  mutex_,           \* the operation that holds the mutex, or NoOp
  posts,            \* how many PostTask calls there were
  starts            \* how many CreateThreadGroup calls there were

vars == <<pools_, retains_, frees_, stopped, tasks, current, transactionCurr_, mutex_, posts,
          starts>>

bounds == <<posts, starts>>

\* "ensure" is the task of EnsureTransaction, "finish" a posted task that
\* calls ReleaseTaskThread, "post" one that does not.
Task(what, t) == [what |-> what, transaction |-> t]

Tasks == [what : {"ensure", "post", "finish"}, transaction : Transactions \cup {None}]

NoTask == Task("none", None)

Operation(op, t, what, by) == [op |-> op, transaction |-> t, what |-> what, by |-> by]

Operations ==
  [op : {"retain", "release", "post", "destroy"}, transaction : Transactions \cup {None},
   what : {"post", "finish", None}, by : Pools \cup {None}]

NoOp == Operation("none", None, None, None)

Retained == {t \in Transactions : retains_[t] # None}

Free == {frees_[i] : i \in DOMAIN frees_}

Created == Free \cup {retains_[t] : t \in Retained} \cup stopped

TypeOK ==
  /\ pools_ \in BOOLEAN
  /\ retains_ \in [Transactions -> Pools \cup {None}]
  /\ frees_ \in Seq(Pools)
  /\ stopped \in SUBSET Pools
  /\ tasks \in [Pools -> Seq(Tasks)]
  /\ current \in [Pools -> Tasks \cup {NoTask}]
  /\ transactionCurr_ \in [Pools -> Transactions \cup {None}]
  /\ mutex_ \in Operations \cup {NoOp}
  /\ posts \in Nat /\ starts \in Nat

Init ==
  /\ pools_ = FALSE
  /\ retains_ = [t \in Transactions |-> None]
  /\ frees_ = <<>>
  /\ stopped = {}
  /\ tasks = [p \in Pools |-> <<>>]
  /\ current = [p \in Pools |-> NoTask]
  /\ transactionCurr_ = [p \in Pools |-> None]
  /\ mutex_ = NoOp
  /\ posts = 0 /\ starts = 0

\* ThreadPool::AddTask: not while the queue is full.
AddTask(p, task) ==
  /\ Len(tasks[p]) < MaxTaskNum
  /\ tasks' = [tasks EXCEPT ![p] = Append(@, task)]

EnsureTransaction(p, t) == AddTask(p, Task("ensure", t))

Unlock == mutex_' = NoOp

\* Mutant: one free pool fewer than THREAD_NUM_KEEP is kept.
GiveBackKeepsFewer(p) ==
  LET all  == Append(frees_, p)
      over == IF Len(all) >= ThreadNumKeep THEN Len(all) - ThreadNumKeep + 1 ELSE 0
  IN  /\ frees_' = SubSeq(all, over + 1, Len(all))
      /\ stopped' = stopped \cup {all[i] : i \in 1..over}

\* A pool that is moved to the end of frees_; the oldest go when it has more
\* than THREAD_NUM_KEEP.
GiveBack(p) ==
  LET all  == Append(frees_, p)
      over == IF Len(all) > ThreadNumKeep THEN Len(all) - ThreadNumKeep ELSE 0
  IN  /\ frees_' = SubSeq(all, over + 1, Len(all))
      /\ stopped' = stopped \cup {all[i] : i \in 1..over}

(***************************************************************************)
(* Taking the mutex                                                        *)
(***************************************************************************)

\* UserAuthService::OnStart
CreateThreadGroup ==
  /\ mutex_ = NoOp
  /\ ~pools_ /\ starts < MaxStarts
  /\ pools_' = TRUE
  /\ starts' = starts + 1
  /\ UNCHANGED <<retains_, frees_, stopped, tasks, current, transactionCurr_, mutex_, posts>>

Lock(operation) ==
  /\ mutex_ = NoOp
  /\ mutex_' = operation
  /\ UNCHANGED <<pools_, retains_, frees_, stopped, tasks, current, transactionCurr_>>

CallRetain(t) == Lock(Operation("retain", t, None, None)) /\ UNCHANGED bounds

CallPost(t, what) ==
  /\ posts < MaxPosts
  /\ posts' = posts + 1
  /\ Lock(Operation("post", t, what, None))
  /\ UNCHANGED starts

CallDestroy == pools_ /\ Lock(Operation("destroy", None, None, None)) /\ UNCHANGED bounds

\* The thread of pool p runs a task that calls ReleaseTaskThread.
CallRelease(p) ==
  /\ current[p].what = "finish"
  /\ Lock(Operation("release", current[p].transaction, None, p))
  /\ UNCHANGED bounds

(***************************************************************************)
(* The operations, with the mutex held                                     *)
(***************************************************************************)

\* No such group, overload or duplicate.
RetainFails ==
  /\ mutex_.op = "retain"
  /\ \/ ~pools_
     \/ Cardinality(Retained) >= ThreadNum
     \/ mutex_.transaction \in Retained
  /\ Unlock
  /\ UNCHANGED <<pools_, retains_, frees_, stopped, tasks, current, transactionCurr_, bounds>>

\* Mutant: a free pool is used without being taken off frees_.
RetainTaskThreadKeepsFree ==
  /\ mutex_.op = "retain" /\ pools_
  /\ Cardinality(Retained) < ThreadNum
  /\ mutex_.transaction \notin Retained
  /\ \E p \in Pools :
       /\ \/ frees_ = <<>> /\ p \notin Created
          \/ frees_ # <<>> /\ p = Head(frees_)
       /\ retains_' = [retains_ EXCEPT ![mutex_.transaction] = p]
       /\ EnsureTransaction(p, mutex_.transaction)
  /\ Unlock
  /\ UNCHANGED <<pools_, frees_, stopped, current, transactionCurr_, bounds>>

\* Mutant: no EnsureTransaction.
RetainTaskThreadUnnamed ==
  /\ mutex_.op = "retain" /\ pools_
  /\ Cardinality(Retained) < ThreadNum
  /\ mutex_.transaction \notin Retained
  /\ \E p \in Pools :
       /\ \/ frees_ = <<>> /\ p \notin Created /\ UNCHANGED frees_
          \/ frees_ # <<>> /\ p = Head(frees_) /\ frees_' = Tail(frees_)
       /\ retains_' = [retains_ EXCEPT ![mutex_.transaction] = p]
  /\ Unlock
  /\ UNCHANGED <<pools_, stopped, tasks, current, transactionCurr_, bounds>>

\* The oldest free pool, or a new one when there is none.
RetainTaskThread ==
  /\ mutex_.op = "retain" /\ pools_
  /\ Cardinality(Retained) < ThreadNum
  /\ mutex_.transaction \notin Retained
  /\ \E p \in Pools :
       /\ \/ frees_ = <<>> /\ p \notin Created /\ UNCHANGED frees_
          \/ frees_ # <<>> /\ p = Head(frees_) /\ frees_' = Tail(frees_)
       /\ retains_' = [retains_ EXCEPT ![mutex_.transaction] = p]
       /\ EnsureTransaction(p, mutex_.transaction)
  /\ Unlock
  /\ UNCHANGED <<pools_, stopped, current, transactionCurr_, bounds>>

\* No such group, or the transaction retains nothing.
ReleaseFails ==
  /\ mutex_.op = "release"
  /\ ~pools_ \/ mutex_.transaction \notin Retained
  /\ current' = [current EXCEPT ![mutex_.by] = NoTask]
  /\ Unlock
  /\ UNCHANGED <<pools_, retains_, frees_, stopped, tasks, transactionCurr_, bounds>>

\* The finish task of the transaction goes on to end once the call returns.
ReleaseTaskThread ==
  /\ mutex_.op = "release" /\ pools_ /\ mutex_.transaction \in Retained
  /\ LET p == retains_[mutex_.transaction] IN EnsureTransaction(p, None) /\ GiveBack(p)
  /\ retains_' = [retains_ EXCEPT ![mutex_.transaction] = None]
  /\ current' = [current EXCEPT ![mutex_.by] = NoTask]
  /\ Unlock
  /\ UNCHANGED <<pools_, transactionCurr_, bounds>>

PostFails ==
  /\ mutex_.op = "post"
  /\ ~pools_ \/ mutex_.transaction \notin Retained
  /\ Unlock
  /\ UNCHANGED <<pools_, retains_, frees_, stopped, tasks, current, transactionCurr_, bounds>>

PostTask ==
  /\ mutex_.op = "post" /\ pools_ /\ mutex_.transaction \in Retained
  /\ AddTask(retains_[mutex_.transaction], Task(mutex_.what, mutex_.transaction))
  /\ Unlock
  /\ UNCHANGED <<pools_, retains_, frees_, stopped, current, transactionCurr_, bounds>>

\* One round of the loop in ReleaseAllTaskThread.
DestroyReleases ==
  /\ mutex_.op = "destroy"
  /\ \E t \in Retained :
       /\ EnsureTransaction(retains_[t], None)
       /\ GiveBack(retains_[t])
       /\ retains_' = [retains_ EXCEPT ![t] = None]
  /\ UNCHANGED <<pools_, current, transactionCurr_, mutex_, bounds>>

DestroyThreadGroup ==
  /\ mutex_.op = "destroy"
  /\ Retained = {}
  /\ pools_' = FALSE
  /\ Unlock
  /\ UNCHANGED <<retains_, frees_, stopped, tasks, current, transactionCurr_, bounds>>

(***************************************************************************)
(* The threads of the pools                                                *)
(***************************************************************************)

\* Mutant: a thread that was given back leaves what is queued behind.
TakeTaskOfRetained(p) ==
  /\ p \notin Free \cup stopped
  /\ current[p] = NoTask /\ tasks[p] # <<>>
  /\ current' = [current EXCEPT ![p] = Head(tasks[p])]
  /\ tasks' = [tasks EXCEPT ![p] = Tail(@)]
  /\ UNCHANGED <<pools_, retains_, frees_, stopped, transactionCurr_, mutex_, bounds>>

TakeTask(p) ==
  /\ p \notin stopped
  /\ current[p] = NoTask /\ tasks[p] # <<>>
  /\ current' = [current EXCEPT ![p] = Head(tasks[p])]
  /\ tasks' = [tasks EXCEPT ![p] = Tail(@)]
  /\ UNCHANGED <<pools_, retains_, frees_, stopped, transactionCurr_, mutex_, bounds>>

RunEnsure(p) ==
  /\ current[p].what = "ensure"
  /\ transactionCurr_' = [transactionCurr_ EXCEPT ![p] = current[p].transaction]
  /\ current' = [current EXCEPT ![p] = NoTask]
  /\ UNCHANGED <<pools_, retains_, frees_, stopped, tasks, mutex_, bounds>>

RunPost(p) ==
  /\ current[p].what = "post"
  /\ current' = [current EXCEPT ![p] = NoTask]
  /\ UNCHANGED <<pools_, retains_, frees_, stopped, tasks, transactionCurr_, mutex_, bounds>>

OperationStep ==
  \/ RetainFails \/ RetainTaskThread \/ ReleaseFails \/ ReleaseTaskThread
  \/ PostFails \/ PostTask \/ DestroyReleases \/ DestroyThreadGroup

ThreadStep(p) == TakeTask(p) \/ RunEnsure(p) \/ RunPost(p)

Next ==
  \/ CreateThreadGroup \/ CallDestroy
  \/ \E t \in Transactions :
       CallRetain(t) \/ \E what \in {"post", "finish"} : CallPost(t, what)
  \/ OperationStep
  \/ \E p \in Pools : ThreadStep(p) \/ CallRelease(p)

\* The threads run, and a thread that asks for the mutex again and again while
\* it is free in between gets it.
Fairness ==
  /\ WF_vars(OperationStep)
  /\ \A p \in Pools : WF_vars(ThreadStep(p)) /\ SF_vars(CallRelease(p))

Spec == Init /\ [][Next]_vars

FairSpec == Spec /\ Fairness

(***************************************************************************)
(* Properties                                                              *)
(***************************************************************************)

\* A pool has one owner: it is retained by one transaction, or free once, or
\* destroyed.  A thread shared by two transactions would mix their tasks.
PoolsHaveOneOwner ==
  /\ \A t, u \in Retained : retains_[t] = retains_[u] => t = u
  /\ \A i, j \in DOMAIN frees_ : frees_[i] = frees_[j] => i = j
  /\ \A t \in Retained : retains_[t] \notin Free \cup stopped
  /\ Free \cap stopped = {}

\* With one group and no more threads in it than THREAD_NUM_KEEP, the loop that
\* pops frees_ never does: no pool is destroyed, so no operation ever joins a
\* thread while it holds the mutex that thread may be waiting for.
NoPoolDestroyed == stopped = {} /\ Cardinality(Created) <= ThreadNum

\* GetCurrTransaction inside a task names the transaction it was posted for,
\* also when it runs after its transaction gave the thread back.
TaskSeesItsTransaction ==
  \A p \in Pools :
    current[p].what \in {"post", "finish"} => transactionCurr_[p] = current[p].transaction

\* An operation waits for room in a queue, with the mutex held that the thread
\* of that queue needs to give itself back.
Jammed ==
  /\ mutex_ # NoOp
  /\ \E p \in Pools : Len(tasks[p]) = MaxTaskNum /\ current[p].what = "finish"

\* Every posted task is run, and a thread that waits for the mutex to give itself
\* back gets it, unless all stops for one reason: AddTask waits with
\* ThreadGroups::mutex_ held for a thread that waits for that mutex.
\* (thread_groups.cpp:77-92 against 211-235)
OnlyJamStopsTasks ==
  \A p \in Pools :
    LET Posted == \E what \in {"post", "finish"} :
                    \/ current[p].what = what
                    \/ \E i \in DOMAIN tasks[p] : tasks[p][i].what = what
    IN  Posted ~> (~Posted \/ []Jammed)
=============================================================================
