\* Queues of two tasks: an operation may wait with the mutex held.
CONSTANTS
  Transactions = {t1, t2, t3}
  Pools = {p1, p2}
  ThreadNum = 2
  ThreadNumKeep = 2
  MaxTaskNum = 2
  MaxPosts = 3
  MaxStarts = 1
SPECIFICATION FairSpec
INVARIANTS PoolsHaveOneOwner NoPoolDestroyed TaskSeesItsTransaction
PROPERTIES OnlyJamStopsTasks
CHECK_DEADLOCK FALSE
