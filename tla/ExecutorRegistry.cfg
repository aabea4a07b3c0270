\* A process, a driver that reconnects, a service that starts three times.
CONSTANTS
  Processes = {x1}
  Ids = {1, 2, 3, 4}
  MaxConnects = 2
  MaxStarts = 3
SPECIFICATION FairSpec
INVARIANTS TypeOK EntryIsWatched MessengerFollows
PROPERTIES OnlyFailureMisses
CHECK_DEADLOCK FALSE
