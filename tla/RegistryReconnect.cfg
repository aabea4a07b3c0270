\* A process whose driver reconnects once, and one start of the service.
CONSTANTS
  Processes = {x1}
  Ids = {1, 2}
  MaxConnects = 2
  MaxStarts = 1
SPECIFICATION Spec
INVARIANT ReconnectIsFound
CHECK_DEADLOCK FALSE
