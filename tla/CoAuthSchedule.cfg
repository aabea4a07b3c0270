\* One schedule, two executors in its list: every interleaving of the two
\* Finish threads, BeginSchedule, Cancel and the timeout, which may fire during
\* BeginExecute; two executors of one type that register, die and return.
CONSTANTS
  Schedules = {s1}
  pin = pin
  face = face
  AuthTypes <- MCAuthTypes
  Executors = {1, 2}
  TypeOf <- MCTypeOf
  MaxExecutors = 2
SPECIFICATION FairSpec
INVARIANTS TypeOK PoolAndMonitorAgree LastExecutorReports OneVerdict
PROPERTIES TimeoutEndsExecutors ImplementsContract
