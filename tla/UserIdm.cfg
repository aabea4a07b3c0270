\* Three calls of any kind, two of them at a time.
CONSTANTS
  Calls = {r1, r2, r3}
  None = None
  IpcThreads = 2
  MaxCredentials = 2
SPECIFICATION FairSpec
INVARIANTS TypeOK FirstAnswerIsTrue
PROPERTIES ForgottenNeverEnrols BusyEnds EnrolmentAnswered
CHECK_DEADLOCK FALSE
