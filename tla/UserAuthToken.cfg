\* The device refuses what the executor passed.
CONSTANTS
  Contexts = {c1}
  MaxSchedules = 1
  ThreadNum = 1
  OtherThreads = 1
  MaxTips = 0
  MaxAnswers = 2
SPECIFICATION Spec
INVARIANTS SuccessCarriesToken
CHECK_DEADLOCK FALSE
