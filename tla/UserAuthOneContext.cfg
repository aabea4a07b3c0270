\* One context with two schedules.
CONSTANTS
  Contexts = {c1}
  MaxSchedules = 2
  ThreadNum = 1
  OtherThreads = 1
  MaxTips = 1
  MaxAnswers = 2
SPECIFICATION FairSpec
INVARIANTS DoneMeansReleased NoContextOutlivesItsAnswer
PROPERTIES TipsPrecedeResult ThreadReturned ImplementsClient
CHECK_DEADLOCK FALSE
