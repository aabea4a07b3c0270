\* The driver goes and comes back at any time, also while a command runs.
CONSTANTS
  Commands = {c1}
  MaxConnects = 2
  MaxAnswers = 2
SPECIFICATION FairSpec
INVARIANTS FinishOnce OneMessageAtATime AcceptedIsTracked
PROPERTIES AnswerReachesFramework ReconnectRegisters
CHECK_DEADLOCK FALSE
