SPECIFICATION Spec
CONSTANTS
  c1 = c1
  c2 = c2
  Calls <- MCCalls
  MethodsOf <- MCMethodsOf
  Codes = {"SUCCESS", "FAIL"}
  MaxTips = 2
  MaxAnswers = 2
INVARIANTS HearsFirstAnswer WorksFindTheirContext
PROPERTIES AnsweredIsTold NothingLeaks
CHECK_DEADLOCK FALSE
