SPECIFICATION FairSpec
CONSTANTS
  r1 = r1
  r2 = r2
  Requests = {r1, r2}
  OpsTried <- MCOpsTried
  Worlds <- MCWorlds
  KeySets <- MCKeySets
  MaxAnswers = 3
  MaxDeaths = 1
  NoService = NoService
  Free = Free
\* A run ends when the calls are made and the instances used up.
CHECK_DEADLOCK FALSE
INVARIANTS ProxyFollowsService ToldOnce
PROPERTIES CallsReturn AcceptedIsAnswered
