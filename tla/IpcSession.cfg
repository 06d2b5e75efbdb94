SPECIFICATION FairSpec
CONSTANTS
  r1 = r1
  r2 = r2
  Calls = {r1, r2}
  Scenarios <- MCScenarios
  InCap = 1
  OutCap = 1
  EvCap = 1
  MaxWork = 1
  MaxNews = 1
  MaxGrids = 1
  MayCrash = TRUE
  MayOverrun = TRUE
INVARIANTS NothingLost NobodyElseAnswersTwice
PROPERTIES CallersAreAnswered StopEnds
CHECK_DEADLOCK FALSE
