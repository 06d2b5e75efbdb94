SPECIFICATION FairSpec
CONSTANTS
  Callers = {c1, c2}
  Loader = loader
  NoOne = noone
  MaxReloads = 1
  MaxCrashes = 3
  LoadMayFail = TRUE
INVARIANTS
  BrokenInstanceIsLeaving
  GivenUpAfterBudget
  ReloadsPaidByCrashes
PROPERTIES
  CallsReturn
  ServiceRestored
\* a discarded supervisor has no callers and stops once its reloads are done
CHECK_DEADLOCK FALSE
