CONSTANTS
  Torn = Torn
  NJobs = 3
  Limit = {0, 1, 2}
  MaxLates = 1
  MaxEdits = 2
  MaxSwings = 1
  MaxFails = 1
  MaxCrashes = 2
SPECIFICATION FairSpec
INVARIANTS
  ExitLeavesNothingBehind
PROPERTIES
  ImplementsPool
  Terminates
\* the manager may have ended, or wait for a configuration nobody writes again
CHECK_DEADLOCK FALSE
