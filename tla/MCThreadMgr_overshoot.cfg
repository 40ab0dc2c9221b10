CONSTANTS
  Torn = Torn
  NJobs = 2
  Limit = {1}
  MaxLates = 1
  MaxEdits = 0
  MaxSwings = 0
  MaxFails = 0
  MaxCrashes = 0
SPECIFICATION Spec
INVARIANTS
  ScriptsWithinMaxThread
\* the manager may have ended, or wait for a configuration nobody writes again
CHECK_DEADLOCK FALSE
