SPECIFICATION Spec
CONSTANTS
  Configs <- AllConfigs
  \* they tell greater, smaller and equal
  Values = {0, 1}
INVARIANTS QgStartsAtDeepestGroup BlocksLargeEnough CachedSplitIsCurrent NoCheckFires PartsDivideTheArea NetworkCoversTheCu DecidedByThisCall
PROPERTIES ExitRestoresCounters ExitRestoresTree
