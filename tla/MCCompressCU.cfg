SPECIFICATION FairSpec
CONSTANTS
  Cus <- AllCus
  MaxCost = 2
  MaxBtDepth = 3
INVARIANTS AskedAboutUnsplitCoding SplitsArePermitted QtGivenUpAfterBinary ForcedSplitsKept EndsCoded NoFault
PROPERTIES EveryLevelEnds
\* the search of a CU ends
CHECK_DEADLOCK FALSE
