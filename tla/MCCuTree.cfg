\* A history of two candidates, so that the third motion drops the oldest.
CONSTANTS
  Ctus <- MCCtus
  MAX_NUM_HMVP_CANDS = 2
SPECIFICATION Spec
INVARIANTS MotionsAgree ReusedAsFound
\* the CTU is compressed
CHECK_DEADLOCK FALSE
