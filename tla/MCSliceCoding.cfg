SPECIFICATION Spec
CONSTANTS
  Pictures <- AllPictures
  SliceQp = 30
  QpBdOffset = 12
INVARIANTS SubstreamsAgree SubstreamsFit QpArrives
\* the picture is decoded
CHECK_DEADLOCK FALSE
