SPECIFICATION Spec
CONSTANTS
  Pictures <- MultiTilePictures
  SliceQp = 30
  QpBdOffset = 12
INVARIANTS QpArrives
\* the picture is decoded
CHECK_DEADLOCK FALSE
