\* Five units: two pictures with a unit between them, or one of several slices
\* with units around it; one slice of a file has other contents than the plain
\* two bytes, at any place in it.
CONSTANTS
  Payloads   <- MCPayloads
  Heads      <- MCHeads
  Substreams <- MCSubstreams
  Types      = {0, 15, 17, 19, 24}
  MaxUnits   = 5
  MaxRich    = 1
SPECIFICATION Spec
INVARIANTS UnitsArrive SubstreamsArrive PicturesDelimited
PROPERTY LoopAdvances
