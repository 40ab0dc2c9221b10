SPECIFICATION Spec
CONSTANT Configurations <- RandomAccessVal
INVARIANTS
  AcceptsStream
