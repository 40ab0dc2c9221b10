SPECIFICATION Spec
CONSTANT Configurations <- ConfigurationsVal
INVARIANTS
  AcceptsStream
  BufferBounded
  EverythingShown
PROPERTIES
  ImplementsOutput
