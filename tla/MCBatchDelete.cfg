SPECIFICATION Spec

CONSTANTS
  N = 4
  MaxErrors = 2

INVARIANTS
  LeftoversReported

PROPERTIES
  Stops
