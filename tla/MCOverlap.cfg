SPECIFICATION Spec
CONSTANTS
  Places = 3
  MaxExtents = 4
  Cap = 8
INVARIANT
  RefusesExactlyTheClashing
CHECK_DEADLOCK FALSE
