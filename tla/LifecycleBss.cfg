CONSTANTS
  Files <- AllFiles
  MaxInits = 2
SPECIFICATION Spec
INVARIANT OutOfBoundsIsCorrupt
CHECK_DEADLOCK FALSE
