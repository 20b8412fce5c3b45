CONSTANTS
  Files <- AllFiles
  MaxInits = 2
SPECIFICATION Spec
INVARIANTS MemoryIsSound NothingIsLost 
CHECK_DEADLOCK FALSE
