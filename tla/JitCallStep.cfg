CONSTANTS
  Pcs = {1, 2, 3, 4, 5}
  Mapped = {1, 2, 3}
  Text = {1, 2, 3}
  MaxBps = 1
  StubSlots = 1
  StubRoom = TRUE
  Symbols = {0, 1, 4}
  Kind <- LoopKind
  Flow <- LoopFlow
  InitialFuel = 3
  HostMayClose = TRUE
SPECIFICATION Spec
INVARIANT StepRunsOneInstruction
CHECK_DEADLOCK FALSE
