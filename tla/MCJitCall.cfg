CONSTANTS
  Pcs = {1, 2, 3, 4, 5}
  Mapped = {1, 2, 3}
  Text = {1, 2, 3, 4}
  MaxBps = 2
  StubSlots = 2
  StubRoom = TRUE
  Symbols = {0, 1, 4}
  Kind <- LoopKind
  Flow <- LoopFlow
  InitialFuel = 5
  HostMayClose = TRUE
SPECIFICATION FairSpec
INVARIANTS JitTypeOK DebugNeverHandled TrapIsABreakpoint PromptIsArmed FullSpeedIsArmed FaultIsConsumed
PROPERTIES FuelOnlyBurns   BpSpec UndebuggedCallsEnd DisconnectFreesHost
CHECK_DEADLOCK FALSE
