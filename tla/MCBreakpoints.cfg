CONSTANTS
  Pcs = {1, 2, 3, 4}
  Mapped = {1, 2, 3}
  MaxBps = 3
  StubSlots = 4
  StubRoom = TRUE
SPECIFICATION BpSpec
INVARIANTS TypeOK TableIsConsistent CodeIntegrity StubReportsItsPc CleanWhenDetached
PROPERTY StubsInUseAreStable
