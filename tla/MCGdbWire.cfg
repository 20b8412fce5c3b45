SPECIFICATION Spec
CONSTANTS
  Kinds <- EveryKind
  MaxAsked = 4
  MaxDamaged = 2
  MaxRepeated = 1
  MaxInterrupts = 2
INVARIANTS OnlyTheseConfuse
PROPERTIES  Answered
CHECK_DEADLOCK FALSE
