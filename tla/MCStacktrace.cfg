CONSTANTS
  StackSize = 6
  MaxDepth = 3
  AddressEnd = 1024
  Inputs <- Guests
  Syms <- Symbols
SPECIFICATION Spec
INVARIANTS TraceIsTheCallStack LocationIsTheRow
CHECK_DEADLOCK FALSE
