CONSTANTS
  Xlen = 8
  Wlen = 4
  Encodings <- AllWords
  Pc = 2048
  Encoded <- AllEncoded
  Environments <- TwoEnvironments
  Executed <- AllExecuted
  Programs <- ThreePrograms
  Operands <- EdgeOperands
  Addresses <- AllAddresses
  MemoryValues <- TwoContents
SPECIFICATION Spec
INVARIANT CJalrIsTranslated
CHECK_DEADLOCK FALSE
