CONSTANTS
  TextSize = 8
  Forms <- SmallForms
  SymbolSets <- SmallSymbolSets
  ExecBytesPerByte = 4
  MinExecSize = 8
  TrampolineMax = 4
  InstrMax = 10
  EpilogueMax = 8
  TrampolineBytes = 2
  EpilogueBytes = 2
  StubBytes = 3
  Bytes <- SmallBytes
SPECIFICATION Spec
INVARIANTS TypeOK IrIsTheProgram PatchesFit BodyIsWhole LinksAreRight
PROPERTY NothingDropped
CHECK_DEADLOCK FALSE
