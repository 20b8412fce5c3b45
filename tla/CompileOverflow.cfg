CONSTANTS
  TextSize = 512
  Forms <- LoadsOnly
  SymbolSets <- NoSymbols
  ExecBytesPerByte = 128
  MinExecSize = 65536
  TrampolineMax = 160
  InstrMax = 224
  EpilogueMax = 256
  TrampolineBytes = 59
  EpilogueBytes = 11
  StubBytes = 39
  Bytes <- RealBytes
SPECIFICATION Spec
INVARIANT OkMeansWhole
CHECK_DEADLOCK FALSE
