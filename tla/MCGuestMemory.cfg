CONSTANTS
  Word = 16
  Guard = 1
  Layouts <- AnyLayout
  AccessSizes = {1, 2}
  Lengths <- SomeLengths
  PacketCap = 5
  Byte = {0, 1}
SPECIFICATION Spec
INVARIANTS MemTypeOK 
PROPERTIES TextIsConstant FlatWhereDisjoint
