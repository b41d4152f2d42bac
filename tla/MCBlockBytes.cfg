SPECIFICATION BlockSpec
CONSTANTS
  Half = 8
  MaxDigits = 2
  MaxFields = 2
  Values <- MCValues
  Utf8 <- MCUtf8
  Foreign <- MCForeign
  AddressLength = 1
  HexBase = 4
  Alphabet = 3
  Refused = Refused
  Letter = 5
  Prefix = 6
  Space = 4
  Colons = 7
  Less = 8
  Greater = 9
  Comma = 10
  Vector = 11
  Bool = 12
  U8 = 13
  Types <- MCTypes
  Blocks <- MCBlocks
  NoBlock = NoBlock
  IndexWidth = 1
  NumberWidth = 2
INVARIANTS
  TypeOK
  ReadsBack
  WholeIsRead
  CutIsNoticed
  AcceptsEncodings
  SchemaFollowed
  NodeSees
  SoundIsSerialized
CHECK_DEADLOCK FALSE
