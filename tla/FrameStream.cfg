SPECIFICATION Spec
CONSTANTS
  Base = 2
  HeaderLen = 2
  WriterMax = 3
  ReaderMax = 2
  StreamCap = 4
  MaxFrames = 3
INVARIANTS
  EndMissesOnlyHeader
PROPERTIES
  ImplementsChannel
CHECK_DEADLOCK FALSE
