SPECIFICATION Spec
CONSTANTS
  Messages = 2
  HeadLen = 2
  HeadSpace = 4
  ChunkSpace = 2
  Body <- Bodies
  Declared <- DeclaredBodies
  TagAt <- NoTag
  None = None
  Wild = Wild
  DigitValue <- Decimal
  MaxDigits = 2
  MaxOthers = 3
  Texts = {}
  Names = {}
  Faults = {"close"}
PROPERTY NoResponseHandled
CHECK_DEADLOCK FALSE
