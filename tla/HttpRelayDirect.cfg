SPECIFICATION FairSpec
CONSTANTS
  Messages = 3
  HeadLen = 2
  HeadSpace = 4
  ChunkSpace = 2
  Body <- Longer
  Declared <- DeclaredLonger
  TagAt <- NoTags
  None = None
  Wild = Wild
  DigitValue <- Decimal
  MaxDigits = 2
  MaxOthers = 3
  Texts = {}
  Names = {}
  Faults = {}
PROPERTY Answered
CHECK_DEADLOCK FALSE
