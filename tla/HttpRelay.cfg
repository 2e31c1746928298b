SPECIFICATION Spec
CONSTANTS
  Messages = 2
  HeadLen = 2
  HeadSpace = 4
  ChunkSpace = 2
  Body <- Bodies
  Declared <- DeclaredBodies
  TagAt <- PageTag
  None = None
  Wild = Wild
  DigitValue <- Decimal
  MaxDigits = 2
  MaxOthers = 3
  Texts <- AllTexts
  Names <- AllNames
  Faults = {"close", "short", "overrun", "residue"}
INVARIANTS IInv Conserved Accounted InStep FieldsAsSaid LengthsAsSaid
CHECK_DEADLOCK FALSE
