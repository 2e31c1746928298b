SPECIFICATION Spec
CONSTANTS
  a = a
  b = b
  z = z
  Byte = {a, b, z}
  Nul = z
  Unset = Unset
  Sources <- Strings
  Extra = 2
  MaxLen = 5
INVARIANT IInv
PROPERTIES InsertInserts ShiftShifts
CHECK_DEADLOCK FALSE
