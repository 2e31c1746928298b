SPECIFICATION Spec
CONSTANTS
  c1 = c1
  c2 = c2
  Cmons = {c1, c2}
  Words <- MCWords
  Numerals = {"7"}
  Keys <- MCKeys
  NoKey = NoKey
  Default <- MCDefault
  UserConfigs <- MCConfigs
  UserGaps <- Gaps
  OddFiles <- MCOddFiles
  Saved <- MCSaved
  MaxTokens = 16
  MaxEntries = 3
  MaxLexeme = 3
  MaxFiles = 2
  Faults = {"permission"}
SYMMETRY Both
INVARIANTS IInv AsWritten ListedOnce EmptyIsTransient EmptyIsNew
CHECK_DEADLOCK FALSE
