SPECIFICATION FairSpec
CONSTANTS
  root = root
  sub = sub
  late = late
  build = build
  src = src
  mod = mod
  page = page
  Files = {src, mod, page}
  Dirs = {root, sub, late, build}
  DirOf <- DirOfFiles
  NameOf <- NameOfFiles
  InitialDirs = {root, sub, late, build}
  SkippedDirs = {build}
  Removable = {late}
  Overflow = Overflow
  MaxQueuedEvents = 3
  BufferEvents = 2
  MaxEdits = 2
  MaxRefusals = 1
  Faults = {"walk", "list", "snapshot", "start"}
  IgnoreFiles <- IgnoreGoMod
  WatchExtNames <- PlainHtml
  CwdTerminated = TRUE
  ShiftedExt <- Shifted
INVARIANTS IInv QuiescentFresh RestartsJustified
PROPERTIES OneFreshInstance EditsAnswered
CHECK_DEADLOCK FALSE
