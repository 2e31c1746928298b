SPECIFICATION FairSpec
CONSTANTS
  dir = dir
  page = page
  src = src
  p1 = p1
  p2 = p2
  Files = {src, page}
  Dirs = {dir}
  DirOf <- DirOfFiles
  NameOf <- NameOfFiles
  InitialDirs = {dir}
  SkippedDirs = {}
  Removable = {}
  Overflow = Overflow
  MaxQueuedEvents = 2
  BufferEvents = 2
  MaxEdits = 2
  MaxRefusals = 1
  Faults = {"walk", "snapshot", "digits", "start"}
  IgnoreFiles = {}
  WatchExtNames <- OnlyHt
  CwdTerminated = FALSE
  ShiftedExt <- Shifted
  Pid = {p1, p2}
  CmonPid = CmonPid
  InitProc = InitProc
  NoPid = NoPid
  Group = Group
  Strays = {p2, Group}
  MaxSpelled = 1
  MaxPids = 2
PROPERTIES WatcherOfCmon EditsReach
CHECK_DEADLOCK FALSE
