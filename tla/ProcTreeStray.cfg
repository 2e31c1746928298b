SPECIFICATION Spec
CONSTANTS
  p1 = p1
  p2 = p2
  p3 = p3
  Pid = {p1, p2, p3}
  Cmon = Cmon
  InitProc = InitProc
  NoPid = NoPid
  Group = Group
  Strays = {p3}
  MaxSpelled = 1
  MaxPids = 3
  Faults = {}
PROPERTY SnapshotIsTree
CHECK_DEADLOCK FALSE
