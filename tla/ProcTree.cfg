SPECIFICATION FairSpec
CONSTANTS
  p1 = p1
  p2 = p2
  p3 = p3
  Pid = {p1, p2, p3}
  Cmon = Cmon
  InitProc = InitProc
  NoPid = NoPid
  Group = Group
  Strays = {p3, Group}
  MaxSpelled = 1
  MaxPids = 3
  Faults = {"snapshot", "digits", "start"}
INVARIANTS WaitJustified ListedAreTermed IInv
PROPERTIES OneInstance ChildrenFirst RestartCompletes
CHECK_DEADLOCK FALSE
