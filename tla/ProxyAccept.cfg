SPECIFICATION FairSpec
CONSTANTS
  a = a
  b = b
  Clients = {a, b}
  NoFd = NoFd
  Heads <- HeadMixes
  SendLen = 4
  Capacity = 2
  PeekSpace = 3
  MaxFds = 3
  MaxBuffers = 2
  Faults = {"bind", "length", "thread", "short"}
INVARIANTS IInv TakesWholeHeaders
PROPERTIES Admitted HeaderHandled
CHECK_DEADLOCK FALSE
