SPECIFICATION PartSpec
CONSTANTS
  p1 = p1
  p2 = p2
  Tgids = {p1, p2}
  TableMax = 1
  Lives = 2
  LoadFails = TRUE
CONSTANTS
  Thieves = {h1, h2}
  InitCap = 1
  MaxPush = 3
CONSTANTS
  IoPids = {"p", "q"}
  IoCpus = {0, 1}
  IoFds = {3}
  MaxIoCalls = 3
  MaxIoTime = 3
  IoThreads <- MCIoThreads
SYMMETRY TableSymmetry
INVARIANTS TableIsExact  FramesAreKept 
