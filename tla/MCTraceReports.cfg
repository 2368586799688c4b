SPECIFICATION ReportSpec
CONSTANTS
  SpinGap = 2  SpinMinIters = 2  PairRatio = 2  PairMinWaits = 2
  ParkSlack = 1  KilledStall = 3  SpinRetries = 2  SpinPace = 2
  Threads = {1, 2}  Leader = 1  Cpus = {c1, c2}  Objs = {1}
  Kinds = {"ntsync", "futex", "iowait", "keyed"}
  Steps = {1, 3}  NtSteps = {3}  MaxTime = 4  MaxCalls = 3  MaxLost = 1
CONSTANTS
  MaxHits = 2  ArenaSize = 4  Window = 1
  Workers = {1, 2}  Main = 1  Addrs = {1, 2}  Buggy = FALSE
  StackSize = 2  EchoWindow = 0  MaxHeapOps = 4  MaxHeapLost = 1  MaxHeapTime = 3
CONSTANTS
  FastNs = 1 TickFloor = 2 ColdIdle = 2 StrandNs = 2 CensoredStrand = 2 SliceMax = 3 TickFresh = 1 MinStints = 2 MinHot = 2
  SchedCpus = {0, 1} Tasks = {1, 2} Traced = {1} Kthread = 9 KstrandThresh = 2
  MaxClock = 4 Scores = {1, 5} Enroller = "handle_sys_enter" MaxHappened = 5 MaxNative = 4 MaxKicks = 3
CONSTANTS
  Topology <- MCTopology StormRate = 2 HeldLong = 3 MinGates = 2 MinProfile = 3 ProfileBins = 2 SlowIo = 3
  Hurst <- MCHurst Distances <- MCDistances
  Alphabets <- MCAlphabets MaxRecords <- MCMaxRecords KstrandNames = {"kworker"}
SYMMETRY CpuSymmetry
INVARIANTS
  SyncIsReported
  HeapReplayExact
  
  ReportIsCoherent
