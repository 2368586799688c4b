SPECIFICATION PartSpec
CONSTANTS
  Tasks = {"pmu", "proc", "fs"}
  Proc = "proc"
  Watched = {"pmu", "proc"}
  Silent = {"pmu"}
  Interval <- MCInterval
  PubInterval = 3
  MinSleep = 1
  MaxSleep = 1
  MaxLate = 1
  MaxWork = 1
  WarmSamples = 2
  Horizon = 9
CONSTANTS Hours = {1, 2, 3} MaxBlocks = 3 MaxMoves = 2
CONSTANTS
  Vectors = {1, 2, 4, 7}
  MaxProcesses = 5
  Cap = 3
  TopN = 2
  Resistance <- MCResistance
INVARIANTS SampledOnTime AwaitedSampleIsSteady SilenceIsConfined SimilarIsNearest
CONSTANTS
  ScanPids = {1, 2}
  TopK = 1
  EnrichTop = 1
  MinInterval = 1
  MaxLives = 2
  MaxTitle = 1
  MaxTicks = 2
  MaxScans = 2
  MaxFaults = 1
CONSTANTS
  GpuPids = {1, 2}
  Machines = {{"nvml", "procUtil", "procMem"}, {"nvml"}, {"nvml", "procMem", "mig"}, {"drm"}, {"pmon", "smi"}}
  RowLimits = {{1, 2}, {}}
  XServers = {1}
  Chromes = {2}
  Full = 2
  Hold = 1
  Decay = 1
  ExitDecay = 1
  PruneAfter = 2
  Uses <- MCUses
  MaxChanges = 2
  MaxClock = 4
  MaxPasses = 3
  MaxMisses = 1
INVARIANTS RowsAreOwn GpuIsEarned
CONSTANTS
  PmuCpus = {1, 2}
  Required = {"cycles", "instr"}
  Optional = {}
  Domains = {1}
  FirstEvent = "instr"
  MoreEvents = {"dtlb"}
  PmuPids = {1}
  NamedPids = {}
  MaxUses = 2
  MaxEvents = 1
  MaxReads = 3
  MaxFailures = 1
 
