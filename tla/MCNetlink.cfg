SPECIFICATION NetlinkSpec
CONSTANTS
  NumPids = 2
  MaxQueue = 2
  MaxForks = 2
  MaxTitles = 2
CONSTANTS
  NumSampled = 3
  Budget = 2
  MaxProcs = 1
  MaxEvents = 2
  MaxCpu = 1
INVARIANTS ActiveIsCurrent ExactShare
PROPERTIES EventEndsShutdown EveryPidScanned
CHECK_DEADLOCK FALSE
