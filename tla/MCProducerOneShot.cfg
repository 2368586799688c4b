SPECIFICATION ProducerSpec
CONSTANTS
  Tasks = {"pmu", "proc", "fs"}
  Proc = "proc"
  Watched = {"pmu", "proc"}
  Silent = {"pmu"}
  Interval <- MCInterval
  PubInterval = 3
  MinSleep = 1
  MaxSleep = 1
  MaxLate = 1
  MaxWork = 1
  WarmSamples = 2
  Horizon = 14
INVARIANT ReadCarriesAwaitedSample
CHECK_DEADLOCK FALSE
