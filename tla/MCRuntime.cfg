SPECIFICATION RuntimeSpec
CONSTANTS
  MaxClients = 3
  Failures = {"setup", "wait", "poll"}
CONSTANTS
  CommandLines <- MCCommandLines
  MaxFrames = 4
  MaxQueuedFrames = 2
  MaxThrows = 1
CONSTANTS
  Emitters = {e1, e2}
  NoOne = none
  Chunks = 2
  PipeRoom = 1
  ScrapeTimeout = 2
  MaxUpdates = 1
CONSTANTS
  NumWorkers = 3
  Tree = {"r", "a", "b", "c", "d"}
  Root = "r"
  Children <- MCChildren
CONSTANTS
  RingSize = 2
  FlushAt = 2
  Naps = 1
  MaxMade = 4
  MaxKicked = 1
  MaxWriteErrors = 1
INVARIANTS
  DescriptorsAreOwn
  
  ScrapeIsWhole
  FramesAreRun
  
PROPERTIES
  ServerAnswers
  StopEndsOrWakeupLost
  
  Returns
  EventsReachDisk
