CONSTANTS
  FastNs = 1 TickFloor = 2 ColdIdle = 2 StrandNs = 2 CensoredStrand = 2 SliceMax = 3 TickFresh = 1 MinStints = 2 MinHot = 2
  SchedCpus = {0, 1} Tasks = {1, 2} Traced = {1, 2} Kthread = 9 KstrandThresh = 2
  MaxClock = 5 Scores = {1} Enroller = "handle_sys_enter" MaxHappened = 7 MaxNative = 7 MaxKicks = 0
SPECIFICATION SchedTraceSpec
INVARIANT MixedIsPublished
CHECK_DEADLOCK FALSE
