SPECIFICATION PartSpec
CONSTANTS
  Tokens = {"A"} ScrapeValues = {4, 113} Tolerances = {0, 10} ExactBelow = 100
CONSTANTS
  CommandLines <- MCCommandLines
  OffenderLists <- MCOffenderLists
  Addresses = {0, 1, 2, 3, 4, 5, 6}
CONSTANTS
  Recordings <- MCRecordings
  Families <- MCFamilies
  OptionSets <- MCOptionSets
  PoolThreads = {t1, t2}
  Alpha <- MCAlpha
  Floor <- MCFloor
  BootstrapVerdict <- MCVerdict
CONSTANTS
    Ints <- TheInts
    Floats <- TheFloats
    Nan <- NotANumber
    IntLen = 5
    FloatLen = 5
    SlotLen = 6
    MaxK = 3
    Probe = 3
    SmallK = 2
    QuickMin = 2
    MinMerge = 3
    TailMin = 1
    MaxRuns = 2
    MinGallop = 1
    FewRuns = 1
    RadixMin = 3
    Base = 2
    Passes = 4
    FlagMin = 2
    ParallelMin = 5
    RadixParMin = 5
    Chunks = 2
    PackMin = 3
    PatienceMin = 2
CONSTANTS Requests <- MCRequests Page = 1 RingBits = 4 DefaultRing = 2 Pids = {p1, p2} Excluded = {p2}
  MaxNtsync = 1 MaxRing = 1 MaxActs = 3
INVARIANTS PassIsEarned LossIsStated PopulationExact OrderIsExact
PROPERTY CaptureIsSafe
