SPECIFICATION TrackingSpec
CONSTANTS
  NumTids = 3
  MaxProcs = 3
  MaxForks = 2
  MaxNames = 1
INVARIANTS TrackedAsAsked SnapshotIsComplete
