SPECIFICATION ReadersSpec
CONSTANTS
  Keys = {1, 2}
  MaxFile = 4
  SyncMode = "never"
  CrashKinds = {"kill"}
  MaxSeq = 2
  MaxBatch = 2
  MaxDeleters = 1
  MaxCrashes = 1
  MaxMerges = 1
INVARIANTS ReadsCurrent ReadsSucceed
CHECK_DEADLOCK FALSE
