SPECIFICATION Spec
CONSTANTS
  Keys = {1}
  MaxFile = 4
  SyncMode = "interval"
  CrashKinds = {"kill"}
  MaxSeq = 2
  MaxBatch = 1
  MaxDeleters = 1
  MaxCrashes = 1
  MaxMerges = 2
PROPERTIES MergeCrashHarmless
CHECK_DEADLOCK FALSE
