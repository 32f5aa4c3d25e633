SPECIFICATION Spec
CONSTANTS
  Keys = {1, 2}
  MaxFile = 2
  SyncMode = "interval"
  CrashKinds = {"kill"}
  MaxSeq = 3
  MaxBatch = 2
  MaxDeleters = 1
  MaxCrashes = 1
  MaxMerges = 1
INVARIANTS TypeOK IndexTruthful IndexResolves RecoverySeesIndex HintMatchesData CleanMeansDurable
PROPERTIES StepsImplementKVMap
CHECK_DEADLOCK FALSE
