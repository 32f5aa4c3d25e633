SPECIFICATION Spec
CONSTANTS
  Keys = {1, 2}
  MaxFile = 2
  SyncMode = "always"
  CrashKinds = {"kill", "power"}
  MaxSeq = 2
  MaxBatch = 1
  MaxDeleters = 1
  MaxCrashes = 2
  MaxMerges = 2
INVARIANTS EngineInv RecoverySeesIndex RestartKeepsNewest ForgottenDeletesCovered
PROPERTIES AckedSurvivesCrash
CHECK_DEADLOCK FALSE
