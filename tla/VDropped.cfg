SPECIFICATION Spec
CONSTANTS
  Keys = {1, 2}
  MaxFile = 2
  StreamBuffer = 1
  MaxSeq = 4
  MaxBatch = 1
  MaxFaults = 0
  MaxMerges = 0
INVARIANTS ResumeIsSafe
CHECK_DEADLOCK FALSE
