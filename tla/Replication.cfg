SPECIFICATION FairSpec
CONSTANTS
  Keys = {1, 2}
  MaxFile = 2
  StreamBuffer = 1
  MaxSeq = 3
  MaxBatch = 2
  MaxFaults = 1
  MaxMerges = 1
CONSTRAINT NoGap
INVARIANTS TypeOK ResumesComplete
PROPERTIES Converges
CHECK_DEADLOCK FALSE
