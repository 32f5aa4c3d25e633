SPECIFICATION FairSpec
CONSTANTS
  Keys = {1, 2, 3}
  Pairs <- SomePairs
  TombSize = 1
  MaxFile = 3
  Threshold = 40
  MaxLevel = 2
  Log <- PutDeletePut
  MaxBatch = 1
  MaxWrites = 3
  MaxOrders = 1
  MaxFaults = 1
CONSTRAINT NoMergeSetGap
INVARIANTS TypeOK OrderMatchesKeys LiveExact TotalExact
PROPERTIES Reclaims
CHECK_DEADLOCK FALSE
