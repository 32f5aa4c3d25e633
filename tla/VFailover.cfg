SPECIFICATION FairSpec
CONSTANTS
  Nodes = {1, 2, 3}
  Scenarios <- FailoverScenarios
PROPERTIES MajorityElects
CHECK_DEADLOCK FALSE
