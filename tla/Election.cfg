SPECIFICATION Spec
CONSTANTS
  Nodes = {1, 2, 3}
  Scenarios <- SafetyScenarios
INVARIANTS TypeOK OneLeaderPerEpoch LeaderOnlyLeads
PROPERTIES EpochKept ElectedIsUpToDate
CHECK_DEADLOCK FALSE
