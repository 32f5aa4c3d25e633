SPECIFICATION FairSpec
CONSTANTS
  Nodes = {1, 2, 3}
  Scenarios <- TakeoverScenarios
PROPERTIES PromotionBumpsEpoch
CHECK_DEADLOCK FALSE
