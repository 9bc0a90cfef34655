CONSTANTS
  Configs <- SmallConfigs
  Capacity = 2
  MaxDeaths = 1
SPECIFICATION FairSpec
INVARIANT HealthyTrialPasses
PROPERTY WorkersEnd
CHECK_DEADLOCK FALSE
