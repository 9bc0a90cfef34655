\* Capacity 2: the producer dies at any instruction; live processes are scheduled.
SPECIFICATION FairSpec
CONSTANTS
  Producers = {p1}
  Consumers = {c1}
  Authority = authority
  N = 2
  WordMax = 6
  EpochCeiling = 3
  Retirers = {authority}
  Reasons = {"PEER"}
  Crashable = {p1}
PROPERTIES CallsReturn DrainCompletes
CHECK_DEADLOCK FALSE
