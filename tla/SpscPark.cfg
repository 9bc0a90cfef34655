\* Capacity 2, one lap: both endpoints park, loads are stale, the producer may
\* die while the consumer waits, the manager may retire the generation.
SPECIFICATION FairParkSpec
CONSTANTS
  Producer = producer
  Consumer = consumer
  Authority = authority
  N = 2
  WordMax = 5
  EpochCeiling = 1
  Parkable = TRUE
  Retirers = {authority}
  Reasons = {"none"}
  Crashable = {producer}
INVARIANT WakeupsExact
PROPERTIES WaitReturns
CHECK_DEADLOCK FALSE
