\* Capacity 2, ticket ceiling 4, at most 3 epochs per block: stale loads,
\* aborted reservations, both counters at their ceilings; retirement by either
\* side, drain, abandonment and the death of either between any two steps.
SPECIFICATION FairSpec
CONSTANTS
  Producer = producer
  Consumer = consumer
  Authority = authority
  N = 2
  WordMax = 6
  EpochCeiling = 3
  Parkable = FALSE
  Retirers = {authority, producer}
  Reasons = {"none", "PEER", "RESOURCE"}
  Crashable = {producer, consumer}
INVARIANTS IInv RaceFree MessageIntact NoFalseAlarm
PROPERTIES ImplementsChannel Delivered
CHECK_DEADLOCK FALSE
