\* Capacity 2, ticket ceiling 5: laps over both queues, with retirement by the
\* manager and by the consumer, quarantine, drain and abandonment interleaved
\* with every step of the calls.
SPECIFICATION Spec
CONSTANTS
  Producers = {p1}
  Consumers = {c1}
  Authority = authority
  N = 2
  WordMax = 7
  EpochCeiling = 3
  Retirers = {authority, c1}
  Reasons = {"none", "PEER"}
  Crashable = {}
INVARIANTS IInv FrontierOrder MessageIntact NoFalseAlarm
PROPERTIES RetirementIsForward
CHECK_DEADLOCK FALSE
