\* Capacity 4: two producers race for a block, for a QR ticket and, with the
\* consumer, for a QF ticket, up to the ticket ceiling 6 in QR.
SPECIFICATION Spec
CONSTANTS
  Producers = {p1, p2}
  Consumers = {c1}
  Authority = authority
  N = 4
  WordMax = 10
  EpochCeiling = 1
  Retirers = {}
  Reasons = {}
  Crashable = {}
CONSTRAINT OneReturned
SYMMETRY Symmetry
INVARIANTS Partition
PROPERTIES EmptyIsExact ImplementsChannel
CHECK_DEADLOCK FALSE
