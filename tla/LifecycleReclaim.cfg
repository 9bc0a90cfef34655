\* Two generations with one endpoint each, one of them in quarantine; the child may die,
\* the creation of an object and an attach may fail.
SPECIFICATION FairSpec
CONSTANTS
  Owner = owner
  Nobody = nobody
  Children = {child}
  Endpoints = {1}
  Copies = {1}
  Slots = 2
  MaxQuarantined = 1
  MaxEpoch = 2
  Faults = {"create","attach"}
INVARIANT SingleService
PROPERTY Reclaimed
CHECK_DEADLOCK FALSE
