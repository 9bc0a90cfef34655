\* One object with two endpoints, each grant delivered twice; unlinking, unmapping and
\* closing may fail.
SPECIFICATION Spec
CONSTANTS
  Owner = owner
  Nobody = nobody
  Children = {child}
  Endpoints = {e1, e2}
  Copies = {k1, k2}
  Slots = 1
  MaxQuarantined = 1
  MaxEpoch = 1
  Faults = {"unlink", "munmap", "close"}
CONSTRAINT ThreeAttached
SYMMETRY Symmetry
INVARIANTS CountExact ResolvedMeansGone FencedBeforeSeal
CHECK_DEADLOCK FALSE
