\* Two threads, two leases with two exports each; two interrupts, native failures.
SPECIFICATION FairSpec
CONSTANTS
  Threads = {main, other}
  Interruptible = {main}
  NoThread = nothread
  MaxLeases = 2
  MaxViews = 2
  MaxInterrupts = 2
  Faults = TRUE
INVARIANTS ViewsPinned TokenTracked HealthyNeverRetained
PROPERTIES NeverRetried DroppedIsDetached
CHECK_DEADLOCK FALSE
