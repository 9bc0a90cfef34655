\* The same process: native calls of two threads on one endpoint.
SPECIFICATION Spec
CONSTANTS
  Threads = {main, other}
  Interruptible = {main}
  NoThread = nothread
  MaxLeases = 2
  MaxViews = 2
  MaxInterrupts = 1
  Faults = TRUE
INVARIANT CallsSerialized
CHECK_DEADLOCK FALSE
