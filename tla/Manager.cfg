\* One thread calls the manager, one the endpoints, both collect garbage; two
\* endpoints in this process and one in a child; one interrupt, at the manager's thread.
SPECIFICATION Spec
CONSTANTS
  Threads = {t1, t2}
  Managing = {t1}
  Using = {t2}
  Locals = {e1, e2}
  Remote = {r1}
  Interruptible = {t1}
  MaxInterrupts = 1
CONSTRAINT TwoGranted
SYMMETRY Symmetry
INVARIANTS NoCircularWait ObligationsTracked DestroyedWhenGone HealthyNeverRetained
CHECK_DEADLOCK FALSE
