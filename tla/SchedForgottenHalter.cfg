SPECIFICATION Spec
CONSTANTS
  None = None
  e1 = e1
  t1 = t1
  t2 = t2
  t3 = t3
  Threads = {t1, t2, t3}
  Cpus = {1}
  Events = {e1}
  Reaper = None
  Waits = {"wait"}
  MaxStops = 0
  Waiters = {t1, t2, t3}
  Calls <- Aborts
SYMMETRY Symmetry
INVARIANT HalterIsTold
CHECK_DEADLOCK FALSE
