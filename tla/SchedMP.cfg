SPECIFICATION Spec
CONSTANTS
  None = None
  e1 = e1
  t1 = t1
  t2 = t2
  t3 = t3
  Threads = {t1, t2, t3}
  Cpus = {1, 2}
  Events = {e1}
  Reaper = None
  Waits = {"wait"}
  MaxStops = 1
  Waiters = {t1}
  Calls <- Mixed
INVARIANTS RunnableInOnePlace SleeperIsKnown AssertionsHold NoHaltCycle
CHECK_DEADLOCK FALSE
