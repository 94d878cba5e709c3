SPECIFICATION FairSpec
CONSTANTS
  None = None
  e1 = e1
  rp = rp
  t1 = t1
  t2 = t2
  t3 = t3
  Threads = {rp, t1, t2}
  Cpus = {1}
  Events = {e1}
  Reaper = rp
  Waits = {"wait", "wait_uninterruptibly"}
  MaxStops = 1
  Waiters = {t1, t2}
  Calls <- TwoThreads
INVARIANTS HoldsCounted NoPanic 
PROPERTIES HaltedStaysPut CallsReturn
CHECK_DEADLOCK FALSE
