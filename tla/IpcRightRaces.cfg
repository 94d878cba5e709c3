CONSTANTS
  a = a
  b = b
  p1 = p1
  p2 = p2
  t1 = t1
  t2 = t2
  None = None
  Spaces = {a, b}
  Ports = {p1, p2}
  Threads = {t1, t2}
  Names = {1, 2}
  MaxSlots = 1
  UrefsMax = 3
  Given <- Crossed
  Ops = {"send", "receive", "terminate", "port_destroyed", "shortage"}
  Dispositions = {"move_receive", "copy_send"}
  MaxCalls = 3
SPECIFICATION FairSpec
INVARIANTS RefsCounted NoLeak OneReceiveRight
PROPERTY Drains
CHECK_DEADLOCK FALSE
