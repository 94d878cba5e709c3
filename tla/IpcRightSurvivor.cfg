CONSTANTS
  a = a
  b = b
  p1 = p1
  p2 = p2
  t1 = t1
  t2 = t2
  None = None
  Spaces = {a, b}
  Ports = {p1, p2}
  Threads = {t1}
  Names = {1, 2}
  MaxSlots = 1
  UrefsMax = 3
  Given <- TwoPorts
  Ops = {"mod_refs", "no_senders", "port_destroyed"}
  Dispositions = {"make_send", "make_once", "move_receive", "copy_send", "move_send", "move_once"}
  MaxCalls = 3
SPECIFICATION Spec
INVARIANT NoSendersTold
CHECK_DEADLOCK FALSE
