CONSTANTS
  a = a
  b = b
  p1 = p1
  p2 = p2
  t1 = t1
  t2 = t2
  None = None
  Spaces = {a, b}
  Ports = {p1, p2}
  Threads = {t1}
  Names = {1, 2}
  MaxSlots = 1
  UrefsMax = 3
  Given <- TwoPorts
  Ops = {"allocate", "deallocate", "destroy", "mod_refs", "rename", "move", "no_senders", "dead_name", "port_destroyed"}
  Dispositions = {"make_send", "make_once", "move_receive", "copy_send", "move_send", "move_once"}
  MaxCalls = 4
SPECIFICATION Spec
INVARIANTS RightsCounted EntriesSound NoSendersOwed RequestsMatch
CHECK_DEADLOCK FALSE
