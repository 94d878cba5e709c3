CONSTANTS
  Ports = {p1, p2}
  Psets = {s1}
  Senders = {a}
  Receivers = {r1}
  None = None
  MP = TRUE
  Circular = TRUE
  QLimits = {1}
  Sizes = {2}
  Buffers = {1, 2}
  MaxSends = 2
SPECIFICATION Spec
SYMMETRY Symmetry
CHECK_DEADLOCK FALSE
INVARIANTS MessagesInOrder MsgCountExact QueuedAsRecorded NobodyWaitsForNothing
