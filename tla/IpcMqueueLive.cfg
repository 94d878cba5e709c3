CONSTANTS
  Ports = {p1}
  Psets = {}
  Senders = {a, b}
  Receivers = {r1}
  None = None
  MP = FALSE
  Circular = FALSE
  QLimits = {0, 1, 2}
  Sizes = {1}
  Buffers = {1}
  MaxSends = 2
SPECIFICATION FairSpec
INVARIANTS NoStrandedSender NoPanic
PROPERTIES TimeoutsEnd SendersGetThrough
