SPECIFICATION Spec
CONSTANTS
  Threads = {t1, t2}
  Entries = {1, 2, 3}
  Copies = {3}
  Values = {1}
  Nothing = Nothing
  MaxObjects = 5
  MaxPages = 2
  MaxCalls = 4
SYMMETRY Symmetry
INVARIANTS NoPanic CountsRight WaitersWake WritersAlone
PROPERTY Implements
