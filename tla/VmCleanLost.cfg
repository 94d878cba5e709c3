SPECIFICATION Spec
CONSTANTS
  Threads = {t1}
  Entries = {1, 2}
  Copies = {}
  Values = {1}
  Nothing = Nothing
  MaxObjects = 3
  MaxPages = 3
  MaxCalls = 5
PROPERTY DataStays
