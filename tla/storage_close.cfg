SPECIFICATION StorageSpec
CONSTANTS
  Keys = {k1}
  Values = {v1}
  Stores = {s1}
  Clients = {c1, c2}
  MaxCalls = 2
  MaxCrashes = 0
  None = None
  Free = Free
  NoStore = NoStore
  NoClient = NoClient
PROPERTIES
  ClosedIsFinal
CHECK_DEADLOCK FALSE
