SPECIFICATION ServicesSpec
CONSTANTS
  MaxPromises = 3
  MaxTimers = 1
  MaxNow = 1
  GuardLimit = 3
  MaxAwaits = 1
  MaxItems = 2
  IoThreads = 2
  Delays = {0, 1}
  Handlers <- MCHandlers
  Programs <- MCPrograms
  MaxMessages = 4
  Callbacks = {f1, f2}
  Scripts <- MCScripts
  MaxListeners = 2
  MaxStreamCalls = 2
  MaxChunks = 1
  MaxBytes = 2
  HighWaterMark = 1
  Threads = {t1, t2}
  BufferBytes = 2
  ByteValues = 2
  ElementSizes = {1, 2}
  MaxAccesses = 3
  NoThread = NoThread
  WordBits = 4
  Radix = 10
  MaxParts = 3
  WideBits = 14
  Operands <- MCOperands
  Shifts <- MCShifts
  Keys = {k1, k2}
  Values = {v1}
  Stores = {s1, s2}
  Clients = {c1, c2}
  MaxCalls = 3
  MaxCrashes = 1
  Mains = {m1, m2}
  Serves = {h1}
  Connections = {n1}
  ServerPrograms <- MCServerPrograms
  MaxServerListeners = 2
  MaxServerCalls = 3
  None = None
  Free = Free
  NoStore = NoStore
  NoClient = NoClient
INVARIANTS
  ServicesTypeOK
  TasksOwned
  AnswersInOrder
  EndsOnce
  ServerKeeps
  UpdatesKept
  BitwiseExact
  AcknowledgedKept
PROPERTIES
  ImplementsPromises
  DrainsEnd
CHECK_DEADLOCK FALSE
