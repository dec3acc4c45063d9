SPECIFICATION FairSpec
CONSTANTS
  MaxTimers = 3
  MaxMicrotasks = 2
  MaxNow = 2
  TimeoutDelays <- MCTimeoutDelays
  IntervalDelays <- MCIntervalDelays
INVARIANTS
  TypeOK
  MicrotasksInOrder
  MicrotasksFirst
  ClearedNeverFires
  EveryTimerAccountedFor
PROPERTIES
  DueOrder
  QuiescentOnReturn
  ImplementsTimerService
  RunReadyReturns
