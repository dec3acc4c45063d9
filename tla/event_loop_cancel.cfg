SPECIFICATION Spec
CONSTANTS
  MaxTimers = 2
  MaxMicrotasks = 1
  MaxNow = 2
  TimeoutDelays <- MCTimeoutDelays
  IntervalDelays <- MCIntervalDelays
PROPERTIES
  ClearCancels
