CONSTANTS
  d1 = d1
  Dispatchers = {d1}
  ReadLoop = ReadLoop
  Retry = Retry
  NoOne = NoOne
  MaxAttempts = 1
  MaxCalls = 1
  MaxFaults = 0
SPECIFICATION Spec
INVARIANTS
  NoPanic
CHECK_DEADLOCK FALSE
