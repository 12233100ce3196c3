CONSTANTS
  d1 = d1
  Dispatchers = {d1}
  ReadLoop = ReadLoop
  Retry = Retry
  NoOne = NoOne
  MaxAttempts = 1
  MaxCalls = 1
  MaxFaults = 1
SPECIFICATION FairSpec
PROPERTIES
  DispatchReturns
  OfferIsRenewed
CHECK_DEADLOCK FALSE
