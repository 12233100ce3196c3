CONSTANTS
  d1 = d1
  Dispatchers = {d1}
  ReadLoop = ReadLoop
  Retry = Retry
  NoOne = NoOne
  MaxAttempts = 1
  MaxCalls = 2
  MaxFaults = 1
SPECIFICATION Spec
INVARIANTS
  TypeOK
  OfferCarriesOwnHash
  NegotiatedNotOlder
  ClosedOfferIsUnlocked

PROPERTIES
  CommittedWasAnswered
  LogSpec

CHECK_DEADLOCK FALSE
