CONSTANTS
  a = a
  b = b
  tick = tick
  sync = sync
  leave = leave
  late = late
  Tracks = {a, b}
  Tickers = {tick}
  Syncs = {}
  Leavers = {leave, late}
  Bus = Bus
  None = None
  Stub = Stub
  Stubs = 2
  MaxXcvrs = 5
  MayClose = FALSE
  Settings <- FaultyOrTicking
SPECIFICATION Spec
SYMMETRY Symmetry
INVARIANTS
  OneObserverPerEntry
  TransceiverOwnedOnce
  TransceiversAreReused
PROPERTIES
  PublishedKeepsSender
CHECK_DEADLOCK FALSE
