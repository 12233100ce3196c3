CONSTANTS
  a = a
  b = b
  tick = tick
  sync = sync
  leave = leave
  late = late
  Tracks = {a, b}
  Tickers = {}
  Syncs = {}
  Leavers = {leave}
  Bus = Bus
  None = None
  Stub = Stub
  Stubs = 2
  MaxXcvrs = 5
  MayClose = FALSE
  Settings <- Calm
SPECIFICATION Spec
INVARIANTS
  NeverMustBeHere
CHECK_DEADLOCK FALSE
