CONSTANTS
  a = a
  b = b
  tick = tick
  sync = sync
  leave = leave
  late = late
  Tracks = {a}
  Tickers = {}
  Syncs = {sync}
  Leavers = {leave}
  Bus = Bus
  None = None
  Stub = Stub
  Stubs = 2
  MaxXcvrs = 4
  MayClose = TRUE
  Settings <- Calm
SPECIFICATION FairSpec
PROPERTIES
  AttachReturns
  LiveTrackIsAttached
  DeadTrackIsDropped
CHECK_DEADLOCK FALSE
