CONSTANTS
  p = p
  q = q
  page = page
  Peers = {p, q}
  Listeners = {page}
  NoOne = NoOne
  MaxEvents <- Events
  MaxFaults = 1
  MaxLeaves = 1
SPECIFICATION FairSpec
INVARIANTS
  GatePairs
PROPERTIES
  UpdateReturns
  PageHears
  PeerLeavesForGood
CHECK_DEADLOCK FALSE
