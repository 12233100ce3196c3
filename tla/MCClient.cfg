CONSTANTS
  u = u
  v = v
  Users = {u, v}
  MaxSignIns = 3
  MaxStreams = 4
SPECIFICATION Spec
SYMMETRY Symmetry
INVARIANTS
  MutedMeansSilent
  WorkerIsShown
CHECK_DEADLOCK FALSE
