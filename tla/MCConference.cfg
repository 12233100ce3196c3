CONSTANTS
  r1 = r1
  r2 = r2
  Rooms = {r1, r2}
  Home = Home
  MaxJoins = 4
  MaxMounts = 2
  PromptRender = TRUE
SPECIFICATION Spec
SYMMETRY Symmetry
INVARIANTS
  NoOrphan
  StreamsAreCurrent
  MediaBeforeOffer
CHECK_DEADLOCK FALSE
