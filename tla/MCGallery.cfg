CONSTANTS
  s1 = s1
  s2 = s2
  Streams = {s1, s2}
  MaxDispatches = 3
  PromptRender = TRUE
  Windows = {500, 760}
  MaxResizes = 1

SPECIFICATION Spec
INVARIANTS
  GridIsBest
PROPERTIES
  ListIsApplied
  PageSettles

CHECK_DEADLOCK FALSE
