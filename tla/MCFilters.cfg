CONSTANTS
  s1 = s1
  s2 = s2
  Subs = {s1, s2}
  MaxSwitches = 2
  MaxFaults = 1
SPECIFICATION FairSpec
INVARIANTS
  TypeOK
  CurrentMediaIsSent
  OneRunningSender
PROPERTIES
  FilterReaches
CHECK_DEADLOCK FALSE
