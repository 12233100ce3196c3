CONSTANTS
  u = u
  v = v
  r1 = r1
  r2 = r2
  r3 = r3
  Names = {u, v}
  Requests = {r1, r2, r3}
  Nobody = Nobody
  MaxKeys = 4
  MaxFaults = 1
SPECIFICATION Spec
SYMMETRY Symmetry
INVARIANTS
  TypeOK
  TokenIsOwners
  OneSessionPerRefreshKey
  RenewalMakesNoKey
CHECK_DEADLOCK FALSE
