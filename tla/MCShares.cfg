SPECIFICATION Spec
CONSTANTS
  Tokens = {t1, t2}
  Procs = {p1, p2}
  Life = 3
  TTL = 2
  MaxLag = 1
  MaxTime = 7
  MaxFaults = 1
  None = None
SYMMETRY Symmetry
INVARIANTS
  SharesTypeOK
  CopiesExpire
PROPERTIES
  FoundUntilExpiry
  ServedInTime
