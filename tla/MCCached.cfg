SPECIFICATION CacheSpec
CONSTANTS
  Users = {alice}
  Ids = {s1}
  Texts = {t1, t2}
  None = None
  Procs = {p1, p2}
  MaxFaults = 1
  TTL = 2
  MaxLag = 1
  ListKeys <- MCListKeys
SYMMETRY Symmetry
INVARIANTS
  CacheTypeOK
  BoundedStaleness
  StalenessInv
  InvalidationCovers
