SPECIFICATION CacheSpec
CONSTANTS
  Users = {alice}
  Ids = {s1}
  Texts = {t1, t2}
  None = None
  Procs = {p1, p2}
  MaxFaults = 0
  TTL = 0
  MaxLag = 1
  ListKeys <- MCListKeys
SYMMETRY Symmetry
INVARIANTS
  ZeroTtlReadsStore
