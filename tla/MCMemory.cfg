SPECIFICATION Spec
CONSTANTS
  Users = {alice, bob}
  Ids = {s1, s2}
  Texts = {t1}
  None = None
  Procs = {p1, p2, p3}
  ListKeys <- MCListKeys
  MaxInt = 15
  DefaultLimit = 1
  MaxLimit = 4
  Written <- MCWritten
SYMMETRY Symmetry
INVARIANTS
  MemoryTypeOK
  WritesAlone
  NobodyStuck
  PagesExact
PROPERTIES
  HonoursContract
