SPECIFICATION ObsSpec
CONSTANTS
  Users = {alice, bob}
  Ids = {s1, s2}
  Texts = {t1, t2}
  None = None
  Procs = {p1, p2}
  MaxFaults = 1
  ListKeys <- MCListKeys
SYMMETRY Symmetry
INVARIANTS
  ObsTypeInv
  SnapshotInv
PROPERTIES
  OnlyOwnerWrites
  GoneForGood
  HonoursContract
