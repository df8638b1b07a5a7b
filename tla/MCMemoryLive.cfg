SPECIFICATION FairSpec
CONSTANTS
  Users = {alice}
  Ids = {s1}
  Texts = {t1}
  None = None
  Procs = {p1, p2, p3}
  ListKeys <- MCListKeys
  MaxInt = 15
  DefaultLimit = 1
  MaxLimit = 4
  Written <- MCWritten
PROPERTIES
  EveryCallReturns
