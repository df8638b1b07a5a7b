SPECIFICATION FairHistorySpec
CONSTANTS
  Users = {alice}
  Ids = {s1}
  Texts = {t1}
  None = None
  Procs = {p1, p2}
  MaxFaults = 1
  TTL = 1
  MaxLag = 1
  ListKeys <- MCListKeys
INVARIANTS
  ShownRecently
PROPERTIES
  EventuallyFresh
