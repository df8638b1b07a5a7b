SPECIFICATION Spec
CONSTANTS
  Addrs = {a1, a2}
  Procs = {p1, p2}
  Buckets = {b1, b2, b3}
  Burst = 3
  Rate = 1
  Idle = 4
  Period = 2
  MaxDelay = 2
  MaxWindow = 4
  None = None
SYMMETRY Symmetry
INVARIANTS
  LimiterTypeOK
  FairShare
  EntriesExpire
PROPERTIES
  HonoursBuckets
