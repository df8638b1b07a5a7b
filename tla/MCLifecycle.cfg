SPECIFICATION FairSpec
CONSTANTS
  Replicas <- MCReplicas
  Operators <- MCOperators
  Latest <- MCLatest
  Newest = 2
  Handlers = {h1}
  MaxBoots = 2
  MaxFaults = 3
  None = None
INVARIANTS
  LifecycleTypeOK
  CleanMeansComplete
  DirtyLacksOne
  WholeSchemaServed
  OpenWhileBusy
  SweepsOpenPool
PROPERTIES
  StopsWhenTold
  StartEnds
CHECK_DEADLOCK FALSE
