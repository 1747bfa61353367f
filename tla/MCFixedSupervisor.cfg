CONSTANTS
  t1 = t1
  t2 = t2
  o1 = o1
  o2 = o2
  Threads <- MCThreads
  Owners <- MCOwners
  Nobody = Nobody
SPECIFICATION FairSpec
INVARIANTS
  TypeOK
  OneLaunch
  NeverBothUnfinished
  LaunchedOnSettledConfig
PROPERTIES
  OperationsEnd
