CONSTANTS
  Nothing = Nothing
  m1 = m1
  m2 = m2
  NoState <- Nothing
  Markers <- MCMarkers
  MaxReleaseId = 4
  FactoryId = 1
  TrialMs = 2
  ReadFaults = TRUE
SPECIFICATION FairSpec
INVARIANTS
  TypeOK
  AppliedIntact
  RetainedIntact
  OnlyProvenSelected
  UnprovenOnRecord
PROPERTIES
  NoSecondTrial
  ImplementsTrialLifecycle
  PendingResolves
