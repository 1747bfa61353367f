CONSTANTS
  base = base
  c1 = c1
  c2 = c2
  Changes <- MCChanges
  Baseline = base
  Capacity = 3
  TrialMs = 3
  Margin = 1
  ReadFaults = TRUE
  NoChange = NoChange
  NoState = NoState
SPECIFICATION FairSpec
INVARIANTS
  TypeOK
  PayloadsIntact
  PublishesAsApplied
  IdleSettled
PROPERTIES
  PromotionProven
  FenceResolves
  NoSecondTrial
