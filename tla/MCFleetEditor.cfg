CONSTANTS
  d1 = d1
  d2 = d2
  Devices <- MCDevices
  MaxChanges = 2
  None = None
SPECIFICATION FairSpec
INVARIANTS
  PendingTruthful
PROPERTIES
  NoLostUpdate
  NoBlindRetry
  SubmissionSettles
