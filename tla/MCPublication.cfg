CONSTANTS
  Period = 24
  SampleInterval = 1
  PublicationInterval = 2
  Heartbeat = 3
  InitialDelay = 1
  MaxDelay = 2
  Cooldown = 2
  MaxHint = 3
  Timeout = 1
  MaxSuspension = 2
  MaxOutage = 4
  Patience = 6
  None = None
SPECIFICATION Spec
INVARIANTS
  RecoversInTime
  StateIsTold
PROPERTIES
  RequestsWait
