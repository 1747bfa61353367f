CONSTANTS
  Period = 8
  SampleInterval = 1
  PublicationInterval = 1
  Heartbeat = 1
  InitialDelay = 1
  MaxDelay = 1
  Cooldown = 1
  MaxHint = 1
  Timeout = 0
  MaxSuspension = 0
  MaxOutage = 8
  Patience = 0
  None = None
SPECIFICATION FairSpec
PROPERTIES
  PublishesAgain
