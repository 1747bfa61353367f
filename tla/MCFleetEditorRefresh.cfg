CONSTANTS
  d1 = d1
  d2 = d2
  Devices <- MCDevices
  MaxChanges = 1
  None = None
SPECIFICATION FairSpec
PROPERTIES
  RefreshComesBack
