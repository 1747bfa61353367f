CONSTANTS
  v1 = v1
  v2 = v2
  None = None
  Values <- MCValues
  NoValue <- None
  MaxSeq = 5
  ExhaustionInvalidates = TRUE
SPECIFICATION Spec
PROPERTIES
  NeverLosesLastRecord
  ImplementsRegister
CHECK_DEADLOCK TRUE
