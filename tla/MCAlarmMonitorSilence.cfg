CONSTANTS
  Limit = 2
  Snoozes = {1}
  Readings <- MCTwoReadings
  Hysteresis = FALSE
  NoRow = NoRow
SPECIFICATION Spec
PROPERTIES
  OkLiftsSilence
