CONSTANTS
  Limit = 2
  Snoozes = {1}
  Readings <- MCAllReadings
  Hysteresis = TRUE
  NoRow = NoRow
SPECIFICATION FairSpec
PROPERTIES
  OnlyOkLiftsSilence
  AlarmsAgain
  AlarmClears
  SuppressionLifts
