SPECIFICATION LiveSpec
CONSTANTS
  MaxEvents = 4
  MaxFaults = 2
  MaxCloseFaults = 0
  MaxCrashes = 2
INVARIANTS
  AcknowledgedSurvives
  CursorAgrees
  HistoryIsNested
PROPERTIES
  RecoveryConverges
CHECK_DEADLOCK FALSE
