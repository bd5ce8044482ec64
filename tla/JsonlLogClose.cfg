SPECIFICATION Spec
CONSTANTS
  MaxEvents = 4
  MaxFaults = 2
  MaxCloseFaults = 1
  MaxCrashes = 2
INVARIANTS
  CursorAgrees
CHECK_DEADLOCK FALSE
