SPECIFICATION Spec
CONSTANTS
  SeedTurns = 1
  MaxSeeded = 0
  MaxMessages = 2
  MaxCancels = 1
  MaxFaults = 0
  MaxMaintenance = 0
  MaxSteps = 2
PROPERTIES
  DisposalNeverLatches
CHECK_DEADLOCK FALSE
