SPECIFICATION Spec
CONSTANTS
  SeedTurns = 1
  MaxSeeded = 0
  MaxMessages = 2
  MaxCancels = 0
  MaxFaults = 0
  MaxMaintenance = 0
  MaxSteps = 2
INVARIANTS
  LiveDriverClaimsWakes
CHECK_DEADLOCK FALSE
