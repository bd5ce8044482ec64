SPECIFICATION Spec
CONSTANTS
  SeedTurns = 1
  MaxSeeded = 0
  MaxMessages = 3
  MaxCancels = 1
  MaxFaults = 1
  MaxMaintenance = 0
  MaxSteps = 2
INVARIANTS
  EveryMessageHasOneFate
  OwnTurn
  InOrder
CHECK_DEADLOCK FALSE
