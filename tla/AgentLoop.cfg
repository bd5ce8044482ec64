SPECIFICATION LiveSpec
CONSTANTS
  SeedTurns = 1
  MaxSeeded = 1
  MaxMessages = 2
  MaxCancels = 2
  MaxFaults = 1
  MaxMaintenance = 1
  MaxSteps = 2
INVARIANTS
  LatchAwaitsConvergence
  StickyCeiling
  DisposedIsQuiescent
PROPERTIES
  ImplementsSessionTrace
  AbortSpendsNothing
  LatchedWakeRuns
  DisposalCompletes
CHECK_DEADLOCK FALSE
