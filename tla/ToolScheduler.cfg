SPECIFICATION LiveSpec
CONSTANTS
  N = 3
  PoolSizes = {1, 2}
  WithContext = {1, 3}
  Concluding = {2}
INVARIANTS
  ModelOrder
  AnsweredOnReturn
  ExclusiveRunsAlone
  PoolIsBounded
  HonestOutcome
  FailureDrains
PROPERTIES
  Terminates
  AbortStopsStarts
  FailureStopsDispatch
CHECK_DEADLOCK FALSE
