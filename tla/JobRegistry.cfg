SPECIFICATION LiveSpec
CONSTANTS
  Job = {j1, j2}
  Owner = {agent}
  Nobody = nobody
  Wait = {w1, w2}
  Limit = 1
INVARIANTS
  ToldExactlyOnce
  NothingOutlives
  LimitHolds
PROPERTIES
  TeardownEnds
CHECK_DEADLOCK FALSE
