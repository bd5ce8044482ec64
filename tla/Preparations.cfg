SPECIFICATION LiveSpec
CONSTANTS
  Id = {a, b}
  Preparer = {p1, p2}
  Borrower = {b1}
  Writer = {w1}
  Damaged = {a}
  Capacity = 1
  MaxForeign = 1
  NoId = none
INVARIANTS
  ReservedIsCurrent
  LeasesAreCounted
PROPERTIES
  LeaseKeepsEntry
  PreparationsSettle
CHECK_DEADLOCK FALSE
