SPECIFICATION LiveSpec
CONSTANTS
  Caller = {c1, c2}
  Retirement = retirement
  SeedEvents = 1
  MaxEvents = 4
  MaxFailures = 2
INVARIANTS
  NeverStranded
  AutomaticPathIsQuiet
  ReleasedIsDurable
PROPERTIES
  EventuallyStored
  FlushSettles
  ImplementsDurableLog
CHECK_DEADLOCK FALSE
