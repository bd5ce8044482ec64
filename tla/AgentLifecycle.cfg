SPECIFICATION LiveSpec
CONSTANTS
  Life = {l1, l2}
  Id = {s1}
  Owner = {plugin}
  Loop = loop
  None = none
INVARIANTS
  PairedAnnouncements
  NothingOutlives
PROPERTIES
  LifecyclesSettle
CHECK_DEADLOCK FALSE
