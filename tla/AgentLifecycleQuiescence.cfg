SPECIFICATION Spec
CONSTANTS
  Life = {l1, l2}
  Id = {s1}
  Owner = {plugin}
  Loop = loop
  None = none
INVARIANTS
  DisposedAfterQuiescence
CHECK_DEADLOCK FALSE
