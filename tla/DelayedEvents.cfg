SPECIFICATION FairSpec
CONSTANTS
  Delays = {0, 2}
  IdRange = 2
  MaxEvents = 3
  MaxTime = 3
INVARIANTS
  InDeadlineOrder
  NotEarly
  Accounted
  OnTime
PROPERTIES
  EventLeaves
CHECK_DEADLOCK FALSE
