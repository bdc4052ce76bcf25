SPECIFICATION FairSystemSpec
CONSTANTS
  MaxEvents = 4
  Capacity = 2
INVARIANTS
  SystemTypeOK
  CausalOrder
  ActsOnLog
  PillIsLast
  QuietWhenStopped
PROPERTIES
  StopReturns
  EventsTaken
  ImplementsHandler
CHECK_DEADLOCK FALSE
