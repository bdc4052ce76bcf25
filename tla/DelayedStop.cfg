SPECIFICATION FairSpec
CONSTANTS
  Delays = {1}
  IdRange = 2
  MaxEvents = 1
  MaxTime = 1
PROPERTY
  StopReturns
CHECK_DEADLOCK FALSE
