SPECIFICATION Spec
CONSTANTS
  Kits <- ZoomKits
INVARIANT
  ListedAccepted
CHECK_DEADLOCK FALSE
