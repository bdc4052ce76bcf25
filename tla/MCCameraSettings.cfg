SPECIFICATION Spec
CONSTANTS
  Kits <- MCKits
INVARIANTS
  Restored
  StatusTrue
  ListedAccepted
PROPERTIES
  NearestFound
CHECK_DEADLOCK FALSE
