SPECIFICATION FairSpec
CONSTANTS
  N = 5
  HSM_MAX_NEST_DEPTH = 5
INVARIANTS
  Nested
  Settled
  ReachesGoal
  CommonStatesKept
  PathFits
PROPERTIES
  HandlingEnds
