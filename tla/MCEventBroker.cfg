SPECIFICATION Spec
CONSTANTS
  t1 = t1
  t2 = t2
  a = a
  b = b
  h1 = h1
  h2 = h2
  NoThread = NoThread
  Threads <- MCThreads
  Topics <- MCTopics
  Handlers <- MCHandlers
  MaxPosts = 3
  MaxSubscriptions = 3
SYMMETRY MCSymmetry
INVARIANTS
  NoDeadCall
  SameOrder
PROPERTIES
  ExactFanOut
CHECK_DEADLOCK FALSE
