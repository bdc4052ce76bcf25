SPECIFICATION Spec
CONSTANTS
  a = a
  b = b
  NoElem = NoElem
  RangeError = RangeError
  Elem <- MCElem
  Index <- MCIndex
  Size = 3
  UIntRange = 16
INVARIANTS
  RingInv
PROPERTIES
  ImplementsFifo
CHECK_DEADLOCK FALSE
