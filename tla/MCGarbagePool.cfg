SPECIFICATION Spec
CONSTANTS
  Size <- SmallSizes
  Byte <- TwoBytes
  TableLen = 4
  BufLen = 28
INVARIANT BlocksIntact
INVARIANT PointersFound
CHECK_DEADLOCK FALSE
