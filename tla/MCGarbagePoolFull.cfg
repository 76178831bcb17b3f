SPECIFICATION FullSpec
CONSTANTS
  Size <- SmallSizes
  Byte <- OneByte
  TableLen = 3
  BufLen = 34
INVARIANT FreeAssertion
CHECK_DEADLOCK FALSE
