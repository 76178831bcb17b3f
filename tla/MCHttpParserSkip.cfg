SPECIFICATION Spec
CONSTANTS
  Inputs <- Announced
  HTTP_MAX_HEADER_SIZE = 160
  ULLONG_MAX = 60
  None = None
  Junk <- JunkFields
  UINT16_MAX = 12
INVARIANT NoBodyAfterOne
CHECK_DEADLOCK FALSE
