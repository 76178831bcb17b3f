SPECIFICATION FairSpec
CONSTANTS
  Inputs <- All
  HTTP_MAX_HEADER_SIZE = 160
  ULLONG_MAX = 60
  None = None
  Junk <- JunkFields
  UINT16_MAX = 12
INVARIANT Delivered
INVARIANT ParsedToTheEnd
INVARIANT AssertionsHold
INVARIANT HeaderSizeBounded
INVARIANT CallbackOrder
INVARIANT UrlTakenApart
PROPERTY ExecuteReturns
CHECK_DEADLOCK FALSE
