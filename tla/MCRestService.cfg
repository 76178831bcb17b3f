SPECIFICATION FairServiceSpec
CONSTANTS
  Stream <- ServiceStreams
  Methods <- MCMethods
  Versions <- MCVersions
  NumberOf <- MCNumberOf
  MethodOf <- MCMethodOf
  UrlChars <- MCUrlChars
  Resources <- MCResources
  Unpublished <- UnpublishedStreams
  ParamNames <- MCParamNames
  MaxCalls <- MCMaxCalls
  HeaderNames = {"h"}
  ExitWords = {"a|b", "|"}
  IntMax = 7
  None = None
INVARIANT ChunkIndependence
INVARIANT RequestExact
INVARIANT QueryParamsExact
INVARIANT RoutedExact
INVARIANT AbortsExact
INVARIANT ContentLengthHonest
PROPERTY ReturnsUnlessStarved
PROPERTY AnsweredOrDown
CHECK_DEADLOCK FALSE
