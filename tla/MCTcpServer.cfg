SPECIFICATION FairSpec
CONSTANTS
  Socket <- TwoSockets
  SERV_SOCK = 3
  None = None
  Backlog = 2
  SndBuf = 1
  MaxResponse = 2
  MaxConn = 3
  MaxChunk = 1
INVARIANT RegistriesAgree
INVARIANT WritersRegistered
INVARIANT ScanOrder
INVARIANT ResponseIntegrity
PROPERTY AbandonedForever
PROPERTY ImplementsContract
PROPERTY AnsweredEventually
CHECK_DEADLOCK FALSE
