SPECIFICATION Spec
CONSTANTS
  Socket <- OneSocket
  SERV_SOCK = 3
  None = None
  Backlog = 1
  SndBuf = 1
  MaxResponse = 1
  MaxConn = 1
  MaxChunk = 1
INVARIANT RecvAssertion
CHECK_DEADLOCK FALSE
