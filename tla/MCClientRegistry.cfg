SPECIFICATION Spec
CONSTANTS
  Null = 0
  Socket <- ThreeSockets
  SERV_SOCK = 4
INVARIANT ClientsAreOpen
INVARIANT SelectSeesAll
INVARIANT EachHadItsTurn
INVARIANT ClosedOnce
