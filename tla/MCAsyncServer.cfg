SPECIFICATION Spec
CONSTANTS
  c1 = c1
  c2 = c2
  c3 = c3
  Clients <- MCClients
  Fds = {1, 2}
  NumWorkers = 2
  MaxSegments = 1
  Patient = TRUE
  Limited = TRUE
  NoClient = NoClient
  NoFd = NoFd
INVARIANTS
  TypeOK
  HandlesItsClient
  NoLostEdge
  CounterExact
  AnsweredBeforeClose
PROPERTIES
  EveryRequestServed
CHECK_DEADLOCK FALSE
