SPECIFICATION Spec
CONSTANTS
  c1 = c1
  c2 = c2
  c3 = c3
  Clients <- MCClients
  Fds = {1, 2}
  NumWorkers = 2
  MaxSegments = 2
  Patient = FALSE
  Limited = FALSE
  NoClient = NoClient
  NoFd = NoFd
INVARIANTS
  NeverHandlesAnother
CHECK_DEADLOCK FALSE
