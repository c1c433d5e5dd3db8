SPECIFICATION Spec
CONSTANTS
  c1 = c1
  c2 = c2
  Callers <- TwoCallers
  BaseCores = 2
  MaxCores = 3
  LoadNum = 1
  LoadDen = 3
  NoTicket = NoTicket
INVARIANTS
  TypeOK
  FrameAlive
PROPERTIES
  EveryTicketAnswered
CHECK_DEADLOCK FALSE
