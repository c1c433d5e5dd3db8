CONSTANTS
    Programs <- AllPrograms
    Clients = {c1, c2, c3}
    Requests <- AskedFor
    Seeded = 2
    MaxRows = 1
    None = None
SPECIFICATION Spec
INVARIANTS
    TotalsNumberCreates
    ShownIsAccountedFor
PROPERTIES
    EveryClientAnswered
CHECK_DEADLOCK FALSE
