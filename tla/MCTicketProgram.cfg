CONSTANTS
    Tickets <- MCTickets
    Programs <- AllPrograms
    MaxAttempts = 2
    Threshold = 3
    MaxTokens = 2
    Refills = {0, 1, 3}
SPECIFICATION Spec
INVARIANTS
    TypeOK
    Accounting
    DownAfterThreshold
PROPERTIES
    SignalIsHeard
CHECK_DEADLOCK FALSE
