CONSTANTS
    Tickets <- MCTickets
    Programs <- OnlyV20
    MaxAttempts = 2
    Threshold = 3
    MaxTokens = 2
    Refills = {0, 1, 3}
SPECIFICATION Spec
INVARIANT AllDataPersisted
CHECK_DEADLOCK FALSE
