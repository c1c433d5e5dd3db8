CONSTANTS
    None = None
    Nobody = Nobody
    Elsewhere = Elsewhere
    p1 = p1
    p2 = p2
    f1 = f1
    f2 = f2
    b1 = b1
    b2 = b2
    Watched = {"hr", "sales"}
    failure_threshold = 2
    MaxFailures = 4
    MAX_SUPPLY = 10
    Word = 4096
    MaxWallets = 2
    MaxBlocks = 3
    MaxCirculating = 25
    Amounts = {0, 6, 10, 49}
    Programs <- MCPrograms
    Tickets <- MCTickets
    MaxTokens = 2
    Refills = {0, 1, 3}
    Peers <- MCPeers
    Fds <- MCFds
    MaxEvents = 3
    Agents <- MCAgents
    Seeds <- MCSeeds
    LIMIT = 3
    Minute = 1
    DemoSeconds = 1
    Browsers <- MCBrowsers
    Keys <- MCKeys
    Users = {"admin"}
    TTL = 2
    StoreSeconds = 2
    Values = {"9999"}
    MaxPeers = 3
    Quiet = 2
    MeshSeconds = 5
SPECIFICATION Spec
INVARIANTS
    TypeOK
    BooksAgree
    NothingIsPaid
    BreakerNeverTrips
    TripsAtThreshold
    SupplyAccountedFor
    FramesGoHome
    NoUpdateMissed
    AgentsBeforeTickets
    
    MarkedIsWhole
    OneLiveSession
    FadesForGood
CHECK_DEADLOCK FALSE
