CONSTANTS
    Mints = {a, b, c, d}
    Usdc = usdc
    FillKnows = {a, b, c}
    BirdKnows = {c, d}
    SingleMode = FALSE
    SourceChunk = 2
    CompositeChunk = 5
    FeedCapacity = 2
    MaxRetry = 1
    MaxFailures = 2
    Dexs = {d1}
    Clients = {"c1"}
    Asks <- MCAsks
    Routes <- ManyRoutes
    AlwaysHot = {"usdc"}
    MaxCount = 2
    AccountsAsked = {9, 14}
    MaxAccountsPerTx = 64
    MaxTxSize = 1000
    RetryStep = 5
    RetryFloor = 10
    Tables <- ManyTables
    Contents <- ManyContents
    KeySize = 32
    IndexSize = 1
    TableSize = 34
    HashTTL = 1
    AltTTL = 2
    Latency = 0
    None = None
    MaxTime = 0
SPECIFICATION ServicesSpec
INVARIANT TablesPay
PROPERTY PricesReachTheCache
PROPERTY RunEndsWithItsJobs
CHECK_DEADLOCK FALSE
