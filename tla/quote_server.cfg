SPECIFICATION Spec
CONSTANTS
    Clients <- MCClients
    Asks <- MCAsks
    Routes <- MCRoutes
    AlwaysHot = {"usdc"}
    MaxCount = 2
    AccountsAsked = {9, 14}
    MaxAccountsPerTx = 7
    MaxTxSize = 250
    RetryStep = 5
    RetryFloor = 10
    Tables <- MCTables
    Contents <- MCContents
    KeySize = 32
    IndexSize = 1
    TableSize = 34
    HashTTL = 1
    AltTTL = 2
    Latency = 1
    None = None
    MaxTime = 3
INVARIANTS
    AnswersAreRecent
    HotMintsAreLatest
PROPERTY
    EveryRequestIsAnswered
CHECK_DEADLOCK FALSE
