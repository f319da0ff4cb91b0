SPECIFICATION Spec
CONSTANTS
    Clients = {"c1"}
    Asks <- MCAsks
    Routes <- ManyRoutes
    AlwaysHot = {"usdc"}
    MaxCount = 2
    AccountsAsked = {9, 14}
    MaxAccountsPerTx = 64
    MaxTxSize = 1000
    RetryStep = 5
    RetryFloor = 10
    Tables <- ManyTables
    Contents <- ManyContents
    KeySize = 32
    IndexSize = 1
    TableSize = 34
    HashTTL = 1
    AltTTL = 2
    Latency = 0
    None = None
    MaxTime = 0
INVARIANT
    TablesReplaceTwo
CHECK_DEADLOCK FALSE
