SPECIFICATION MCSpec
CONSTANTS
    SOL = "sol"
    MaxBps = 10000
    Mints <- MCMints
    Requests <- MCRequests
    Ledgers <- MCLedgers
    Versions = {"v2", "v3"}
    LotSize = 2
    MaxOut = 3
    Referrers = {"r1", "r2"}
    ChargeVersions = {"v1", "v2"}
    TokenPrograms = {"spl_token", "spl_token_2022"}
    Percents = {0, 33, 80, 100, 255}
    MaxFee = 3
    UserFunds = 4
    MaxIxs = 5
INVARIANTS
    SwapHonoursLimits
    EventMatchesLedger
    NothingLeftWrapped
    BuiltSwapIsWellFormed
    FeesReachTheirOwners
CHECK_DEADLOCK FALSE
