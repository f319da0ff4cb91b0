SPECIFICATION LiveSpec
CONSTANTS
    ab = ab  bc = bc  ac = ac  r1 = r1  r2 = r2  None = None
    Requests = {r1}  Warmer = "warmer"
    Mints = {1, 2}
    Edges = {ab}
    InputMint <- MCInputMint
    OutputMint <- MCOutputMint
    AccountsNeeded <- MCAccountsNeeded
    SupportsExactOut = {}
    Asked <- AskedLive
    Warmed <- WarmedOne
    MaxPathLength = 2  OverquotePct = 20  RefreshAge = 0
    MaxAge = 1  ExpireInterval = 1  Exact = 16
    MaxTime = 1  MaxFlips = 1  MaxRounds = 1
INVARIANT TypeOK
INVARIANT RefusedAfterFullSearch
PROPERTY EveryRequestAnswered
