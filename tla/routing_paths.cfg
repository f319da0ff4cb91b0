SPECIFICATION Spec
CONSTANTS
    ab = ab  bc = bc  ac = ac  r1 = r1  r2 = r2  None = None
    Requests = {r1, r2}  Warmer = "warmer"
    Mints = {1, 2, 3}
    Edges = {ab, bc}
    InputMint <- MCInputMint
    OutputMint <- MCOutputMint
    AccountsNeeded <- MCAccountsNeeded
    SupportsExactOut = {}
    Asked <- AskedIn
    Warmed = {}
    MaxPathLength = 2  OverquotePct = 20  RefreshAge = 1
    MaxAge = 1  ExpireInterval = 1  Exact = 16
    MaxTime = 0  MaxFlips = 1  MaxRounds = 0
SYMMETRY Threads
INVARIANT RouteConnectsMints
INVARIANT CachedPathsConnectPair
INVARIANT RouteFitsAccountBucket
