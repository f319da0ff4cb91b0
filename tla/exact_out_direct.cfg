SPECIFICATION Spec
CONSTANTS
    ab = ab  bc = bc  ac = ac  r1 = r1  r2 = r2  None = None
    Requests = {r1}  Warmer = "warmer"
    Mints = {1, 2, 3}
    Edges = {ac}
    InputMint <- MCInputMint
    OutputMint <- MCOutputMint
    AccountsNeeded <- MCAccountsNeeded
    SupportsExactOut = {ac}
    Asked <- AskedBack
    Warmed = {}
    MaxPathLength = 2  OverquotePct = 20  RefreshAge = 1
    MaxAge = 1  ExpireInterval = 1  Exact = 16
    MaxTime = 0  MaxFlips = 0  MaxRounds = 0
INVARIANT RouteConnectsMints
