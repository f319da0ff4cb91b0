SPECIFICATION LiveSpec
CONSTANTS
    p1 = p1  p2 = p2  ab = ab  ba = ba  A = A  B = B  prog = prog  None = None
    NWarm = 1
    Pubkeys = {p1, p2}
    Mints = {A, B}
    Programs = {prog}
    Edges = {ab, ba}
    EdgesPerPk <- SingleListing
    InputMint <- MintAB
    OutputMint <- MintBA
    Desc <- DescEdge
    Owner <- OwnerAll
    Decimals = {A}
    ForeignMints = {A}
    FeedPrices <- OkA
    Subscription <- ByAll
    ChannelCap = 1
    CooldownMultihop = 1  CooldownSinglehop = 4  CooldownRouting = 2
    MaxLag = 1  MaxLagDuration = 1  InitTimeout = 1
    TxAccounts <- NoTx
    MaxWrites = 2  MaxPrices = 1  MaxTime = 2  MaxSlot = 1  MaxCooldowns = 0
PROPERTY EventuallyReported
PROPERTY DirtyIsRefreshed
INVARIANT RoutedEdgeTracksChain
