SPECIFICATION Spec
CONSTANTS
    p1 = p1  p2 = p2  ab = ab  ba = ba  A = A  B = B  prog = prog  None = None
    NWarm = 2
    Pubkeys = {p1}
    Mints = {A, B}
    Programs = {prog}
    Edges = {ab}
    EdgesPerPk <- PoolListing
    InputMint <- OneMintIn
    OutputMint <- OneMintOut
    Desc <- DescOne
    Owner <- OwnerAll
    Decimals = {A}
    ForeignMints = {A}
    FeedPrices <- AnyPrice
    Subscription <- ByProgram
    ChannelCap = 1
    CooldownMultihop = 1  CooldownSinglehop = 4  CooldownRouting = 2
    MaxLag = 1  MaxLagDuration = 1  InitTimeout = 1
    TxAccounts <- PoolTx
    MaxWrites = 1  MaxPrices = 2  MaxTime = 2  MaxSlot = 1  MaxCooldowns = 2
INVARIANT ValidEdgeHasEveryPrice
PROPERTY CooldownNeverCutShort
