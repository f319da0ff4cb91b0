SPECIFICATION Spec
CONSTANTS
    p1 = p1  p2 = p2  ab = ab  ba = ba  A = A  B = B  prog = prog  None = None
    NWarm = 1
    Pubkeys = {p1}
    Mints = {A, B}
    Programs = {prog}
    Edges = {ab}
    EdgesPerPk <- PoolListing
    InputMint <- OneMintIn
    OutputMint <- OneMintOut
    Desc <- DescOne
    Owner <- OwnerAll
    Decimals = {A}
    ForeignMints = {}
    FeedPrices <- OkA
    Subscription <- ByPool
    ChannelCap = 1
    CooldownMultihop = 1  CooldownSinglehop = 4  CooldownRouting = 2
    MaxLag = 1  MaxLagDuration = 1  InitTimeout = 1
    TxAccounts <- NoTx
    MaxWrites = 2  MaxPrices = 0  MaxTime = 2  MaxSlot = 4  MaxCooldowns = 0
INVARIANT PanicMeansSustainedLag
