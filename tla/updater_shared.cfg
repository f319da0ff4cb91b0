SPECIFICATION Spec
CONSTANTS
    p1 = p1  p2 = p2  ab = ab  ba = ba  A = A  B = B  prog = prog  None = None
    NWarm = 1
    Pubkeys = {p1, p2}
    Mints = {A, B}
    Programs = {prog}
    Edges = {ab}
    EdgesPerPk <- SharedListing
    InputMint <- OneMintIn
    OutputMint <- OneMintOut
    Desc <- DescOne
    Owner <- OwnerAll
    Decimals = {A}
    ForeignMints = {A}
    FeedPrices <- OkA
    Subscription <- ByAccounts
    ChannelCap = 2
    CooldownMultihop = 1  CooldownSinglehop = 4  CooldownRouting = 2
    MaxLag = 1  MaxLagDuration = 1  InitTimeout = 1
    TxAccounts <- NoTx
    MaxWrites = 2  MaxPrices = 1  MaxTime = 0  MaxSlot = 2  MaxCooldowns = 0
SYMMETRY SwapAccounts
INVARIANT TypeOK
INVARIANT LatestInstanceTracksChain
PROPERTY SlotProgress
