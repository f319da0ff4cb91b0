SPECIFICATION Spec
CONSTANTS
    TICK_LIMIT = 32  TICK_SEARCH_RANGE = 4  MAX_TICK = 40
    TICK_CROSSES_PER_IX = 3  TICKS_BACK_COUNT = 1  MAX_VIRTUAL_CROSS = 2
    ByteBits = 2  PerTick = 2
    FeeNum = 1  FeeDen = 10
    Positions <- MCPositions
    Prices <- MCPrices
    Amounts = {1, 7, 40, 400}
    NoTick = NoTick
    Kinds = {"amm", "cp"}
    SwapFeeNum = 1  SwapFeeDen = 8  OwnersPart = 4
    StartVaults = {0, 1, 6, 40}
    TradeAmounts = {0, 1, 3, 9}
    MaxTrades = 2  MaxOwed = 1
    TICK_ARRAY_SIZE = 3
    MIN_TICK_INDEX <- MCMinTick
    MAX_TICK_INDEX = 16
    TICK_ARRAY_SCAN_RANGE = 7
    Spacings = {1, 2}
    StartTicks <- MCTicks
    NoArray = NoArray
    MaxCreated = 4
    LiquidEdges = {"e1", "e2"}
    Reserves <- MCReserves
    FirstAmounts = {0, 1, 5}
    MaxQuotable = 200  MaxIterations = 6  AmountMax = 255
    NoLiquidity = NoLiquidity
    MaxRefreshes = 3
    \* For Invariant: Dexes = {"invariant"} and OnChain <- InvariantPair.
    Dexes = {"infinity"}
    OnChain <- StakingTokens
    MaxAccountWrites = 2
INVARIANT EdgesFollowTheirAccounts
CHECK_DEADLOCK FALSE
