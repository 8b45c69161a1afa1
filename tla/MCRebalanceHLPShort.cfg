SPECIFICATION RebalanceSpec
CONSTANTS
    a1 = a1  k = k  usd = usd  eth = eth  gm = gm  k1 = k1  k2 = k2
    Accounts = {a1, k}
    Tokens = {usd, eth, gm}
    HlpTokens <- PoolTokens
    Unit = 1
    DevNum = 0  DevDen = 1
    Traders = {a1}
    Keeper = k
    Supply <- TwoEth
    Amounts = {1}
    PriceMaps = {}
    Pnls = {}  Fundings = {}  Borrowings = {}  Tradings = {}
    LiquidationFee = 0
    ExecutionFee = 0
    BufferLiquidity = 0
    MaxDebt = 0
    LongToken = eth  ShortToken = usd  Market = gm
    Keys = {k1, k2}
    LongAmounts = {0, 1}
    ShortAmounts = {0, 1}
    GmAmounts = {1}
SYMMETRY KeySymmetry
CHECK_DEADLOCK FALSE
INVARIANT CancellationReturns
