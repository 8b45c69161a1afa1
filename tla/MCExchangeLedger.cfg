SPECIFICATION Spec
CONSTANTS
    a1 = a1  k = k  usd = usd  eth = eth
    Accounts = {a1, k}
    Tokens = {usd, eth}
    HlpTokens <- UsdEth
    Unit = 2
    DevNum = 1  DevDen = 2
    Traders = {a1}
    Keeper = k
    Supply <- TwoUsdOneEth
    Amounts = {1}
    PriceMaps <- EthDearer
    Pnls <- GainOrLossOf2
    Fundings <- GainOrLossOf2
    Borrowings = {2}
    Tradings = {0}
    LiquidationFee = 1
    ExecutionFee = 1
    BufferLiquidity = 0
    MaxDebt = 2
CHECK_DEADLOCK FALSE
INVARIANTS TypeOK Backed CopiesAgree PaidWhatIsDue
PROPERTIES Conserved LendsLastRepaidFirst OwesOnlyWhenEmpty
