SPECIFICATION FairSpec
CONSTANTS
    u1 = u1  u2 = u2  weth = weth  usd = usd  hlp = hlp
    Accounts = {u1}
    Tokens = {weth, usd, hlp}
    Weth = weth  Hlp = hlp
    LiquidityTokens = {weth, usd}
    Amounts = {1}
    Fees = {1}
    MaxExecutionChunk = 2
    MaxOrders = 4
CHECK_DEADLOCK FALSE
INVARIANTS TypeOK NothingSkipped
PROPERTIES ImplementsEscrow EventuallySettled
