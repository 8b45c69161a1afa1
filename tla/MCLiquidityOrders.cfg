SPECIFICATION Spec
CONSTANTS
    u0 = u0  u1 = u1  x0 = x0  user = user  executor = executor
    weth = weth  usd = usd  hlp = hlp
    Accounts = {u0, u1, x0}
    MainOf <- Mains
    Tokens = {weth, usd, hlp}
    Weth = weth  Hlp = hlp
    LiquidityTokens = {weth, usd}
    Amounts = {1}
    Fees = {1}
    Executors = {executor}
    Served <- AllDesigns
    MaxOrders = 2
    MaxCreated = 3
    MaxBatch = 2
CHECK_DEADLOCK FALSE
INVARIANTS PointersMatch ShortByOverpaid
PROPERTY ImplementsEscrow
