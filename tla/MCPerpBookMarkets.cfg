SPECIFICATION Spec
CONSTANTS
    a1 = a1  a2 = a2  btc = btc  eth = eth  eur = eur  crypto = crypto  forex = forex
    Accounts = {a1, a2}
    Markets = {btc, eth, eur}
    AssetClasses = {crypto, forex}
    ClassOf <- TwoClasses
    SizeDeltas = {3}
    Prices = {2}
    PoolValues = {18}
    MaxMarketSize = 3
    MinPositionSize = 2
    MaxPosition = 3
    ReserveNum = 1  ReserveDen = 1
    UtilNum = 1  UtilDen = 1
    BaseBorrowingRate = 9
    MaxFundingRate = 0
    MaxSkewScale = 0
    RatePrecision = 4
    SEScale = 3
    FundingInterval = 1
    MaxTime = 3
    MaxVolume = 3
SYMMETRY AccountSymmetry
CHECK_DEADLOCK FALSE
INVARIANTS ReserveMatch IdsMatch BorrowingNotOverSettled
