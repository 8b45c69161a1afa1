SPECIFICATION Spec
CONSTANTS
    a1 = a1  a2 = a2  btc = btc  eth = eth  eur = eur  crypto = crypto  forex = forex
    Accounts = {a1, a2}
    Markets = {btc}
    AssetClasses = {crypto}
    ClassOf <- OneClass
    SizeDeltas = {2, 3}
    Prices = {1, 2}
    PoolValues = {20}
    MaxMarketSize = 6
    MinPositionSize = 1
    MaxPosition = 2
    ReserveNum = 1  ReserveDen = 1
    UtilNum = 1  UtilDen = 1
    BaseBorrowingRate = 20
    MaxFundingRate = 2
    MaxSkewScale = 2
    RatePrecision = 1
    SEScale = 3
    FundingInterval = 1
    MaxTime = 3
    MaxVolume = 8
SYMMETRY AccountSymmetry
CHECK_DEADLOCK FALSE
INVARIANTS TypeOK MarketSizesMatch AccumMatch
    BorrowingFeesBalance FundingMatch
