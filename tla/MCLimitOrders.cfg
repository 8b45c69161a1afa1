SPECIFICATION FairSpec
CONSTANTS
    u1 = u1  u2 = u2
    Accounts = {u1}
    MaxDelta = 9
    TradeSizeLimit = 0
    PositionSizeLimit = 2
    Deltas <- SomeDeltas
    Prices = {1, 2}
    Fees = {1}
    MinExecutionTimestamp = 0
    MaxOrders = 2
    MaxTime = 1
    MaxBatch = 2
CHECK_DEADLOCK FALSE
INVARIANTS PointersMatch SizeLimited FeesHeld
PROPERTIES FilledExactly ImplementsEscrow MarketOrdersLeave
