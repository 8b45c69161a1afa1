SPECIFICATION MCSpec
CONSTANTS
    u1 = u1  u2 = u2  m1 = m1  m2 = m2
    Users = {u1, u2}
    Markets = {m1, m2}
    SizeDeltas = {1, 2, 5}
    SizeUnit = 2
    Precision = 12
    MinPeriod = 2
    MaxPeriod = 3
    FeedAmounts = {5}
    MaxTime = 3
    MaxFeeds = 2
    MaxChanges = 2
    MaxShares = 3
    MaxDeposits = 3
    MaxWithdrawals = 1
    Traders = {u1, u2}
    EpochLength = 2
    TradeSizes = {2, 3}
    Weights = {1}
    CreditUnit = 2
    CreditAmounts = {1}
    EpochFeeds = {0, 5}
    SharePrecision = 4
    MaxClock = 4
    MaxCredits = 3
SYMMETRY Symmetry
CHECK_DEADLOCK FALSE
INVARIANTS EarnedExactly Funded EpochsSettled
