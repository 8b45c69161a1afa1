SPECIFICATION IntentsSpec
CONSTANTS
    u1 = u1  w1 = w1  none = none  b0 = b0  b1 = b1
    Accounts = {u1}
    Wallets = {u1, w1}
    NoWallet = none
    Intents <- SomeIntents
    Spare = {b0, b1}
    Prices = {1, 2}
    MaxDelta = 9
    TradeSizeLimit = 2
    PositionSizeLimit = 1
    MaxTime = 1
    MaxBatch = 2
    MaxCharges = 2
    MaxSignatures = 2
SYMMETRY SpareBits
CHECK_DEADLOCK FALSE
INVARIANTS FilledOnce
PROPERTIES FilledAsSigned
