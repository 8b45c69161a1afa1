CONSTANTS
    MinimumDelay = 2
    MaximumDelay = 4
    GracePeriod = 1
    Accounts = {"deployer", "safe"}
    OutsideCalls <- MCOutsideCalls
    Delays = {2, 4}
    Etas <- MCEtas
    MaxTime = 5
    Plans <- MCPlans
    Setups <- MCSetups
    Slack = 1
    Options = {0, 1}
    MaxQueued = 2
SPECIFICATION Spec
INVARIANTS RecordsKept NothingDropped KindsFit DelayHonoured ExecutedOnce
CHECK_DEADLOCK FALSE
