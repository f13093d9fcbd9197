CONSTANTS
    w1 = w1
    w2 = w2
    o1 = o1
    None = None
    Events <- TwoEvents
    Unknown = {}
    Workers <- TwoWorkers
    Operators <- OneOperator
    MaxAttempts = 2
    BatchSize = 2
    SlowWorkers = FALSE
    EarlyMarkerLoss = FALSE
    MaxFaults = 3
SPECIFICATION Spec
INVARIANT ExclusiveClaim
INVARIANT NoDuplicateFanout
INVARIANT FailsExactlyAtLimit
PROPERTY ImplementsPromise
