CONSTANTS
    w1 = w1
    w2 = w2
    o1 = o1
    None = None
    Events <- TwoEvents
    Unknown = {2}
    Workers <- TwoWorkers
    Operators <- NoOperator
    MaxAttempts = 3
    BatchSize = 2
    SlowWorkers = TRUE
    EarlyMarkerLoss = TRUE
    MaxFaults = 2
SPECIFICATION FairSpec
INVARIANT RecordedOnlyAfterFanout
PROPERTY EveryEventSettles
