CONSTANTS
    a1 = a1
    w1 = w1
    w2 = w2
    t1 = t1
    t2 = t2
    r1 = r1
    r2 = r2
    c1 = c1
    c2 = c2
    None = None
    Requests <- OneRequest
    Workers <- TwoWorkers
    Ticks <- TwoTicks
    Runs <- TwoRuns
    Calls <- TwoCalls
    Batches = 2
    MaxFaults = 1
SPECIFICATION SyncSpec
INVARIANT OneSyncPerKey
 
PROPERTY SyncSettles
CHECK_DEADLOCK FALSE
