CONSTANTS
    reporter = reporter
    admin = admin
    d1 = d1
    d2 = d2
    q1 = q1
    q2 = q2
    r1 = r1
    w1 = w1
    w2 = w2
    e1 = e1
    c1 = c1
    b1 = b1
    b2 = b2
    s1 = s1
    s2 = s2
    None = None
    Pages <- TwoPages
    Admins <- OneAdmin
    Deciders <- TwoDeciders
    Posts <- TwoPosts
    MaxPulls <- Pulls
    MaxTexts = 1
    MaxFaults = 1
    NoRow = NoRow
    Readers <- OneReader
    Reporters <- TwoReporters
    Editors <- OneEditor
    CacheDecayers <- OneDecayer
    Repairers <- OneEditor
    MaxVersion = 3
    SlowRequests = TRUE
    CacheFaults = 1
    NoConfig = NoConfig
    Bots <- TwoBots
    Slots <- OneAsks
    Dedupers <- TwoBots
    FailuresToOpen = 1
    MaxCommits = 2
    ConfigFaults = 1
SPECIFICATION CopiesSpec
INVARIANT OneCopyPerSend
INVARIANT DeciderIsAssigned
PROPERTY ClosedThreadIsQuiet
PROPERTY ThreadCatchesUp
INVARIANT EntryIsGuarded
PROPERTY ReportNeverGoesBack
PROPERTY CacheConverges
INVARIANT ConfigTypeOK
INVARIANT InvalidationReachesBot
PROPERTY ConfigConverges
\* A ticket may be left alone, and versions and commits run out.
CHECK_DEADLOCK FALSE
