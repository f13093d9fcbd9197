CONSTANTS
    p1 = p1
    p2 = p2
    p3 = p3
    guild = guild
    global = global
    spam = spam
    None = None
    Requests <- ThreeRequests
    Scopes <- GuildAndGlobal
    Instant <- OnlyGlobal
    Subjects <- OneSubject
    MaxPerDay = 2
    SlowRequests = FALSE
    MaxFaults = 1
SPECIFICATION Spec
SYMMETRY Interchangeable
INVARIANT CapHolds
INVARIANT ReportsAreSpaced
INVARIANT NoDuplicateReports
