CONSTANTS
    m1 = m1
    m2 = m2
    l1 = l1
    l2 = l2
    p1 = p1
    p2 = p2
    q1 = q1
    q2 = q2
    None = None
    NoStamp = NoStamp
    Polls <- TwoPolls
    MaxRows = 3
    Lag = 1
    Recent = 1
    PageSize = 2
    Kept = 2
    MaxClock = 1
    Reports = {r1}
    Moderators = {m1, m2}
    Patchers = {x1}
    Removers = {x1}
    Reporters = {q1, q2}
    Links = {l1, l2}
    MaxFiles = 1
    MaxFaults = 1
SPECIFICATION BothSpec
INVARIANT OneFlagPerReport
INVARIANT ClosedTicketAgrees
INVARIANT NoEvidenceLost
INVARIANT NothingIsSkipped
INVARIANT FeedIsInOrder
SYMMETRY Alike
\* A report decided without a ticket leaves nothing to do, and a feed may be closed.
CHECK_DEADLOCK FALSE
