CONSTANTS
    f1 = f1
    f2 = f2
    p1 = p1
    a1 = a1
    a2 = a2
    d1 = d1
    None = None
    Flags <- TwoFlags
    Lasting = {f1}
    Posters <- OnePoster
    Admins <- TwoAdmins
    Decayers <- OneDecayer
    MaxWeight = 1
    Watch = 1
    Suspicious = 2
    HighRisk = 3
    Confirmed = 5
    Total <- Sum
    DecayEnabled = TRUE
    MaxFaults = 1
SPECIFICATION FairSpec
INVARIANT ScoreIsRight
INVARIANT DecayReadsAreCurrent
PROPERTY ImplementsReputation
PROPERTY EveryRequestEnds
PROPERTY DecayHealsDrift
\* Every flag id may be used up and deleted again.
CHECK_DEADLOCK FALSE
