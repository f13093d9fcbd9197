CONSTANTS
    b1 = b1
    b2 = b2
    s1 = s1
    NoConfig = NoConfig
    Bots <- TwoBots
    Slots <- OneSlot
    Dedupers <- TwoBots
    FailuresToOpen = 1
    MaxCommits = 2
    ConfigFaults = 0
SPECIFICATION ConfigSpec
INVARIANT EveryBotIsTold
CHECK_DEADLOCK FALSE
