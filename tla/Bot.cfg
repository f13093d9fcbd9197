CONSTANTS
    i1 = i1
    i2 = i2
    i3 = i3
    i4 = i4
    g1 = g1
    m1 = m1
    m2 = m2
    j1 = j1
    j2 = j2
    b1 = b1
    b2 = b2
    None = None
    NoOne = NoOne
    Members <- TwoMembers
    Handlers <- TwoHandlers
    Presses <- TwoPresses
    Configs <- FiveConfigs
    MaxLevel = 3
    GateFaults = 1
    Interactions <- FourInteractions
    Guilds <- OneGuild
    Offers <- OneOfAll
    PerMinute = 2
    RetryMax = 1
    Threshold = 1
    OpenFor = 1
    BootTries = 2
    MaxClock = 2
    MaxFaults = 2
SPECIFICATION BothSpec
INVARIANT AnswersAreTrue
INVARIANT RepeatsAreBounded
INVARIANT RateIsBounded
INVARIANT NobodyLeftThinking
INVARIANT HeldMembersHaveACard
SYMMETRY Alike
CHECK_DEADLOCK FALSE
