CONSTANTS
    g1 = g1
    g2 = g2
    k1 = k1
    r1 = r1
    r2 = r2
    o1 = o1
    h1 = h1
    h2 = h2
    None = None
    Guilds <- TwoGuilds
    Keys <- OneKey
    Redeemers <- TwoRedeemers
    Operators <- OneOperator
    Handlers <- TwoHandlers
    Preset <- OneDay
    Offers <- Cancelled
    TrialDays = 1
    MaxClock = 1
    MaxFaults = 1
SPECIFICATION Spec
INVARIANT KeyPaysOnce
INVARIANT DecisionStands
INVARIANT RowShowsPresence
CONSTRAINTS TwoAtATime BusyGuild
SYMMETRY AnyRedeemer
