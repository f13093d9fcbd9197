CONSTANTS
    None = None
    Reports = {r1}
    Moderators = {m1, m2}
    Patchers = {}
    Removers = {}
    Reporters = {}
    Links = {}
    MaxFiles = 0
    MaxFaults = 0
SPECIFICATION Spec
INVARIANT RejectedLeavesNoFlag
CHECK_DEADLOCK FALSE
