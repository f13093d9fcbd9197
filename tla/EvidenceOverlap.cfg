CONSTANTS
    None = None
    Reports = {r1}
    Moderators = {}
    Patchers = {x1}
    Removers = {}
    Reporters = {q1, q2}
    Links = {l1, l2}
    MaxFiles = 1
    MaxFaults = 0
SPECIFICATION Spec
INVARIANT EvidenceKept
CHECK_DEADLOCK FALSE
