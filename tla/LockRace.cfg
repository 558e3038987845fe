SPECIFICATION Spec
CONSTANTS
    Process = {p1, p2}
    NoFile = NoFile
    MaxInodes = 2
    MaxKills = 2
INVARIANTS
    MutualExclusion
CHECK_DEADLOCK FALSE
