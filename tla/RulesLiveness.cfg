SPECIFICATION FairSpec
CONSTANTS
    Traffic = {1, 2}
    Emails = {a, b}
    Inbounds = {}
    Factors = {f}
    NoRow = NoRow
    MaxRules = 2
    Commands = {"enable-all", "disable-all", "pause-all", "resume-all"}
    PanelOps = {"create", "delete", "rename"}
INVARIANTS
    OneOwner
PROPERTIES
    ScopeCovers
