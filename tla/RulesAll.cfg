SPECIFICATION Spec
CONSTANTS
    Traffic = {1, 2}
    Emails = {a, b}
    Inbounds = {i}
    Factors = {f, g}
    NoRow = NoRow
    MaxRules = 2
    Commands = {"enable", "disable", "pause", "resume", "enable-all", "snapshot", "reconcile"}
    PanelOps = {"rename", "toggle", "attach"}
SYMMETRY Symmetry
INVARIANTS
    TypeOK
    OneOwner
    TickCanDecide
    TickSettles
    ExplainAgrees
    StatusAgrees
