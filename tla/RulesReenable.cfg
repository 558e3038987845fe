SPECIFICATION Spec
CONSTANTS
    Traffic = {1, 2}
    Emails = {a}
    Inbounds = {}
    Factors = {f}
    NoRow = NoRow
    MaxRules = 2
    Commands = {"enable"}
    PanelOps = {"create", "delete"}
SYMMETRY Symmetry
INVARIANTS
    TickCanDecide
