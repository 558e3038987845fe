SPECIFICATION Spec
CONSTANTS
    Traffic = {1, 2}
    Emails = {a, b}
    Inbounds = {}
    Factors = {f}
    NoRow = NoRow
    MaxRules = 2
    Commands = {"enable", "enable-all"}
    PanelOps = {"create", "delete", "rename"}
SYMMETRY Symmetry
PROPERTIES
    MergeKeepsCoverage
