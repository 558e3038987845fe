SPECIFICATION Spec
CONSTANTS
    Traffic = {1, 2}
    Emails = {a, b}
    Inbounds = {1, 2}
    Factors = {f, g}
    NoRow = NoRow
    MaxPolicies = 3
    LegacyRows = 2
INVARIANTS
    TypeOK
    OneActivePerClient
    RepairFollows
PROPERTIES
    NoResurrection
