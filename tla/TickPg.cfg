SPECIFICATION FairSpec
CONSTANTS
    FactorScale = 1
    MaxInt64 = 100
    Traffic = {1, 2}
    Emails = {a, b}
    Dirs = {"up"}
    NoRow = NoRow
    Backend = "postgres"
    ScopeFactor = 2
    OverrideFactors = {}
    PanelOps = {"add", "reset", "rename", "delete", "touch"}
    MaxBytes = 1
INVARIANTS
    CounterConservation
    FactoredAtMostOnce
PROPERTIES
    NoByteForgiven
    PendingSettles
