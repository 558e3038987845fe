SPECIFICATION Spec
CONSTANTS
    FactorScale = 3
    MaxInt64 = 4
    Traffic = {1, 2}
    Emails = {a}
    Dirs = {"up"}
    NoRow = NoRow
    Backend = "sqlite"
    ScopeFactor = 5
    OverrideFactors = {3, 4}
    PanelOps = {"add", "reset", "delete", "create", "touch"}
    MaxBytes = 3
INVARIANTS
    TypeOK
    CounterConservation
    FactoredAtMostOnce
    NotOvercharged
PROPERTIES
    ImplementsLedger
    NoByteForgiven
    SuspendedNotFactored
