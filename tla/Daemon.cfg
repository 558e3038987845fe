SPECIFICATION Spec
CONSTANTS
    Window = 2
    Grace = 2
    Retention = 1
    MaxLag = 1
    MaxEvents = 2
INVARIANTS
    TypeOK
    JournalTells
    CleanupKeepsUp
