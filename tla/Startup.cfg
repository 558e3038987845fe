SPECIFICATION Spec
CONSTANTS
    Process = {"p", "q"}
    Scenes = {"settings", "upgrade", "backup"}
    MaxSuffix = 1
    MaxSecond = 1
INVARIANTS
    TypeOK
    FollowsPanel
    UpgradeCompletes
    BackupKept
PROPERTIES
    OnlyPanel3
