SPECIFICATION FairSpec
CONSTANTS
    Process = {p1, p2, p3}
    NoFile = NoFile
    MaxInodes = 3
    MaxKills = 2
INVARIANTS
    TypeOK
    HolderNamed
    ExclusiveUnlessRemoved
PROPERTIES
    LockRecovers
CHECK_DEADLOCK FALSE
