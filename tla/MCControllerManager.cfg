SPECIFICATION FairSpec
CONSTANTS
    NDevices = 4
    Reports <- MCReports
INVARIANTS
    TypeOK
    Aligned
    OwnSlot
    InRange
    FreshRead
    SettledSlot
PROPERTIES
    InitializeEnds
    DestroyEnds
CHECK_DEADLOCK FALSE
