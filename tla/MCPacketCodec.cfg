SPECIFICATION Spec
CONSTANTS
    Content <- MCContent
    SizeMod = 1024
    MaxCount = 5
    MaxExtra = 3
INVARIANTS
    TypeOK
    Sound
    RoundTrip
    VerdictOfSize
    CrcCovers
    CrcIsIeee
CHECK_DEADLOCK FALSE
