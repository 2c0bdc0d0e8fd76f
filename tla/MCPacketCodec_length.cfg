SPECIFICATION Spec
CONSTANTS
    Content <- MCContent
    SizeMod = 1024
    MaxCount = 1
    MaxExtra = 1
INVARIANT LengthHonoured
CHECK_DEADLOCK FALSE
