SPECIFICATION Spec
CONSTANTS
    Content <- MCContent
    SizeMod = 1024
    MaxCount = 1
    MaxExtra = 1
INVARIANT OnePaddingByte
CHECK_DEADLOCK FALSE
