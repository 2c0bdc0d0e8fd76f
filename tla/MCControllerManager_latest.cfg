SPECIFICATION Spec
CONSTANTS
    NDevices = 1
    Reports <- MCOneReport
INVARIANT CacheHoldsLatest
CHECK_DEADLOCK FALSE
