SPECIFICATION Spec
CONSTANTS
    NDevices = 1
    Reports <- MCOneReport
INVARIANT NoDanglingWrite
CHECK_DEADLOCK FALSE
