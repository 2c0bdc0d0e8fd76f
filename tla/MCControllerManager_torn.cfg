SPECIFICATION Spec
CONSTANTS
    NDevices = 1
    Reports <- MCTwoReports
INVARIANT OneStatusPerRead
CHECK_DEADLOCK FALSE
