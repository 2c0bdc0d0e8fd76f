SPECIFICATION FairSpec
CONSTANTS
    e1 = e1
    e2 = e2
    Events = {e1, e2}
INVARIANTS
    TypeOK
    NoLostWakeup
    OnlyOnRequest
    NoUseAfterDestroy
    OrderlyExit
PROPERTY CtrlCEnds
CHECK_DEADLOCK FALSE
