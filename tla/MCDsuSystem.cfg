SPECIFICATION FairSpec
CONSTANTS
    c1 = c1
    e1 = e1
    Clients = {c1}
    Datagrams <- MCDatagrams
    SizeMod = 1024
    CtrMod = 2
    Slots = {0}
    QCap = 2
    MaxArrivals = 2
    NoDatagram = NoDatagram
    NoReply = NoReply
    NDevices = 2
    Reports <- MCReports
    Connects = {2}
    Events = {e1}
INVARIANTS
    TypeOK
    ReadsLiveCache
    FreshReplies
    NeverOlder
PROPERTIES
    ImplementsServer
    ImplementsManager
    ImplementsMain
    CtrlCEnds
CHECK_DEADLOCK FALSE
