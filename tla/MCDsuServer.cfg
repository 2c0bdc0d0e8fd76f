SPECIFICATION FairSpec
CONSTANTS
    c1 = c1
    c2 = c2
    Clients = {c1, c2}
    Datagrams <- MCDatagrams
    SizeMod = 1024
    CtrMod = 2
    Connected = 1
    Cached = 1
    Slots = {0, 1}
    NoDatagram = NoDatagram
    NoReply = NoReply
    QCap = 2
    MaxArrivals = 3
INVARIANTS
    TypeOK
    ConsecutiveNumbers
    AtMostOneAfterStop
PROPERTIES
    ImplementsService
    StopEndsListening
    BufferDrains
CHECK_DEADLOCK FALSE
