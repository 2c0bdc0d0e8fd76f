SPECIFICATION Spec
CONSTANTS
    c1 = c1
    c2 = c2
    Clients = {c1, c2}
    Datagrams <- MCDataRequests
    SizeMod = 1024
    CtrMod = 4
    Connected = 1
    Cached = 1
    Slots = {0, 1}
    NoDatagram = NoDatagram
    NoReply = NoReply
    QCap = 2
    MaxArrivals = 3
INVARIANT PerClientNumbers
CHECK_DEADLOCK FALSE
