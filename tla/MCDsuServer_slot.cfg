SPECIFICATION Spec
CONSTANTS
    c1 = c1
    c2 = c2
    Clients = {c1, c2}
    Datagrams <- MCOtherSlot
    SizeMod = 1024
    CtrMod = 2
    Connected = 1
    Cached = 1
    Slots = {0, 1}
    NoDatagram = NoDatagram
    NoReply = NoReply
    QCap = 2
    MaxArrivals = 2
INVARIANT SlotEchoed
CHECK_DEADLOCK FALSE
