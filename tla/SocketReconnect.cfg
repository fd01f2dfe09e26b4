CONSTANTS
    a = a
    z = z
    Peers <- MCPeers
    NoTcb = NoTcb
    NoCookie = NoCookie
    MaxInitRetransmits <- None
    MaxRetransmissions = 0
    Window = 2
    SmallWindow = 2
    ShutdownCallers = {a}
    MaxConnects <- TwiceA
    MaxSends <- TwiceA
SPECIFICATION Spec
INVARIANTS  AckedIsDelivered
CHECK_DEADLOCK FALSE
