CONSTANTS
    a = a
    z = z
    Peers <- MCPeers
    NoTcb = NoTcb
    NoCookie = NoCookie
    MaxInitRetransmits <- Each
    MaxRetransmissions = 1
    Window = 2
    SmallWindow = 2
    ShutdownCallers = {a, z}
    MaxConnects <- OnlyA
    MaxSends <- None
SPECIFICATION Spec
INVARIANTS IsConsistent
CHECK_DEADLOCK FALSE
