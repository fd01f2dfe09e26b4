CONSTANTS
    a = a
    z = z
    Peers <- MCPeers
    NoTcb = NoTcb
    NoCookie = NoCookie
    MaxInitRetransmits <- None
    MaxRetransmissions = 1
    Window = 2
    SmallWindow = 2
    ShutdownCallers = {a, z}
    MaxConnects <- OnlyA
    MaxSends <- OnlyA
SPECIFICATION FairSpec
PROPERTIES ShutdownResolves
CHECK_DEADLOCK FALSE
