CONSTANTS
    a = a
    z = z
    Peers <- MCPeers
    NoTcb = NoTcb
    NoCookie = NoCookie
    MaxInitRetransmits <- None
    MaxRetransmissions = 1
    Window = 2
    SmallWindow = 2
    ShutdownCallers = {a, z}
    MaxConnects <- OnlyA
    MaxSends <- TwiceAOnceZ
SPECIFICATION FairSpecEstablished
PROPERTIES CloseIsAgreed ShutdownResolves 
CHECK_DEADLOCK FALSE
