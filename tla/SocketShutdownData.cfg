CONSTANTS
    a = a
    z = z
    Peers <- MCPeers
    NoTcb = NoTcb
    NoCookie = NoCookie
    MaxInitRetransmits <- None
    MaxRetransmissions = 1
    Window = 2
    SmallWindow = 2
    ShutdownCallers = {a, z}
    MaxConnects <- OnlyA
    MaxSends <- TwiceA
SPECIFICATION SpecEstablished
INVARIANTS ShutdownAfterAllData
CHECK_DEADLOCK FALSE
