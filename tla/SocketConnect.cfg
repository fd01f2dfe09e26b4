CONSTANTS
    a = a
    z = z
    Peers <- MCPeers
    NoTcb = NoTcb
    NoCookie = NoCookie
    MaxInitRetransmits <- OnlyA
    MaxRetransmissions = 0
    Window = 2
    SmallWindow = 2
    ShutdownCallers = {}
    MaxConnects <- Each
    MaxSends <- OnlyA
SPECIFICATION FairSpec
INVARIANTS TypeOK TimersMatchState
PROPERTIES ConnectResolves
CHECK_DEADLOCK FALSE
