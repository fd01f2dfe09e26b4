CONSTANTS
    Fragments <- OneTwoOne
    MaxRetransmits <- LimitedSecond
    NoLimit = NoLimit
    Mortal = {2}
    NacksForRetransmission = 2
    MaxBurst = 2
    InitialCwnd = 2
    MinCwnd = 1
    SmallWindow = 2
    PeerWindows = {0, 2}
    SizeModulus = 16
    MaxResets = 1
SPECIFICATION Spec
INVARIANTS TypeOK IsConsistent SkipsOnlyAbandoned ReadIsSound DeliveredIsRead NoStaleChunks ChunksAreTimed
PROPERTIES ResetsAreNotCrossed
