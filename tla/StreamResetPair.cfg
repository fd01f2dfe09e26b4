CONSTANTS
    a = a
    z = z
    Peers = {a, z}
    Sids = {0, 1}
    BufferSize = 2
    LowThreshold = 1
    Lateness = 1
    Sizes = {2}
    Moving = {z}
    MaxRoom = 1
    MaxSends <- MCSends
    MaxResets <- MCResets
    MaxRequests = 2
SPECIFICATION Spec
INVARIANTS ResetsInStep ResetsComplete NothingIsStuck HeardInOrder
CHECK_DEADLOCK FALSE
