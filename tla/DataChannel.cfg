CONSTANTS
    a = a
    b = b
    Peers = {a, b}
    Sids = {0, 1, 2}
    BufferSize = 2
    LowThreshold = 1
    Lateness = 1
    MySids <- EvenAndOdd
    Unordered = {1}
    Moving = {b}
    Scenarios <- MCScenarios
    MaxRoom = 1
    MaxRetries = 1
SPECIFICATION Spec
INVARIANTS TypeOK ResetsInStep  OpenComesFirst ClosedByItsPeer RequestsResolve ClosingCompletes
CHECK_DEADLOCK FALSE
