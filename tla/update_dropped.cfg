SPECIFICATION Spec
CONSTANTS
    p = p
    q = q
    Pins = {p, q}
    NoPin = NoPin
    NSlots = 2
    QueueMax = 3
    ReadMax = 1
    NChunks = 2
    HostTries = 2
    MaxUpdates = 1
    SlowReboot = TRUE
    Moves = {"hosts"}
    MaxMoves = 2
INVARIANTS
    LatestConfig
