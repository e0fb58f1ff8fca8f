SPECIFICATION PartsSpec
CONSTANTS
    MaxOps = 8
    r = r
    s = s
    None = None
    Reports = {r, s}
    QueueMax = 2
    MaxWrites = 3
    MaxLinks = 2
    Blocks = 4
    Chunks = 3
    LastChunks = 2
    MaxMetadata = 7
    Wrap = 5
    Settle = 2
    Absent = 2
    NoVbus = 1
    MaxLag = 1
    VbusKnown = TRUE
    Moves = 3
INVARIANTS
    TypesOK
    SofDriven
    AnswersTrue
    BlocksWhole
PROPERTIES
    WriteEnds
    RequestsEnd
    CommitEnds
    OnlySettledReloads
    LoadsCatchUp
CHECK_DEADLOCK FALSE
