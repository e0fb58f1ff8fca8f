SPECIFICATION LiveSpec
CONSTANTS
    QueueMax = 1
    Chunks = 1
    Moves = 2
INVARIANT TypeOK InOrder
PROPERTY ModeWaitsUnlessCaught ToolHearsUnlessFull ReloadHappens DeferredEnds
