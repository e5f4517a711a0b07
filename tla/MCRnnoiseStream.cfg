CONSTANTS
    FRAME_SIZE = 4
    ChunkSizes <- Chunks
    MaxSamples = 30
SPECIFICATION Spec
INVARIANTS
    WindowsMeet
    FlushReturnsAll
PROPERTIES
    ReturnedIsSettled
CHECK_DEADLOCK FALSE
