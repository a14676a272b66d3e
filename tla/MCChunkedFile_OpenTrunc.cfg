SPECIFICATION Spec
CONSTANTS
    ChunkSize = 2
    InlineThreshold = 2
    MaxSize = 5
    MaxOps = 3
    MaxReadOps = 2
    Configs <- Plain
INVARIANT MutexPreventsCorruption
CONSTRAINT Created
CHECK_DEADLOCK FALSE
