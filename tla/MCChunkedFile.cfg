SPECIFICATION Spec
CONSTANTS
    ChunkSize = 2
    InlineThreshold = 2
    MaxSize = 5
    MaxOps = 3
    MaxReadOps = 2
    Configs <- MCConfigs
INVARIANTS ContentMatches ChunksWithinSize KeysResolve NoBlockLeak VersionsKept QuietReadsExact
CHECK_DEADLOCK FALSE
