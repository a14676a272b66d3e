SPECIFICATION Spec
CONSTANTS
    ChunkSize = 2
    InlineThreshold = 2
    MaxSize = 5
    MaxOps = 3
    MaxReadOps = 2
    Configs <- MCConfigs
INVARIANT VersionsImmutable
CHECK_DEADLOCK FALSE
