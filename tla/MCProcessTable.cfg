CONSTANTS
    Pids = {1, 2}
    Signals = {9, 14, 15, 17, 18, 19}
    SaMask = {9, 15}
    Handled = {15, 17}
    Masks <- TermMasks
    MaxCalls = 3
    MaxStack = 5
    MaxWaiters = 2
SPECIFICATION FairSpec
CHECK_DEADLOCK FALSE
INVARIANTS
    TypeOK
    NoStuckPending
    MaskRestored
    NoHandlerReentry
    NoLostWaiter
PROPERTY
    ZombiesReaped
