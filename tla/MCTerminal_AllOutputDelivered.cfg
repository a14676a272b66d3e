SPECIFICATION Spec
CONSTANTS
    Shell = sh
    Children = {c1}
    MaxBuf = 2
    MaxCanon = 1
    ReadSize = 1
    MaxOut = 4
    Modes <- MCModes
    MaxCalls = 4
INVARIANT AllOutputDelivered
CHECK_DEADLOCK FALSE
