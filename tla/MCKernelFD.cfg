CONSTANTS
    p1 = p1
    p2 = p2
    Pids = {p1, p2}
    NStdio = 1
    MaxFds = 3
    MaxFd = 2
    MaxDesc = 3
    MaxMarked = 1
    MaxLocks = 1
    MaxWaits = 1
SPECIFICATION Spec
SYMMETRY Symmetry
CONSTRAINT LocksApart
CHECK_DEADLOCK FALSE
INVARIANTS
    TypeOK
    RefCountExact
    EndsFollowReferences
    LocksFollowReferences
PROPERTY
    NoSelfHeldPipe
