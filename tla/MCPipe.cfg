CONSTANTS
    w1 = w1  w2 = w2  r1 = r1  r2 = r2  p1 = p1
    Writers = {w1, w2}
    Readers = {r1, r2}
    Pollers = {p1}
    MaxBuf = 2
    MaxLen = 2
    MaxBytes = 3
SPECIFICATION FairSpec
CHECK_DEADLOCK FALSE
INVARIANTS
    NobodyStrandedUnlessBypassed
    CountsTrue
    PollNotMissed
PROPERTIES
    ImplementsChannel
    CloseUnblocksWriters
