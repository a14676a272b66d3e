CONSTANTS
    c1 = c1  c2 = c2  p1 = p1  p2 = p2  lo = lo  any = any  unix = unix
    None = None
    Callers = {c1, c2}
    Pids = {p1, p2}
    Proc <- MCProc
    Owners <- MCOwners
    Hosts = {any}
    Wildcard = any
    Ports = {1}
    Paths = {unix}
    MaxSockets = 3
    BacklogSize = 1
    MaxId = 4
    MaxBytes = 1
    MaxCalls = 5
SPECIFICATION Spec
CONSTRAINT UpToAstray
CHECK_DEADLOCK FALSE
INVARIANTS
    TypeOK
    PeersSymmetric
    NoConnectionLost
    RegistrationsLive
    NoLostWakeup
    HostHandlesOwned
