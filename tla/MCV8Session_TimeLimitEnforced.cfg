SPECIFICATION FairSpec
CONSTANTS
    s1 = s1
    s2 = s2
    Sessions <- MCSessions
    MaxConcurrency = 1
    Workloads <- OneSession
PROPERTY TimeLimitEnforced
CHECK_DEADLOCK FALSE
