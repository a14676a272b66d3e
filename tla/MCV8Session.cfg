SPECIFICATION FairCallbacksSpec
CONSTANTS
    s1 = s1
    s2 = s2
    Sessions <- MCSessions
    MaxConcurrency = 1
    Workloads <- MCWorkloads
INVARIANTS TypeOK AnswersArrive ExecutionAccountedFor TimeoutReported
PROPERTY ExecuteSettles
CHECK_DEADLOCK FALSE
