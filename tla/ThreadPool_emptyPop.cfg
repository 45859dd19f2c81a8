SPECIFICATION Spec
CONSTANTS
    w1 = w1
    w2 = w2
    c1 = c1
    c2 = c2
    j1 = j1
    j2 = j2
    j3 = j3
    Workers <- TwoWorkers
    Clients <- OneClient
    Jobs <- TwoJobs
    Endless <- NoJobs
    Free = Free
    NoJob = NoJob
    Spurious = FALSE
INVARIANT BlocksUntilMessage
CHECK_DEADLOCK FALSE
