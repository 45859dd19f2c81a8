SPECIFICATION FairSpec
CONSTANTS
    w1 = w1
    w2 = w2
    c1 = c1
    c2 = c2
    j1 = j1
    j2 = j2
    j3 = j3
    Workers <- TwoWorkers
    Clients <- TwoClients
    Jobs <- ThreeJobs
    Endless <- FirstJob
    Free = Free
    NoJob = NoJob
    Spurious = TRUE
INVARIANT TypeOK
INVARIANT NoLostWakeup
PROPERTY ImplementsTaskPool
PROPERTY QueueDrains
PROPERTY WaitReturns
PROPERTY EndReturns
PROPERTY WokenReturn
CHECK_DEADLOCK FALSE
