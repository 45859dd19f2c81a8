SPECIFICATION FairSpec
CONSTANTS
    c1 = c1
    c2 = c2
    Conns <- TwoConns
    NoConn = NoConn
    Requests <- Kinds
    Leaving <- OneConn
    Failing <- Calls
    Body = 2
    Output = 2
    PipeSize = 1
    Lines = 2
    Buffered = 1
INVARIANT TypeOK
INVARIANT NothingLeftOpen
INVARIANT KilledForAReason
PROPERTY ImplementsConnections
PROPERTY ClientSeesEnd
CHECK_DEADLOCK FALSE
