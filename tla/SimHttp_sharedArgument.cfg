SPECIFICATION Spec
CONSTANTS
    c1 = c1
    c2 = c2
    Conns <- TwoConns
    NoConn = NoConn
    Requests <- Kinds
    Leaving <- Nobody
    Failing <- Nothing
    Body = 2
    Output = 2
    PipeSize = 1
    Lines = 2
    Buffered = 1
INVARIANT OwnClient
CHECK_DEADLOCK FALSE
