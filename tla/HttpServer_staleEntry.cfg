SPECIFICATION Spec
CONSTANTS
    c1 = c1
    c2 = c2
    c3 = c3
    Conns <- ThreeConns
    Fds <- OneFd
    Resetting <- NoConns
    BacklogQueue = 2
    MaxInterrupts = 0
    Reactors <- TwoReactors
    Epolls <- TwoReactors
    NoConn = NoConn
    Free = Free
    Absent = Absent
    Null = Null
INVARIANT RegisteredAfterRemoval
CHECK_DEADLOCK FALSE
