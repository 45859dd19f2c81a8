SPECIFICATION FairSpec
CONSTANTS
    c1 = c1
    c2 = c2
    c3 = c3
    Conns <- TwoConns
    Fds <- OneFd
    Resetting <- NoConns
    BacklogQueue = 2
    MaxInterrupts = 1
    Reactors <- TwoReactors
    Epolls <- TwoReactors
    NoConn = NoConn
    Free = Free
    Absent = Absent
    Null = Null
PROPERTY ReactorsQuit
CHECK_DEADLOCK FALSE
