SPECIFICATION FairSpec
CONSTANTS
    c1 = c1
    c2 = c2
    c3 = c3
    Conns <- TwoConns
    Fds <- TwoFds
    Resetting <- OneConn
    BacklogQueue = 2
    MaxInterrupts = 0
    Reactors <- TwoReactors
    Epolls <- TwoReactors
    NoConn = NoConn
    Free = Free
    Absent = Absent
    Null = Null
PROPERTY RegisteredIsServed
CHECK_DEADLOCK FALSE
