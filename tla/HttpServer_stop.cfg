SPECIFICATION Spec
CONSTANTS
    c1 = c1
    c2 = c2
    c3 = c3
    Conns <- TwoConns
    Fds <- TwoFds
    Resetting <- TwoConns
    BacklogQueue = 1
    MaxInterrupts = 1
    Reactors <- TwoReactors
    Epolls <- TwoReactors
    NoConn = NoConn
    Free = Free
    Absent = Absent
    Null = Null
SYMMETRY Symmetry
INVARIANT ExitAfterReset
INVARIANT AnsweredOnce
INVARIANT OneEpollPerConnection
PROPERTY ImplementsConnections
CHECK_DEADLOCK FALSE
