SPECIFICATION Spec
CONSTANTS
    MaxIn = 3
    MaxOut = 6
    MaxRecv = 2
    MaxSend = 2
INVARIANT TypeOK
INVARIANT OutputIsWhole
INVARIANT InputIsWhole
PROPERTY ShutWhenFinished
CHECK_DEADLOCK FALSE
