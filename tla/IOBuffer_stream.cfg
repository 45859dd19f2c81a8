SPECIFICATION Spec
CONSTANTS
    Bytes = {a, b}
    MaxBytes = 4
    MaxChunks = 3
INVARIANT SizeCountsBytes
PROPERTY ImplementsByteStream
CHECK_DEADLOCK FALSE
