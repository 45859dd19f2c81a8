SPECIFICATION FairSpec
CONSTANTS
    MaxInput = 6
    BufSize = 4
    Lengths <- MCLengths
INVARIANT TypeOK
INVARIANT LinesKeepText
INVARIANT HeadersEndAtBlankLine
INVARIANT BodyFollowsHeaders
PROPERTY RequestIsRead
CHECK_DEADLOCK FALSE
