\* wc and a text with blanks.
CONSTANTS
    Jobs <- JobsDef
    BUFF_SZ = 3
    TOKENS = 4
    POINTER = 8
    MaxLine = 9
SPECIFICATION MCSpec
INVARIANT WcCountsBytes
CHECK_DEADLOCK FALSE
