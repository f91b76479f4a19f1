\* nl and a text whose last line ends.
CONSTANTS
    Jobs <- JobsDef
    BUFF_SZ = 3
    TOKENS = 4
    POINTER = 8
    MaxLine = 9
SPECIFICATION MCSpec
INVARIANT NlPrintsLinesOnce
CHECK_DEADLOCK FALSE
