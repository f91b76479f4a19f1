\* tr and sets of which the one has what the other has.
CONSTANTS
    Jobs <- JobsDef
    BUFF_SZ = 3
    TOKENS = 4
    POINTER = 8
    MaxLine = 9
SPECIFICATION MCSpec
INVARIANT TrReplacesOnce
CHECK_DEADLOCK FALSE
