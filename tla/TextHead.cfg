\* head and a text that begins with an empty line.
CONSTANTS
    Jobs <- JobsDef
    BUFF_SZ = 3
    TOKENS = 4
    POINTER = 8
    MaxLine = 9
SPECIFICATION MCSpec
INVARIANT HeadPrintsLines
CHECK_DEADLOCK FALSE
