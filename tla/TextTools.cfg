\* Every tool on short texts, and the shell that reads lines.
CONSTANTS
    Jobs <- JobsDef
    BUFF_SZ = 3
    TOKENS = 4
    POINTER = 8
    MaxLine = 9
SPECIFICATION MCSpec
INVARIANTS
    TypeOK
    FiltersAreComplete
    CmpFindsDifference
    SumTellsApart
    HeadStopsAtLine
    GrepFinds
    LineFits
    TokensFit
CHECK_DEADLOCK FALSE
