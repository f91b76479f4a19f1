\* Two processes on one cursor, over the end of the addresses of the file.
CONSTANTS
    Procs = {p1, p2}
    Blocks = {b1, b2}
    b1 = b1
    b2 = b2
    BadBlock = none
    BLK_SZ = 2
    NR_ADDR = 2
    NDIRECT = 2
    Addr <- AddrDef
    Size = 4
    Offsets <- OffsetsDef
    MaxBytes = 2
    MaxCalls = 3
SPECIFICATION LiveSpec
INVARIANTS TypeOK IndexInBlock CursorInHand
PROPERTY TransferEnds
CHECK_DEADLOCK FALSE
