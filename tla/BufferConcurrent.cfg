\* Two processes, two buffers, three blocks (block 0 is one of them).
CONSTANTS
    NoProc = NoProc
    Procs = {p1, p2}
    NR_BUF = 2
    Zero = 0
    Blocks = {0, 1, 2}
    Requests = {0, 1, 2}
    Zeros = z
    Data = {z}
    Forgetful = {p1, p2}
    MaxCalls = 2
SPECIFICATION LiveSpec
INVARIANTS TypeOK UniqueBlocks
PROPERTY BreadReturns
CHECK_DEADLOCK FALSE
