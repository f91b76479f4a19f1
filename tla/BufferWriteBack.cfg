\* Two processes with the one buffer of a block, which either may find dirty.
CONSTANTS
    NoProc = NoProc
    Procs = {p1, p2}
    NR_BUF = 1
    Zero = 0
    Blocks = {0, 1}
    Requests = {1}
    Zeros = z
    Data = {z}
    Forgetful = {}
    MaxCalls = 1
SPECIFICATION LiveSpec
PROPERTY BwriteReturns
CHECK_DEADLOCK FALSE
