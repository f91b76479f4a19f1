\* One process, two buffers, three blocks asked for: the cache overflows.
CONSTANTS
    NoProc = NoProc
    None = None
    Procs = {p1}
    NR_BUF = 2
    Zero = 0
    Blocks = {0, 1, 2, 3}
    Requests = {1, 2, 3}
    Zeros = z
    Data = {z, d}
    Forgetful = {p1}
    MaxCalls = 4
SPECIFICATION LiveSpec
INVARIANT PanicOnlyWhenFull
PROPERTIES IsBlockStore BwriteReturns
CHECK_DEADLOCK FALSE
