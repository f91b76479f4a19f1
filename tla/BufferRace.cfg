\* Two processes asking for two different blocks at once.
CONSTANTS
    NoProc = NoProc
    Procs = {p1, p2}
    NR_BUF = 2
    Zero = 0
    Blocks = {0, 1, 2}
    Requests = {1, 2}
    Zeros = z
    Data = {z}
    Forgetful = {p1, p2}
    MaxCalls = 1
SPECIFICATION Spec
INVARIANT HeldIsBlock
CHECK_DEADLOCK FALSE
