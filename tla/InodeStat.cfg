\* Two processes in sys_stat, two inodes in memory.
CONSTANTS
    NoProc = NoProc
    Procs = {p1, p2}
    NR_BUF = 2
    Zero = 0
    Blocks = {0, 1, 2}
    Zeros = z
    Data = {z}
    NR_INODE = 2
    Inums = {0, 1, 2}
    Entries = {1, 2}
    InoBlk <- InoBlkDef
    DirBlocks = {2}
    NDIRECT = 1
    MaxLookups = 2
SPECIFICATION ISpec
INVARIANT StatIsTheFile
CHECK_DEADLOCK FALSE
