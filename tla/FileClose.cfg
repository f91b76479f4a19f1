\* One process, one regular file and a directory: the process opens the file,
\* closes it, opens it again and closes it again.
CONSTANTS
    NoProc = NoProc
    NoInode = NoInode
    NoInum = NoInum
    NoFile = NoFile
    Procs = {p1}
    NR_FILES = 1
    NR_OFILES = 5
    NR_INODE = 2
    Inums = {i1, dir}
    Regular = {i1}
    Careless = {}
    MaxPaths = 2
SPECIFICATION LiveSpec
PROPERTY CloseReturns
CHECK_DEADLOCK FALSE
