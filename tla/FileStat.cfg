\* Two processes, one inode in memory, two regular files: one process has a
\* file open, the other calls sys_stat on it and opens the other file.
CONSTANTS
    NoProc = NoProc
    NoInode = NoInode
    NoInum = NoInum
    NoFile = NoFile
    Procs = {p1, p2}
    NR_FILES = 2
    NR_OFILES = 5
    NR_INODE = 1
    Inums = {i1, i2}
    Regular = {i1, i2}
    Careless = {}
    MaxPaths = 3
SYMMETRY Symmetry
SPECIFICATION Spec
PROPERTY OpenKeepsFile
CHECK_DEADLOCK FALSE
