\* Two processes, two entries, two descriptors each, three inodes in memory, three
\* regular files and a directory.  No process closes a descriptor twice.
CONSTANTS
    NoProc = NoProc
    NoInode = NoInode
    NoInum = NoInum
    NoFile = NoFile
    Procs = {p1, p2}
    NR_FILES = 2
    NR_OFILES = 5
    NR_INODE = 3
    Inums = {i1, i2, i3, dir}
    Regular = {i1, i2, i3}
    Careless = {}
    MaxPaths = 4
SYMMETRY Symmetry
SPECIFICATION Spec
INVARIANTS TypeOK UniqueFiles CountIsUsers
PROPERTY OpenKeepsInode
CHECK_DEADLOCK FALSE
