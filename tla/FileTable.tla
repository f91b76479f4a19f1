----------------------------- MODULE FileTable -----------------------------
(***************************************************************************)
(* The table of open files, the inodes its entries point to and the        *)
(* descriptors of the processes (kernel/fs/open_close.c, kernel/fs/stat.c, *)
(* and what they do to the inode cache of kernel/fs/inode.c).              *)
(*                                                                         *)
(* sys_open finds an inode (namei), gets an entry of open_files for it     *)
(* (fget), a free descriptor (fdget), and stores the one in the other.     *)
(* sys_close drops the count of the entry and, at 0, puts the inode and    *)
(* clears the entry; it never clears the descriptor.                       *)
(*                                                                         *)
(* f_inode is a pointer to a slot of the inode cache, and i_num says what  *)
(* file the slot is for.  namei, whose reads and locks are in InodeCache,  *)
(* is here one step that does what its iget does to the slots: a file that *)
(* has a slot gets it as it is, its count not raised, another one the      *)
(* first slot whose count is 0 (inode.c:22-38).  iput of a clean inode     *)
(* takes the lock of the slot and returns with it (inode.c:46-62); irelease *)
(* lowers the count and frees the lock, if the caller has it               *)
(* (inode.c:72-83).  The path "/" is left out: it gives the first slot as  *)
(* it is (namei.c:15), which is a hit of the file that was read into it,   *)
(* and before one was no regular file.                                     *)
(*                                                                         *)
(* opened[p] is not in the code: it is what p has opened and not closed.   *)
(* The offset, flags and mode of an entry play no part in these properties *)
(* and are left out.  The lock of a process is only ever taken by that     *)
(* process and is left out.                                                *)
(***************************************************************************)
EXTENDS Naturals, FiniteSets

CONSTANTS
    Procs,
    NoProc,     \* the holder of a free spinlock
    NR_FILES,   \* entries of open_files (param.h:12)
    NR_OFILES,  \* descriptors of a process (param.h:10)
    NR_INODE,   \* slots of the inode cache (param.h:11)
    Inums,      \* inode numbers of files
    Regular,    \* those of regular files
    NoInum,     \* the number of a slot no inode was read into
    NoInode,    \* a NULL f_inode
    NoFile,     \* a NULL struct file *
    Careless,   \* processes that close a descriptor they have closed before
    MaxPaths    \* bound: paths given to sys_open and sys_stat

ASSUME ProcsAssumption == IsFiniteSet(Procs)
ASSUME NoProcAssumption == NoProc \notin Procs
ASSUME NrFilesAssumption == NR_FILES \in Nat \ {0}
ASSUME NrOFilesAssumption == NR_OFILES \in Nat /\ NR_OFILES > 3
ASSUME NrInodeAssumption == NR_INODE \in Nat
ASSUME InumsAssumption == Regular \subseteq Inums /\ NoInum \notin Inums
ASSUME NoInodeAssumption == NoInode \notin Nat
ASSUME NoFileAssumption == NoFile \notin Nat
ASSUME CarelessAssumption == Careless \subseteq Procs
ASSUME MaxPathsAssumption == MaxPaths \in Nat

VARIABLES
    f_count,        \* [Files -> 0..255]             u8_t use count
    f_inode,        \* [Files -> Slots or NoInode]  pointer to an inode
    open_files_sl,  \* holder                        lock of the table
    proc_table_sl,  \* holder                        lock of the processes
    i_num,          \* [Slots -> Inums or NoInum]   inode number
    i_count,        \* [Slots -> 0..255]            u8_t use count
    i_sl,           \* [Slots -> holder]            lock of one inode
    p_filp,         \* [Procs -> [Fds -> Files or NoFile]] descriptors
    fpc,            \* [Procs -> FLabels]            where a process is
    ino,            \* [Procs -> Slots or NoInode]  inode in hand
    file,           \* [Procs -> Files or NoFile]    entry in hand
    fd,             \* [Procs -> Fds]                descriptor in hand
    opened,         \* [Procs -> SUBSET Fds]         opened and not closed
    paths,          \* 0..MaxPaths                  paths looked up
    halted          \* why the kernel stopped, or "no"

inoVars == <<i_num, i_count, i_sl>>
entVars == <<f_count, f_inode, p_filp, opened>>
tabVars == <<entVars, inoVars>>
lockVars == <<open_files_sl, proc_table_sl>>
locVars == <<ino, file, fd, paths>>
vars == <<tabVars, lockVars, locVars, fpc, halted>>

Files == 0..(NR_FILES - 1)
Slots == 0..(NR_INODE - 1)
Fds == 3..(NR_OFILES - 1)   \* 0, 1 and 2 are common to all processes
Holders == Procs \cup {NoProc}
Byte == 0..255

FLabels == {"user", "mode", "notreg", "fget", "fsearch", "fshare", "ftake", "nofile",
            "fdget", "fdsearch", "setfd", "nofd", "close", "drop", "put",
            "clear", "stat", "irelease"}

Halts == {"no", "fault", "iget: no free inodes",
          "sys_open: this is not a regular file",
          "sys_open: cannot get file struct", "sys_open: cannot get a valid fd",
          "sys_close: bad file table", "sys_fstat: cannot get inode"}

TypeOK ==
    /\ f_count \in [Files -> Byte]
    /\ f_inode \in [Files -> Slots \cup {NoInode}]
    /\ open_files_sl \in Holders
    /\ proc_table_sl \in Holders
    /\ i_num \in [Slots -> Inums \cup {NoInum}]
    /\ i_count \in [Slots -> Byte]
    /\ i_sl \in [Slots -> Holders]
    /\ p_filp \in [Procs -> [Fds -> Files \cup {NoFile}]]
    /\ fpc \in [Procs -> FLabels]
    /\ ino \in [Procs -> Slots \cup {NoInode}]
    /\ file \in [Procs -> Files \cup {NoFile}]
    /\ fd \in [Procs -> Fds]
    /\ opened \in [Procs -> SUBSET Fds]
    /\ paths \in 0..MaxPaths
    /\ halted \in Halts

Init ==
    /\ f_count = [f \in Files |-> 0]
    /\ f_inode = [f \in Files |-> NoInode]
    /\ open_files_sl = NoProc
    /\ proc_table_sl = NoProc
    /\ i_num = [s \in Slots |-> NoInum]
    /\ i_count = [s \in Slots |-> 0]
    /\ i_sl = [s \in Slots |-> NoProc]
    /\ p_filp = [p \in Procs |-> [d \in Fds |-> NoFile]]
    /\ fpc = [p \in Procs |-> "user"]
    /\ ino = [p \in Procs |-> NoInode]
    /\ file = [p \in Procs |-> NoFile]
    /\ fd = [p \in Procs |-> 3]
    /\ opened = [p \in Procs |-> {}]
    /\ paths = 0
    /\ halted = "no"

At(p, label) == halted = "no" /\ fpc[p] = label
Goto(p, label) == fpc' = [fpc EXCEPT ![p] = label]

\* panic(why), at a point where nothing else changes but the lock of inode i.
Panic(why) == halted' = why /\ UNCHANGED <<lockVars, locVars, fpc>>

IsFirst(x, S) == x \in S /\ \A y \in S : x <= y

-----------------------------------------------------------------------------
(* fget(i, flags) *)

OfInode(s) == {f \in Files : /\ f_inode[f] # NoInode
                             /\ i_num[f_inode[f]] = i_num[s]}
Empty == {f \in Files : f_count[f] = 0}
Unnamed == {f \in Files : f_inode[f] = NoInode}

\* Mistake: the table is searched without waiting for its lock.
FgetUnlocked(p) ==
    /\ At(p, "fget")
    /\ open_files_sl' = p
    /\ Goto(p, "fsearch")
    /\ UNCHANGED <<tabVars, proc_table_sl, locVars, halted>>

FgetAcquire(p) ==
    /\ At(p, "fget")
    /\ open_files_sl = NoProc
    /\ open_files_sl' = p
    /\ Goto(p, "fsearch")
    /\ UNCHANGED <<tabVars, proc_table_sl, locVars, halted>>

\* The loop reads the inode number of every entry it passes through f_inode,
\* also where that is NULL: the load faults ...
FgetFault(p) ==
    /\ At(p, "fsearch")
    /\ \E f \in Unnamed : \A g \in OfInode(ino[p]) : f < g
    /\ Panic("fault")
    /\ UNCHANGED tabVars

\* ... or finds in low memory a number no inode has.  An entry of the inode
\* ends the loop.
FgetFound(p) ==
    /\ At(p, "fsearch")
    /\ \E f \in Files :
          /\ IsFirst(f, OfInode(ino[p]))
          /\ file' = [file EXCEPT ![p] = f]
    /\ Goto(p, "fshare")
    /\ UNCHANGED <<tabVars, lockVars, ino, fd, paths, halted>>

FgetEmpty(p) ==
    /\ At(p, "fsearch")
    /\ OfInode(ino[p]) = {}
    /\ \E f \in Files :
          /\ IsFirst(f, Empty)
          /\ file' = [file EXCEPT ![p] = f]
    /\ Goto(p, "ftake")
    /\ UNCHANGED <<tabVars, lockVars, ino, fd, paths, halted>>

FgetFull(p) ==
    /\ At(p, "fsearch")
    /\ OfInode(ino[p]) = {}
    /\ Empty = {}
    /\ open_files_sl' = NoProc
    /\ Goto(p, "nofile")
    /\ UNCHANGED <<tabVars, proc_table_sl, locVars, halted>>

\* Mistake: the entry is shared, its count not raised.
FgetShareUncounted(p) ==
    /\ At(p, "fshare")
    /\ open_files_sl' = NoProc
    /\ Goto(p, "fdget")
    /\ UNCHANGED <<tabVars, proc_table_sl, locVars, halted>>

FgetShare(p) ==
    /\ At(p, "fshare")
    /\ f_count' = [f_count EXCEPT ![file[p]] = (@ + 1) % 256]
    /\ open_files_sl' = NoProc
    /\ Goto(p, "fdget")
    /\ UNCHANGED <<f_inode, inoVars, p_filp, opened, proc_table_sl, locVars,
                   halted>>

FgetTake(p) ==
    /\ At(p, "ftake")
    /\ f_count' = [f_count EXCEPT ![file[p]] = (@ + 1) % 256]
    /\ f_inode' = [f_inode EXCEPT ![file[p]] = ino[p]]
    /\ open_files_sl' = NoProc
    /\ Goto(p, "fdget")
    /\ UNCHANGED <<inoVars, p_filp, opened, proc_table_sl, locVars, halted>>

-----------------------------------------------------------------------------
(* fdget() *)

NoFd(p) == {d \in Fds : p_filp[p][d] = NoFile}

FdgetAcquire(p) ==
    /\ At(p, "fdget")
    /\ proc_table_sl = NoProc
    /\ proc_table_sl' = p
    /\ Goto(p, "fdsearch")
    /\ UNCHANGED <<tabVars, open_files_sl, locVars, halted>>

FdgetFound(p) ==
    /\ At(p, "fdsearch")
    /\ \E d \in Fds :
          /\ IsFirst(d, NoFd(p))
          /\ fd' = [fd EXCEPT ![p] = d]
    /\ proc_table_sl' = NoProc
    /\ Goto(p, "setfd")
    /\ UNCHANGED <<tabVars, open_files_sl, ino, file, paths, halted>>

\* Mistake: the descriptor past the last is returned.
FdgetPastTable(p) ==
    /\ At(p, "fdsearch")
    /\ NoFd(p) = {}
    /\ fd' = [fd EXCEPT ![p] = NR_OFILES]
    /\ proc_table_sl' = NoProc
    /\ Goto(p, "setfd")
    /\ UNCHANGED <<tabVars, open_files_sl, ino, file, paths, halted>>

\* All descriptors were used once: -1 is returned with the lock held.
FdgetNone(p) ==
    /\ At(p, "fdsearch")
    /\ NoFd(p) = {}
    /\ Goto(p, "nofd")
    /\ UNCHANGED <<tabVars, lockVars, locVars, halted>>

-----------------------------------------------------------------------------
(* sys_open(path, flags, mode) *)

\* namei(path) gives the inode of a file: its slot, if it has one ...
Named(n) == {s \in Slots : i_num[s] = n}
Unused == {s \in Slots : i_count[s] = 0}

NameiHit(p, n) ==
    /\ \E s \in Slots :
          /\ IsFirst(s, Named(n))
          /\ ino' = [ino EXCEPT ![p] = s]
    /\ UNCHANGED inoVars

\* ... or the first one whose count is 0, whose lock is made anew.
NameiTake(p, n) ==
    /\ Named(n) = {}
    /\ \E s \in Slots :
          /\ IsFirst(s, Unused)
          /\ ino' = [ino EXCEPT ![p] = s]
          /\ i_num' = [i_num EXCEPT ![s] = n]
          /\ i_count' = [i_count EXCEPT ![s] = (@ + 1) % 256]
          /\ i_sl' = [i_sl EXCEPT ![s] = NoProc]

\* A path is given to a call that goes on at label.
Namei(p, label) ==
    /\ At(p, "user")
    /\ paths < MaxPaths
    /\ paths' = paths + 1
    /\ \E n \in Inums : NameiHit(p, n) \/ NameiTake(p, n)
    /\ Goto(p, label)
    /\ UNCHANGED <<entVars, lockVars, file, fd, halted>>

NameiPanic(p) ==
    /\ At(p, "user")
    /\ paths < MaxPaths
    /\ \E n \in Inums : Named(n) = {}
    /\ Unused = {}
    /\ Panic("iget: no free inodes")
    /\ UNCHANGED tabVars

Open(p) == Namei(p, "mode")

OpenMode(p) ==
    /\ At(p, "mode")
    /\ Goto(p, IF i_num[ino[p]] \in Regular THEN "fget" ELSE "notreg")
    /\ UNCHANGED <<tabVars, lockVars, locVars, halted>>

\* iput(i) and panic, on the three ways sys_open fails.
IputAndPanic(p, label, why) ==
    /\ At(p, label)
    /\ i_sl[ino[p]] = NoProc
    /\ i_sl' = [i_sl EXCEPT ![ino[p]] = p]
    /\ Panic(why)
    /\ UNCHANGED <<f_inode, i_num, i_count, p_filp, opened>>

OpenNotRegular(p) ==
    /\ IputAndPanic(p, "notreg", "sys_open: this is not a regular file")
    /\ UNCHANGED f_count

OpenNoFile(p) ==
    /\ IputAndPanic(p, "nofile", "sys_open: cannot get file struct")
    /\ UNCHANGED f_count

OpenNoFd(p) ==
    /\ IputAndPanic(p, "nofd", "sys_open: cannot get a valid fd")
    /\ f_count' = [f_count EXCEPT ![file[p]] = (@ + 255) % 256]

OpenSetFd(p) ==
    /\ At(p, "setfd")
    /\ p_filp' = [p_filp EXCEPT ![p][fd[p]] = file[p]]
    /\ opened' = [opened EXCEPT ![p] = @ \cup {fd[p]}]
    /\ Goto(p, "user")
    /\ UNCHANGED <<f_count, f_inode, inoVars, lockVars, locVars, halted>>

-----------------------------------------------------------------------------
(* sys_close(fd) *)

\* The descriptor is looked up before the lock is taken.
Close(p) ==
    /\ At(p, "user")
    /\ \E d \in Fds :
          /\ p_filp[p][d] # NoFile
          /\ d \in opened[p] \/ p \in Careless
          /\ fd' = [fd EXCEPT ![p] = d]
          /\ file' = [file EXCEPT ![p] = p_filp[p][d]]
    /\ Goto(p, "close")
    /\ UNCHANGED <<tabVars, lockVars, ino, paths, halted>>

ClosePanic(p) ==
    /\ At(p, "user")
    /\ NoFd(p) # {}
    /\ Panic("sys_close: bad file table")
    /\ UNCHANGED tabVars

CloseAcquire(p) ==
    /\ At(p, "close")
    /\ open_files_sl = NoProc
    /\ open_files_sl' = p
    /\ Goto(p, "drop")
    /\ UNCHANGED <<tabVars, proc_table_sl, locVars, halted>>

\* Mistake: the entry is cleared by every close, not by the last one.
CloseDropClears(p) ==
    /\ At(p, "drop")
    /\ f_count' = [f_count EXCEPT ![file[p]] = (@ + 255) % 256]
    /\ opened' = [opened EXCEPT ![p] = @ \ {fd[p]}]
    /\ Goto(p, "put")
    /\ UNCHANGED <<f_inode, inoVars, p_filp, lockVars, locVars, halted>>

CloseDrop(p) ==
    /\ At(p, "drop")
    /\ f_count' = [f_count EXCEPT ![file[p]] = (@ + 255) % 256]
    /\ opened' = [opened EXCEPT ![p] = @ \ {fd[p]}]
    /\ IF f_count'[file[p]] = 0
       THEN Goto(p, "put") /\ UNCHANGED open_files_sl
       ELSE Goto(p, "user") /\ open_files_sl' = NoProc
    /\ UNCHANGED <<f_inode, inoVars, p_filp, proc_table_sl, locVars, halted>>

\* iput(f->f_inode), with open_files.sl held.
CloseIput(p) ==
    /\ At(p, "put")
    /\ f_inode[file[p]] # NoInode
    /\ i_sl[f_inode[file[p]]] = NoProc
    /\ i_sl' = [i_sl EXCEPT ![f_inode[file[p]]] = p]
    /\ Goto(p, "clear")
    /\ UNCHANGED <<entVars, i_num, i_count, lockVars, locVars, halted>>

CloseClear(p) ==
    /\ At(p, "clear")
    /\ f_inode' = [f_inode EXCEPT ![file[p]] = NoInode]
    /\ open_files_sl' = NoProc
    /\ Goto(p, "user")
    /\ UNCHANGED <<f_count, inoVars, p_filp, opened, proc_table_sl, locVars,
                   halted>>

-----------------------------------------------------------------------------
(* sys_stat(path, st) and sys_fstat(fd, st).  ilock takes no lock: the     *)
(* caller does not have the lock of the inode cache (inode.c:64-70).       *)

\* irelease(i), where i is slot s.  Who lowers the count has the lock.
Irelease(p, s) ==
    /\ IF i_sl[s] = p
       THEN /\ i_count' = [i_count EXCEPT ![s] = (@ + 255) % 256]
            /\ i_sl' = [i_sl EXCEPT ![s] = NoProc]
       ELSE UNCHANGED <<i_count, i_sl>>
    /\ UNCHANGED <<entVars, i_num, lockVars, locVars, halted>>

Stat(p) == Namei(p, "stat")

StatIput(p) ==
    /\ At(p, "stat")
    /\ i_sl[ino[p]] = NoProc
    /\ i_sl' = [i_sl EXCEPT ![ino[p]] = p]
    /\ Goto(p, "irelease")
    /\ UNCHANGED <<entVars, i_num, i_count, lockVars, locVars, halted>>

StatIrelease(p) ==
    /\ At(p, "irelease")
    /\ Irelease(p, ino[p])
    /\ Goto(p, "user")

\* sys_fstat does not call iput: the caller has the lock only if its own
\* sys_close left it taken.
Fstat(p) ==
    /\ At(p, "user")
    /\ \E d \in Fds :
          /\ p_filp[p][d] # NoFile
          /\ f_inode[p_filp[p][d]] # NoInode
          /\ Irelease(p, f_inode[p_filp[p][d]])
    /\ UNCHANGED fpc

FstatPanic(p) ==
    /\ At(p, "user")
    /\ \E d \in Fds : /\ p_filp[p][d] # NoFile
                      /\ f_inode[p_filp[p][d]] = NoInode
    /\ Panic("sys_fstat: cannot get inode")
    /\ UNCHANGED tabVars

-----------------------------------------------------------------------------
\* What a process does in the kernel once it called.
Run(p) ==
    \/ FgetAcquire(p) \/ FgetFault(p) \/ FgetFound(p) \/ FgetEmpty(p)
    \/ FgetFull(p) \/ FgetShare(p) \/ FgetTake(p)
    \/ FdgetAcquire(p) \/ FdgetFound(p) \/ FdgetNone(p)
    \/ OpenMode(p) \/ OpenNotRegular(p) \/ OpenNoFile(p) \/ OpenNoFd(p)
    \/ OpenSetFd(p)
    \/ CloseAcquire(p) \/ CloseDrop(p) \/ CloseIput(p) \/ CloseClear(p)
    \/ StatIput(p) \/ StatIrelease(p)

Call(p) ==
    \/ Open(p) \/ Stat(p) \/ NameiPanic(p)
    \/ Close(p) \/ ClosePanic(p)
    \/ Fstat(p) \/ FstatPanic(p)

Next == \E p \in Procs : Call(p) \/ Run(p)

Spec == Init /\ [][Next]_vars

\* A process in the kernel keeps running; it need not make another call.
LiveSpec == Spec /\ \A p \in Procs : WF_vars(Run(p))

-----------------------------------------------------------------------------
\* fget looks for an entry and fills one under one hold of open_files.sl
\* (open_close.c:98-120), so a file never gets two entries.
UniqueFiles ==
    \A f, g \in Files :
        f # g /\ f_inode[f] # NoInode /\ f_inode[g] # NoInode
            => i_num[f_inode[f]] # i_num[f_inode[g]]

\* f_count is "# of procs using this file" (fs.h:154), as a u8_t: the
\* descriptors open on it and the processes about to make one, if none closes a
\* descriptor twice.  The lock-free decrement of sys_open (open_close.c:48)
\* only precedes a panic.
Making(f) == {p \in Procs : /\ fpc[p] \in {"fdget", "fdsearch", "setfd", "nofd"}
                            /\ file[p] = f}
Using(f) == {pd \in Procs \X Fds : /\ pd[2] \in opened[pd[1]]
                                   /\ p_filp[pd[1]][pd[2]] = f}
Users(f) == Cardinality(Making(f)) + Cardinality(Using(f))
CountIsUsers ==
    halted = "no" => \A f \in Files : f_count[f] = Users(f) % 256

\* An open descriptor keeps its entry, and the entry its inode in memory, while
\* others open, share and close entries (open_close.c:67-123); and the inode in
\* memory stays that of the file as long as its count, which only irelease
\* lowers, is not 0 (inode.c:26-38).
KeepsInode ==
    \A p \in Procs : \A d \in opened[p] \cap opened'[p] :
        LET f == p_filp[p][d]
        IN  /\ f_inode[f] # NoInode
            /\ p_filp'[p][d] = f
            /\ f_inode'[f] = f_inode[f]
            /\ i_count[f_inode[f]] # 0 => i_num'[f_inode[f]] = i_num[f_inode[f]]
OpenKeepsInode == [][KeepsInode]_vars

\* An open descriptor keeps the file it was opened for, whatever is called
\* while it is open: i_count is the "# of procs using this inode" (fs.h:120),
\* and this process is one of them.  The code violates this (FileStat.cfg).
KeepsFile ==
    \A p \in Procs : \A d \in opened[p] \cap opened'[p] :
        LET s == f_inode[p_filp[p][d]]
        IN  s # NoInode => i_num'[s] = i_num[s]
OpenKeepsFile == [][KeepsFile]_vars

\* sys_close comes back, with "0 if the close succeeded, a negative value
\* otherwise" (open_close.c:65), or the kernel stopped.
CloseReturns ==
    \A p \in Procs : (fpc[p] = "close") ~> (fpc[p] = "user" \/ halted # "no")
=============================================================================
