----------------------------- MODULE InodeCache -----------------------------
(***************************************************************************)
(* The inode cache of the kernel (kernel/fs/inode.c) over the buffer       *)
(* cache, used by sys_stat (kernel/fs/stat.c) through namei and dir_lookup *)
(* (kernel/fs/namei.c).                                                    *)
(*                                                                         *)
(* A process walks a path one dir_lookup at a time; each reads blocks of a *)
(* directory until one holds the entry and calls iget on its inode number. *)
(* At the end of the path it copies the inode to the caller, and calls     *)
(* iput and irelease.  A call of bread is a step of this module that       *)
(* starts the process in BufferCache; the next step of this module waits   *)
(* until the process holds the buffer.                                     *)
(*                                                                         *)
(* What a directory contains is left open: any block may hold the entry    *)
(* looked for, with any of Entries.  Nothing in the repository sets the  *)
(* dirty flag of an inode, so iput is modelled for the clean inode it      *)
(* always gets.  One device, so i_dev is left out.                         *)
(***************************************************************************)
EXTENDS BufferCache

CONSTANTS
    NR_INODE,   \* number of inodes in memory (param.h:11)
    Inums,      \* inode numbers, 0 the number of an unused slot
    Entries,    \* the numbers directory entries give
    InoBlk,     \* the block of the inode table an inode is in
    DirBlocks,  \* blocks of directories
    NDIRECT,    \* blocks dir_lookup looks at (param.h:17)
    MaxLookups  \* bound: dir_lookup calls by one process

ASSUME NrInodeAssumption == NR_INODE \in Nat \ {0}
ASSUME InumsAssumption == 0 \in Inums
ASSUME EntriesAssumption == Entries \subseteq Inums
ASSUME InoBlkAssumption == InoBlk \in [Inums -> Blocks]
ASSUME DirBlocksAssumption == DirBlocks \subseteq Blocks
ASSUME NDirectAssumption == NDIRECT \in Nat \ {0}
ASSUME MaxLookupsAssumption == MaxLookups \in Nat

VARIABLES
    i_num,      \* [ISlots -> Inums]    inode number
    i_rec,      \* [ISlots -> Records]  the on-disk fields
    i_count,    \* [ISlots -> 0..255]   u8_t use count
    i_sl,       \* [ISlots -> holder]   lock of one inode
    icache_sl,  \* holder               lock of the table
    ipc,        \* [Procs -> ILabels]   where a process is
    iwant,      \* [Procs -> Inums]     argument of iget
    icur,       \* [Procs -> ISlots]    the inode in hand, free in iget
    ireg,       \* [Procs -> 0..255]    i_count as last loaded
    left,       \* [Procs -> 0..NDIRECT] blocks dir_lookup has left
    lookups     \* [Procs -> 0..MaxLookups] dir_lookup calls made

inoVars == <<i_num, i_rec, i_count, i_sl, icache_sl>>
locVars == <<iwant, icur, ireg, left, lookups>>
ivars == <<bufVars, inoVars, ipc, locVars>>

ISlots == 0..(NR_INODE - 1)

\* A record is what memcpy found at the place of an inode in a block.
Record(d, ino) == [data |-> d, ino |-> ino]
Records == [data : Data, ino : Inums]

ILabels == {"user", "lookup", "scan", "next", "iget", "ifind",
            "icopy", "iname", "iload", "iincr", "ibrel", "ifree", "have",
            "stat", "iput", "irelease", "irelload", "ireldec"}

InoTypeOK ==
    /\ i_num \in [ISlots -> Inums]
    /\ i_rec \in [ISlots -> Records]
    /\ i_count \in [ISlots -> Byte]
    /\ i_sl \in [ISlots -> Holders]
    /\ icache_sl \in Holders
    /\ ipc \in [Procs -> ILabels]
    /\ iwant \in [Procs -> Inums]
    /\ icur \in [Procs -> ISlots]
    /\ ireg \in [Procs -> Byte]
    /\ left \in [Procs -> 0..NDIRECT]
    /\ lookups \in [Procs -> 0..MaxLookups]

ITypeOK == BufTypeOK /\ InoTypeOK

NoRecord == Record(Zeros, 0)

IInit ==
    /\ BufInit
    /\ i_num = [s \in ISlots |-> 0]
    /\ i_rec = [s \in ISlots |-> NoRecord]
    /\ i_count = [s \in ISlots |-> 0]
    /\ i_sl = [s \in ISlots |-> NoProc]
    /\ icache_sl = NoProc
    /\ ipc = [p \in Procs |-> "user"]
    /\ iwant = [p \in Procs |-> 0]
    /\ icur = [p \in Procs |-> 0]
    /\ ireg = [p \in Procs |-> 0]
    /\ left = [p \in Procs |-> 0]
    /\ lookups = [p \in Procs |-> 0]

IAt(p, label) == halted = "no" /\ ipc[p] = label
IGoto(p, label) == ipc' = [ipc EXCEPT ![p] = label]

INamed(ino) == {s \in ISlots : i_num[s] = ino}
IUnused == {s \in ISlots : i_count[s] = 0}

-----------------------------------------------------------------------------
(* namei(path) and dir_lookup(ip, entry, esize) *)

\* sys_stat calls namei, or namei goes on to the next component of the path:
\* the inode of the directory it leaves is not released.
Lookup(p) ==
    /\ IAt(p, "user") \/ IAt(p, "have")
    /\ lookups[p] < MaxLookups
    /\ lookups' = [lookups EXCEPT ![p] = @ + 1]
    /\ left' = [left EXCEPT ![p] = NDIRECT]
    /\ IGoto(p, "lookup")
    /\ UNCHANGED <<bufVars, inoVars, iwant, icur, ireg>>

\* The path "/" is looked up nowhere: the inode is that in slot 0, whatever was
\* read into it.
LookupRoot(p) ==
    /\ IAt(p, "user")
    /\ lookups[p] < MaxLookups
    /\ lookups' = [lookups EXCEPT ![p] = @ + 1]
    /\ iwant' = [iwant EXCEPT ![p] = 0]
    /\ icur' = [icur EXCEPT ![p] = 0]
    /\ IGoto(p, "have")
    /\ UNCHANGED <<bufVars, inoVars, ireg, left>>

\* Nor is the empty path, for which it is the working directory's: nothing in
\* the repository sets p_cwd, and namei panics on NULL.
LookupCwd(p) ==
    /\ IAt(p, "user")
    /\ halted' = "namei: entry not found"
    /\ UNCHANGED <<slotVars, buffer_sl, disk, bpc, want, cur, reg, inoVars,
                   ipc, locVars>>

LookupBread(p) ==
    /\ IAt(p, "lookup")
    /\ left[p] > 0
    /\ \E blk \in DirBlocks : Bread(p, blk)
    /\ left' = [left EXCEPT ![p] = @ - 1]
    /\ IGoto(p, "scan")
    /\ UNCHANGED <<inoVars, iwant, icur, ireg, lookups>>

\* The entry is in this block: on to iget, the buffer not released.
LookupFound(p) ==
    /\ IAt(p, "scan")
    /\ Forget(p)
    /\ \E ino \in Entries : iwant' = [iwant EXCEPT ![p] = ino]
    /\ IGoto(p, "iget")
    /\ UNCHANGED <<inoVars, icur, ireg, left, lookups>>

LookupNext(p) ==
    /\ IAt(p, "scan")
    /\ Brelease(p)
    /\ IGoto(p, "next")
    /\ UNCHANGED <<inoVars, locVars>>

LookupLoop(p) ==
    /\ IAt(p, "next")
    /\ bpc[p] = "idle"
    /\ IGoto(p, "lookup")
    /\ UNCHANGED <<bufVars, inoVars, locVars>>

LookupPanic(p) ==
    /\ IAt(p, "lookup")
    /\ left[p] = 0
    /\ halted' = "namei: entry not found"
    /\ UNCHANGED <<slotVars, buffer_sl, disk, bpc, want, cur, reg, inoVars,
                   ipc, locVars>>

-----------------------------------------------------------------------------
(* iget(dev, ino) *)

IgetAcquire(p) ==
    /\ IAt(p, "iget")
    /\ icache_sl = NoProc
    /\ icache_sl' = p
    /\ IGoto(p, "ifind")
    /\ UNCHANGED <<bufVars, i_num, i_rec, i_count, i_sl, locVars>>

\* Cached: returned as it is, its count not raised.
IgetHit(p) ==
    /\ IAt(p, "ifind")
    /\ \E s \in ISlots :
          /\ IsFirst(s, INamed(iwant[p]))
          /\ icur' = [icur EXCEPT ![p] = s]
    /\ icache_sl' = NoProc
    /\ IGoto(p, "have")
    /\ UNCHANGED <<bufVars, i_num, i_rec, i_count, i_sl, iwant, ireg, left,
                   lookups>>

\* Mistake: no spinlock over a disk read, icache.sl is released before bread.
IgetBreadUnlocked(p) ==
    /\ IAt(p, "ifind")
    /\ INamed(iwant[p]) = {}
    /\ \E s \in ISlots :
          /\ IsFirst(s, IUnused)
          /\ icur' = [icur EXCEPT ![p] = s]
    /\ Bread(p, InoBlk[iwant[p]])
    /\ icache_sl' = NoProc
    /\ IGoto(p, "icopy")
    /\ UNCHANGED <<i_num, i_rec, i_count, i_sl, iwant, ireg, left, lookups>>

\* Not cached: the first unused slot is filled from the inode table, which is
\* read with icache.sl held.
IgetBread(p) ==
    /\ IAt(p, "ifind")
    /\ INamed(iwant[p]) = {}
    /\ \E s \in ISlots :
          /\ IsFirst(s, IUnused)
          /\ icur' = [icur EXCEPT ![p] = s]
    /\ Bread(p, InoBlk[iwant[p]])
    /\ IGoto(p, "icopy")
    /\ UNCHANGED <<inoVars, iwant, ireg, left, lookups>>

\* Mistake: no panic, the loop's i is returned, one past the table.
IgetPastTable(p) ==
    /\ IAt(p, "ifind")
    /\ INamed(iwant[p]) = {}
    /\ IUnused = {}
    /\ icur' = [icur EXCEPT ![p] = NR_INODE]
    /\ icache_sl' = NoProc
    /\ IGoto(p, "have")
    /\ UNCHANGED <<bufVars, i_num, i_rec, i_count, i_sl, iwant, ireg, left,
                   lookups>>

IgetPanic(p) ==
    /\ IAt(p, "ifind")
    /\ INamed(iwant[p]) = {}
    /\ IUnused = {}
    /\ halted' = "iget: no free inodes"
    /\ UNCHANGED <<slotVars, buffer_sl, disk, bpc, want, cur, reg, inoVars,
                   ipc, locVars>>

IgetCopy(p) ==
    /\ IAt(p, "icopy")
    /\ bpc[p] = "holding"
    /\ i_rec' = [i_rec EXCEPT ![icur[p]] = Record(b_data[cur[p]], iwant[p])]
    /\ IGoto(p, "iname")
    /\ UNCHANGED <<bufVars, i_num, i_count, i_sl, icache_sl, locVars>>

IgetName(p) ==
    /\ IAt(p, "iname")
    /\ i_num' = [i_num EXCEPT ![icur[p]] = iwant[p]]
    /\ IGoto(p, "iload")
    /\ UNCHANGED <<bufVars, i_rec, i_count, i_sl, icache_sl, locVars>>

IgetLoad(p) ==
    /\ IAt(p, "iload")
    /\ ireg' = [ireg EXCEPT ![p] = i_count[icur[p]]]
    /\ IGoto(p, "iincr")
    /\ UNCHANGED <<bufVars, inoVars, iwant, icur, left, lookups>>

\* The count is stored and the lock of the inode made anew.
IgetIncr(p) ==
    /\ IAt(p, "iincr")
    /\ i_count' = [i_count EXCEPT ![icur[p]] = Inc(ireg[p])]
    /\ ireg' = [ireg EXCEPT ![p] = 0]
    /\ i_sl' = [i_sl EXCEPT ![icur[p]] = NoProc]
    /\ IGoto(p, "ibrel")
    /\ UNCHANGED <<bufVars, i_num, i_rec, icache_sl, iwant, icur,
                   left, lookups>>

IgetBrelease(p) ==
    /\ IAt(p, "ibrel")
    /\ Brelease(p)
    /\ IGoto(p, "ifree")
    /\ UNCHANGED <<inoVars, locVars>>

IgetRelease(p) ==
    /\ IAt(p, "ifree")
    /\ bpc[p] = "idle"
    /\ icache_sl' = NoProc
    /\ IGoto(p, "have")
    /\ UNCHANGED <<bufVars, i_num, i_rec, i_count, i_sl, locVars>>

-----------------------------------------------------------------------------
(* sys_stat(path, st), from namei's return on.  ilock asks whether the table *)
(* is locked by the caller, which it never is: no lock is taken.             *)

Stat(p) ==
    /\ IAt(p, "have")
    /\ IGoto(p, "stat")
    /\ UNCHANGED <<bufVars, inoVars, locVars>>

\* The fields of the inode in hand are copied to the caller's struct stat.
StatCopy(p) ==
    /\ IAt(p, "stat")
    /\ IGoto(p, "iput")
    /\ UNCHANGED <<bufVars, inoVars, locVars>>

\* iput of a clean inode: takes its lock, and returns with it.
Iput(p) ==
    /\ IAt(p, "iput")
    /\ i_sl[icur[p]] = NoProc
    /\ i_sl' = [i_sl EXCEPT ![icur[p]] = p]
    /\ IGoto(p, "irelease")
    /\ UNCHANGED <<bufVars, i_num, i_rec, i_count, icache_sl, locVars>>

\* irelease drops the count and the lock if the caller still has the lock:
\* iget may have made it anew for another inode.
Irelease(p) ==
    /\ IAt(p, "irelease")
    /\ IGoto(p, IF i_sl[icur[p]] = p THEN "irelload" ELSE "user")
    /\ UNCHANGED <<bufVars, inoVars, locVars>>

IreleaseLoad(p) ==
    /\ IAt(p, "irelload")
    /\ ireg' = [ireg EXCEPT ![p] = i_count[icur[p]]]
    /\ IGoto(p, "ireldec")
    /\ UNCHANGED <<bufVars, inoVars, iwant, icur, left, lookups>>

\* Mistake: the count is dropped, the lock iput took is not.
IreleaseKeepsLock(p) ==
    /\ IAt(p, "ireldec")
    /\ i_count' = [i_count EXCEPT ![icur[p]] = Dec(ireg[p])]
    /\ ireg' = [ireg EXCEPT ![p] = 0]
    /\ IGoto(p, "user")
    /\ UNCHANGED <<bufVars, i_num, i_rec, i_sl, icache_sl, iwant, icur, left,
                   lookups>>

IreleaseDec(p) ==
    /\ IAt(p, "ireldec")
    /\ i_count' = [i_count EXCEPT ![icur[p]] = Dec(ireg[p])]
    /\ ireg' = [ireg EXCEPT ![p] = 0]
    /\ i_sl' = [i_sl EXCEPT ![icur[p]] = NoProc]
    /\ IGoto(p, "user")
    /\ UNCHANGED <<bufVars, i_num, i_rec, icache_sl, iwant, icur,
                   left, lookups>>

-----------------------------------------------------------------------------
NameiStep(p) ==
    \/ LookupBread(p) \/ LookupFound(p) \/ LookupNext(p) \/ LookupLoop(p)
    \/ LookupPanic(p)

IgetStep(p) ==
    \/ IgetAcquire(p) \/ IgetHit(p) \/ IgetBread(p) \/ IgetPanic(p)
    \/ IgetCopy(p) \/ IgetName(p) \/ IgetLoad(p) \/ IgetIncr(p)
    \/ IgetBrelease(p) \/ IgetRelease(p)

StatStep(p) ==
    \/ Stat(p) \/ StatCopy(p) \/ Iput(p) \/ Irelease(p)
    \/ IreleaseLoad(p) \/ IreleaseDec(p)

\* A step of a process in bread: the inode cache is not touched.
BufferStep(p) == BreadStep(p) /\ UNCHANGED <<inoVars, ipc, locVars>>

INext == \E p \in Procs :
    \/ Lookup(p) \/ LookupRoot(p) \/ LookupCwd(p)
    \/ NameiStep(p) \/ IgetStep(p) \/ StatStep(p) \/ BufferStep(p)

\* A process in the kernel keeps running until its sys_stat returns.
IFairness == \A p \in Procs :
    WF_ivars(NameiStep(p) \/ IgetStep(p) \/ StatStep(p) \/ BufferStep(p))

ISpec == IInit /\ [][INext]_ivars

ILiveSpec == ISpec /\ IFairness

-----------------------------------------------------------------------------
\* "There is only one structure for each file" (fs.h:97-99): iget looks for an
\* inode, reads it and names its slot under one hold of icache.sl
\* (inode.c:20-41).  Number 0 is left out, it names every unused slot.
UniqueInodes ==
    \A s, t \in ISlots : s # t /\ i_num[s] = i_num[t] => i_num[s] = 0

\* sys_stat returns, or the kernel stopped: icache.sl, held over a bread, is
\* given back, and the inode lock iput keeps is freed by irelease
\* (inode.c:15-83, stat.c:6-37).
StatReturns ==
    \A p \in Procs : (ipc[p] = "lookup") ~> (ipc[p] = "user" \/ halted # "no")

\* sys_stat copies out "the requested information about a file" (fs.h:196-199):
\* while it does, the inode in hand is the one looked up, with the record the
\* inode table has for it.  The path "/" looks none up.
StatIsTheFile ==
    \A p \in Procs : ipc[p] = "stat" /\ iwant[p] # 0 =>
        /\ i_num[icur[p]] = iwant[p]
        /\ i_rec[icur[p]] = Record(disk[InoBlk[iwant[p]]], iwant[p])
=============================================================================
