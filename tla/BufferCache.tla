---------------------------- MODULE BufferCache ----------------------------
(***************************************************************************)
(* The block buffer cache of the kernel (kernel/fs/block.c).               *)
(*                                                                         *)
(* bread, bwrite, brelease and bget as they run when several processes are *)
(* in the kernel at once.  The table buffer.blocks is the functions b_blk, *)
(* b_dirty, b_count, b_data and b_sl over Slots.  A process is at one      *)
(* label of the code, bpc[p]; want[p] is the argument of its bread, cur[p] *)
(* the struct buffer * it works on and reg[p] the register in which        *)
(* b_count++ and b_count-- hold the value they read: the count is not      *)
(* protected by a lock, so the read and the write of it are two steps (the *)
(* register is 0 whenever it is dead).                                     *)
(*                                                                         *)
(* One device is modelled, so b_dev is the same everywhere and left out.   *)
(* acquire, release and initlock have no body in the repository: a         *)
(* spinlock is modelled as its holder or NoProc, the mutual exclusion      *)
(* lock locks.h:6 says it is.                                              *)
(***************************************************************************)
EXTENDS Naturals

CONSTANTS
    Procs,      \* processes running kernel code
    NoProc,     \* the holder of a free spinlock
    NR_BUF,     \* number of buffers (param.h:13)
    Blocks,     \* block numbers of the device
    Zero,       \* block number 0, the name of an unused buffer
    Data,       \* contents of a block, as far as they are told apart
    Zeros       \* a block of zero bytes

ASSUME NoProcAssumption == NoProc \notin Procs
ASSUME NrBufAssumption == NR_BUF \in Nat \ {0}
ASSUME BlocksAssumption == Zero \in Blocks
ASSUME DataAssumption == Zeros \in Data

VARIABLES
    b_blk,      \* [Slots -> Blocks]          block number
    b_dirty,    \* [Slots -> BOOLEAN]         dirty bit
    b_count,    \* [Slots -> 0..255]          u8_t use count
    b_data,     \* [Slots -> Data]            contents
    b_sl,       \* [Slots -> holder]          lock of one buffer
    buffer_sl,  \* holder                     lock of the table
    disk,       \* [Blocks -> Data]           the device
    bpc,        \* [Procs -> BLabels]         where a process is
    want,       \* [Procs -> Blocks]          argument of bread
    cur,        \* [Procs -> Slots]           the buffer in hand
    reg,        \* [Procs -> 0..255]          b_count as last loaded
    halted      \* why the kernel stopped, or "no"

slotVars == <<b_blk, b_dirty, b_count, b_data, b_sl>>
bufVars == <<slotVars, buffer_sl, disk, bpc, want, cur, reg, halted>>

Slots == 0..(NR_BUF - 1)
Holders == Procs \cup {NoProc}
Byte == 0..255

\* Where a process is: outside, in bget, in the rest of bread, holding the
\* buffer bread returned, in bwrite, in brelease.
BLabels == {"idle", "bget", "find", "take", "check", "read", "load", "incr",
            "holding", "bwrite", "test", "wdisk", "bwload", "bwdec", "bwtest",
            "unname", "zero", "relload", "reldec"}

\* Running, stopped by a panic of the file system, or faulted.
Halts == {"no", "fault", "bget: no buffer available", "brelease: unused buffer",
          "iget: no free inodes", "namei: entry not found"}

BufTypeOK ==
    /\ b_blk \in [Slots -> Blocks]
    /\ b_dirty \in [Slots -> BOOLEAN]
    /\ b_count \in [Slots -> Byte]
    /\ b_data \in [Slots -> Data]
    /\ b_sl \in [Slots -> Holders]
    /\ buffer_sl \in Holders
    /\ disk \in [Blocks -> Data]
    /\ bpc \in [Procs -> BLabels]
    /\ want \in [Procs -> Blocks]
    /\ cur \in [Procs -> Slots]
    /\ reg \in [Procs -> Byte]
    /\ halted \in Halts

\* The static table starts zeroed; the device holds anything.
BufInit ==
    /\ b_blk = [s \in Slots |-> Zero]
    /\ b_dirty = [s \in Slots |-> FALSE]
    /\ b_count = [s \in Slots |-> 0]
    /\ b_data = [s \in Slots |-> Zeros]
    /\ b_sl = [s \in Slots |-> NoProc]
    /\ buffer_sl = NoProc
    /\ disk \in [Blocks -> Data]
    /\ bpc = [p \in Procs |-> "idle"]
    /\ want = [p \in Procs |-> Zero]
    /\ cur = [p \in Procs |-> 0]
    /\ reg = [p \in Procs |-> 0]
    /\ halted = "no"

-----------------------------------------------------------------------------
At(p, label) == halted = "no" /\ bpc[p] = label
Goto(p, label) == bpc' = [bpc EXCEPT ![p] = label]

Inc(c) == (c + 1) % 256
Dec(c) == (c + 255) % 256

\* The slot a loop over the table that stops at the first hit returns.
IsFirst(s, S) == s \in S /\ \A t \in S : s <= t

Named(blk) == {s \in Slots : b_blk[s] = blk}
Unused == {s \in Slots : b_count[s] = 0}

-----------------------------------------------------------------------------
(* bread(dev, blk) and bget(dev, blk) *)

\* A caller enters bread.
Bread(p, blk) ==
    /\ At(p, "idle")
    /\ want' = [want EXCEPT ![p] = blk]
    /\ Goto(p, "bget")
    /\ UNCHANGED <<slotVars, buffer_sl, disk, cur, reg, halted>>

BgetAcquire(p) ==
    /\ At(p, "bget")
    /\ buffer_sl = NoProc
    /\ buffer_sl' = p
    /\ Goto(p, "find")
    /\ UNCHANGED <<slotVars, disk, want, cur, reg, halted>>

\* Mistake: bget returns a hit without release(buffer.sl).
BgetHitKeepsLock(p) ==
    /\ At(p, "find")
    /\ \E s \in Slots :
          /\ IsFirst(s, Named(want[p]))
          /\ cur' = [cur EXCEPT ![p] = s]
    /\ Goto(p, "check")
    /\ UNCHANGED <<slotVars, buffer_sl, disk, want, reg, halted>>

\* A buffer has the name asked for, whatever its count: release and return it.
BgetHit(p) ==
    /\ At(p, "find")
    /\ \E s \in Slots :
          /\ IsFirst(s, Named(want[p]))
          /\ cur' = [cur EXCEPT ![p] = s]
    /\ buffer_sl' = NoProc
    /\ Goto(p, "check")
    /\ UNCHANGED <<slotVars, disk, want, reg, halted>>

\* Mistake: the search and the renaming each take buffer.sl for themselves.
BgetMissUnlocks(p) ==
    /\ At(p, "find")
    /\ Named(want[p]) = {}
    /\ buffer_sl' = NoProc
    /\ Goto(p, "take")
    /\ UNCHANGED <<slotVars, disk, want, cur, reg, halted>>

BgetMiss(p) ==
    /\ At(p, "find")
    /\ Named(want[p]) = {}
    /\ Goto(p, "take")
    /\ UNCHANGED <<slotVars, buffer_sl, disk, want, cur, reg, halted>>

\* Mistake: the buffer is renamed without initlock.
BgetTakeKeepsLock(p) ==
    /\ At(p, "take")
    /\ \E s \in Slots :
          /\ IsFirst(s, Unused)
          /\ cur' = [cur EXCEPT ![p] = s]
          /\ b_blk' = [b_blk EXCEPT ![s] = want[p]]
          /\ b_dirty' = [b_dirty EXCEPT ![s] = FALSE]
    /\ buffer_sl' = NoProc
    /\ Goto(p, "check")
    /\ UNCHANGED <<b_count, b_data, b_sl, disk, want, reg, halted>>

\* The first unused buffer is renamed, its count still 0, and returned.
BgetTake(p) ==
    /\ At(p, "take")
    /\ \E s \in Slots :
          /\ IsFirst(s, Unused)
          /\ cur' = [cur EXCEPT ![p] = s]
          /\ b_blk' = [b_blk EXCEPT ![s] = want[p]]
          /\ b_dirty' = [b_dirty EXCEPT ![s] = FALSE]
          /\ b_sl' = [b_sl EXCEPT ![s] = NoProc]
    /\ buffer_sl' = NoProc
    /\ Goto(p, "check")
    /\ UNCHANGED <<b_count, b_data, disk, want, reg, halted>>

\* Mistake: no panic, the loop's b is returned, one past the table.
BgetPastTable(p) ==
    /\ At(p, "take")
    /\ Unused = {}
    /\ cur' = [cur EXCEPT ![p] = NR_BUF]
    /\ buffer_sl' = NoProc
    /\ Goto(p, "check")
    /\ UNCHANGED <<slotVars, disk, want, reg, halted>>

\* The table is full of counted buffers: panic with buffer.sl held.
BgetPanic(p) ==
    /\ At(p, "take")
    /\ Unused = {}
    /\ halted' = "bget: no buffer available"
    /\ UNCHANGED <<slotVars, buffer_sl, disk, bpc, want, cur, reg>>

\* Mistake: a cached buffer is filled and counted again.
BreadCheckAgain(p) ==
    /\ At(p, "check")
    /\ Goto(p, "read")
    /\ UNCHANGED <<slotVars, buffer_sl, disk, want, cur, reg, halted>>

\* Back in bread, no lock held: a counted buffer is taken as filled.
BreadCheck(p) ==
    /\ At(p, "check")
    /\ Goto(p, IF b_count[cur[p]] = 0 THEN "read" ELSE "holding")
    /\ UNCHANGED <<slotVars, buffer_sl, disk, want, cur, reg, halted>>

\* disk_read fills the buffer from the block it is named after now.
BreadRead(p) ==
    /\ At(p, "read")
    /\ b_data' = [b_data EXCEPT ![cur[p]] = disk[b_blk[cur[p]]]]
    /\ Goto(p, "load")
    /\ UNCHANGED <<b_blk, b_dirty, b_count, b_sl, buffer_sl, disk, want, cur,
                   reg, halted>>

BreadLoad(p) ==
    /\ At(p, "load")
    /\ reg' = [reg EXCEPT ![p] = b_count[cur[p]]]
    /\ Goto(p, "incr")
    /\ UNCHANGED <<slotVars, buffer_sl, disk, want, cur, halted>>

BreadIncr(p) ==
    /\ At(p, "incr")
    /\ b_count' = [b_count EXCEPT ![cur[p]] = Inc(reg[p])]
    /\ reg' = [reg EXCEPT ![p] = 0]
    /\ Goto(p, "holding")
    /\ UNCHANGED <<b_blk, b_dirty, b_data, b_sl, buffer_sl, disk, want, cur,
                   halted>>

-----------------------------------------------------------------------------
(* What the callers of bread do with the buffer it returned *)

\* Change the contents (iput, ifree, sys_write).
Write(p, d) ==
    /\ At(p, "holding")
    /\ b_data' = [b_data EXCEPT ![cur[p]] = d]
    /\ UNCHANGED <<b_blk, b_dirty, b_count, b_sl, buffer_sl, disk, bpc, want,
                   cur, reg, halted>>

\* Set the dirty bit (sys_write, when a block is full).
MarkDirty(p) ==
    /\ At(p, "holding")
    /\ b_dirty' = [b_dirty EXCEPT ![cur[p]] = TRUE]
    /\ UNCHANGED <<b_blk, b_count, b_data, b_sl, buffer_sl, disk, bpc, want,
                   cur, reg, halted>>

\* Drop the pointer without brelease (dir_lookup that found its entry, the
\* last block of sys_read and sys_write).
Forget(p) ==
    /\ At(p, "holding")
    /\ Goto(p, "idle")
    /\ UNCHANGED <<slotVars, buffer_sl, disk, want, cur, reg, halted>>

-----------------------------------------------------------------------------
(* brelease(b) *)

BreleasePanic(p) ==
    /\ At(p, "holding")
    /\ b_count[cur[p]] = 0
    /\ halted' = "brelease: unused buffer"
    /\ UNCHANGED <<slotVars, buffer_sl, disk, bpc, want, cur, reg>>

\* The caller does not hold the lock of the buffer: nothing is released.
BreleaseKept(p) ==
    /\ At(p, "holding")
    /\ b_count[cur[p]] # 0
    /\ b_sl[cur[p]] # p
    /\ Goto(p, "idle")
    /\ UNCHANGED <<slotVars, buffer_sl, disk, want, cur, reg, halted>>

\* It holds it, from an earlier bwrite: the count is dropped, the lock freed.
BreleaseHeld(p) ==
    /\ At(p, "holding")
    /\ b_count[cur[p]] # 0
    /\ b_sl[cur[p]] = p
    /\ Goto(p, "relload")
    /\ UNCHANGED <<slotVars, buffer_sl, disk, want, cur, reg, halted>>

BreleaseLoad(p) ==
    /\ At(p, "relload")
    /\ reg' = [reg EXCEPT ![p] = b_count[cur[p]]]
    /\ Goto(p, "reldec")
    /\ UNCHANGED <<slotVars, buffer_sl, disk, want, cur, halted>>

BreleaseDec(p) ==
    /\ At(p, "reldec")
    /\ b_count' = [b_count EXCEPT ![cur[p]] = Dec(reg[p])]
    /\ reg' = [reg EXCEPT ![p] = 0]
    /\ b_sl' = [b_sl EXCEPT ![cur[p]] = NoProc]
    /\ Goto(p, "idle")
    /\ UNCHANGED <<b_blk, b_dirty, b_data, buffer_sl, disk, want, cur,
                   halted>>

-----------------------------------------------------------------------------
(* bwrite(b) *)

Bwrite(p) ==
    /\ At(p, "holding")
    /\ Goto(p, "bwrite")
    /\ UNCHANGED <<slotVars, buffer_sl, disk, want, cur, reg, halted>>

BwriteAcquire(p) ==
    /\ At(p, "bwrite")
    /\ b_sl[cur[p]] = NoProc
    /\ b_sl' = [b_sl EXCEPT ![cur[p]] = p]
    /\ Goto(p, "test")
    /\ UNCHANGED <<b_blk, b_dirty, b_count, b_data, buffer_sl, disk, want, cur,
                   reg, halted>>

BwriteClean(p) ==
    /\ At(p, "test")
    /\ ~b_dirty[cur[p]]
    /\ b_sl' = [b_sl EXCEPT ![cur[p]] = NoProc]
    /\ Goto(p, "idle")
    /\ UNCHANGED <<b_blk, b_dirty, b_count, b_data, buffer_sl, disk, want, cur,
                   reg, halted>>

\* From here on the lock is never released and the dirty bit never cleared.
BwriteDirty(p) ==
    /\ At(p, "test")
    /\ b_dirty[cur[p]]
    /\ Goto(p, "wdisk")
    /\ UNCHANGED <<slotVars, buffer_sl, disk, want, cur, reg, halted>>

\* Mistake: a dirty buffer is dropped without disk_write.
BwriteDropsData(p) ==
    /\ At(p, "wdisk")
    /\ Goto(p, "bwload")
    /\ UNCHANGED <<slotVars, buffer_sl, disk, want, cur, reg, halted>>

\* disk_write: to the block the buffer is named after now.
BwriteDisk(p) ==
    /\ At(p, "wdisk")
    /\ disk' = [disk EXCEPT ![b_blk[cur[p]]] = b_data[cur[p]]]
    /\ Goto(p, "bwload")
    /\ UNCHANGED <<slotVars, buffer_sl, want, cur, reg, halted>>

BwriteLoad(p) ==
    /\ At(p, "bwload")
    /\ reg' = [reg EXCEPT ![p] = b_count[cur[p]]]
    /\ Goto(p, "bwdec")
    /\ UNCHANGED <<slotVars, buffer_sl, disk, want, cur, halted>>

BwriteDec(p) ==
    /\ At(p, "bwdec")
    /\ b_count' = [b_count EXCEPT ![cur[p]] = Dec(reg[p])]
    /\ reg' = [reg EXCEPT ![p] = 0]
    /\ Goto(p, "bwtest")
    /\ UNCHANGED <<b_blk, b_dirty, b_data, b_sl, buffer_sl, disk, want, cur,
                   halted>>

\* The count is read again: who sees no user left goes on to wipe the buffer.
BwriteTest(p) ==
    /\ At(p, "bwtest")
    /\ Goto(p, IF b_count[cur[p]] = 0 THEN "unname" ELSE "idle")
    /\ UNCHANGED <<slotVars, buffer_sl, disk, want, cur, reg, halted>>

BwriteUnname(p) ==
    /\ At(p, "unname")
    /\ b_blk' = [b_blk EXCEPT ![cur[p]] = Zero]
    /\ Goto(p, "zero")
    /\ UNCHANGED <<b_dirty, b_count, b_data, b_sl, buffer_sl, disk, want, cur,
                   reg, halted>>

\* memset: the compiler's own zeroes the block.
BwriteZero(p) ==
    /\ At(p, "zero")
    /\ b_data' = [b_data EXCEPT ![cur[p]] = Zeros]
    /\ Goto(p, "idle")
    /\ UNCHANGED <<b_blk, b_dirty, b_count, b_sl, buffer_sl, disk, want, cur,
                   reg, halted>>

\* The kernel's memset counts an unsigned size down past 0 and never stops of
\* itself.  It also strides by ints, from four blocks above b_data down: it
\* wipes the buffers that follow (the lock of the table behind the last of
\* them), then what lies below, until it meets memory that is not there.
\* Nothing is promised once it is called, so the model stops at the call.
BwriteFault(p) ==
    /\ At(p, "zero")
    /\ halted' = "fault"
    /\ UNCHANGED <<slotVars, buffer_sl, disk, bpc, want, cur, reg>>

-----------------------------------------------------------------------------
\* The steps a process makes by itself, once bread or bwrite was called.
BreadStep(p) ==
    \/ BgetAcquire(p) \/ BgetHit(p) \/ BgetMiss(p) \/ BgetTake(p)
    \/ BgetPanic(p) \/ BreadCheck(p) \/ BreadRead(p) \/ BreadLoad(p)
    \/ BreadIncr(p)

Brelease(p) == BreleasePanic(p) \/ BreleaseKept(p) \/ BreleaseHeld(p)

BreleaseStep(p) == BreleaseLoad(p) \/ BreleaseDec(p)

BwriteStep(p) ==
    \/ BwriteAcquire(p) \/ BwriteClean(p) \/ BwriteDirty(p) \/ BwriteDisk(p)
    \/ BwriteLoad(p) \/ BwriteDec(p) \/ BwriteTest(p) \/ BwriteUnname(p)
    \/ BwriteZero(p) \/ BwriteFault(p)

BufStep(p) == BreadStep(p) \/ BreleaseStep(p) \/ BwriteStep(p)

\* The operations of the cache and what callers do to the buffer they hold.
BufCall(p) ==
    \/ \E blk \in Blocks : Bread(p, blk)
    \/ \E d \in Data : Write(p, d)
    \/ MarkDirty(p) \/ Forget(p) \/ Brelease(p) \/ Bwrite(p)

BufNext(p) == BufCall(p) \/ BufStep(p)

-----------------------------------------------------------------------------
(* What the cache has to keep *)

\* bget looks for a block and renames a buffer under one hold of buffer.sl
\* (block.c:143-158), so a block never gets a second buffer.  Block 0 is
\* left out: it is the name of every unused buffer.
UniqueBlocks ==
    \A s, t \in Slots : s # t /\ b_blk[s] = b_blk[t] => b_blk[s] = Zero

\* bread "reads the block addressed by blk" (block.c:17): the buffer it
\* returned is the buffer of that block as long as its caller holds it.
HeldIsBlock ==
    \A p \in Procs : bpc[p] = "holding" => b_blk[cur[p]] = want[p]
=============================================================================
