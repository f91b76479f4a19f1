----------------------------- MODULE ReadWrite -----------------------------
(***************************************************************************)
(* sys_read, sys_write and sys_seek on one entry of open_files             *)
(* (kernel/fs/read_write.c), with balloc as sys_write calls it             *)
(* (kernel/fs/block.c) and sbread (kernel/fs/superblock.c).                *)
(*                                                                         *)
(* fget gives every process that opens a file the same entry, so all of    *)
(* them move one cursor, f_off, without a lock.  sys_read and sys_write    *)
(* take the address of a block from it, then, when bread is back, the      *)
(* offset in the block, and count it up byte by byte (a load and a store). *)
(*                                                                         *)
(* The bytes are left out: what counts is which block and which offset     *)
(* they are copied from and to.  bread returns a buffer of the block (see  *)
(* BufferCache for when it does not); the descriptor is one the process    *)
(* has open.  The lock of a process is only taken by that process.         *)
(*                                                                         *)
(* met is not in the code: the processes whose call overlapped another's.  *)
(* Registers are reset when they are dead.                                 *)
(***************************************************************************)
EXTENDS Integers, FiniteSets

CONSTANTS
    Procs,
    Blocks,     \* blocks of the device
    BadBlock,   \* block -1
    BLK_SZ,     \* bytes in a block (param.h)
    NR_ADDR,    \* addresses in an inode, 8 (fs.h:110)
    NDIRECT,    \* 9 (param.h)
    Addr,       \* [0..NR_ADDR-1 -> Blocks]    the i_addr of the file
    Size,       \* its i_size
    Offsets,    \* the offsets sys_seek is called with
    MaxBytes,   \* bound: bytes asked for by one call
    MaxCalls    \* bound: calls

ASSUME BlockSizeAssumption == BLK_SZ \in Nat \ {0}
ASSUME AddrAssumption ==
    NR_ADDR \in Nat /\ NDIRECT \in Nat /\ Addr \in [0..(NR_ADDR - 1) -> Blocks]
ASSUME SizeAssumption == Size \in Nat /\ Offsets \subseteq Int
ASSUME BoundsAssumption == MaxBytes \in Nat /\ MaxCalls \in Nat

VARIABLES
    f_off,      \* cursor
    dirty,      \* blocks marked for writing back
    listed,     \* the superblock in mtable has a list of free blocks
    pc,         \* [Procs -> Labels]          where a process is
    op,         \* [Procs -> {"read", "write"}]
    blk,        \* [Procs -> block]           of the buffer in hand
    i,          \* [Procs -> 0..BLK_SZ]       index into it
    left,       \* [Procs -> 0..MaxBytes]     buffsize - count, bytes to copy
    reg,        \* [Procs -> Int]             new cursor, not yet stored
    calls,      \* 0..MaxCalls                calls made
    met,        \* processes that shared the cursor during their call
    halted      \* why the kernel stopped, or "no"

loopVars == <<op, blk, i, left>>
ghosts == <<calls, met>>
vars == <<f_off, dirty, listed, pc, loopVars, reg, ghosts, halted>>

AnyBlock == Blocks \cup {BadBlock}
Labels == {"user", "bread", "index", "loop", "store", "full", "balloc", "spin",
           "seek"}

TypeOK ==
    /\ f_off \in Nat
    /\ dirty \subseteq AnyBlock
    /\ listed \in BOOLEAN
    /\ pc \in [Procs -> Labels]
    /\ op \in [Procs -> {"read", "write"}]
    /\ blk \in [Procs -> AnyBlock]
    /\ i \in [Procs -> 0..BLK_SZ]
    /\ left \in [Procs -> 0..MaxBytes]
    /\ reg \in [Procs -> Int]
    /\ calls \in 0..MaxCalls
    /\ met \subseteq Procs
    /\ halted \in {"no", "fault", "panic"}

Init ==
    /\ f_off = 0
    /\ dirty = {}
    /\ listed = FALSE
    /\ pc = [p \in Procs |-> "user"]
    /\ op = [p \in Procs |-> "read"]
    /\ blk = [p \in Procs |-> BadBlock]
    /\ i = [p \in Procs |-> 0]
    /\ left = [p \in Procs |-> 0]
    /\ reg = [p \in Procs |-> 0]
    /\ calls = 0
    /\ met = {}
    /\ halted = "no"

At(p, label) == halted = "no" /\ pc[p] = label
Goto(p, label) == pc' = [pc EXCEPT ![p] = label]

Busy == {p \in Procs : pc[p] # "user"}

\* The kernel stops at a point where nothing else changes.
Stop(why) ==
    /\ halted' = why
    /\ UNCHANGED <<f_off, dirty, listed, pc, loopVars, reg, ghosts>>

Call(p) ==
    /\ At(p, "user")
    /\ calls < MaxCalls
    /\ calls' = calls + 1
    /\ met' = IF Busy = {} THEN met \ {p} ELSE met \cup Busy \cup {p}

Permit(p) == At(p, "user") /\ calls < MaxCalls

-----------------------------------------------------------------------------
(* sys_read and sys_write up to their first bread *)

\* Both ask for permission on an inode pointer that is an int nobody set: the
\* load faults, or the answer is anything, and no is a panic.  sys_read first
\* trims buffsize by the file f points to, which nobody set either.
Refused(p) == Permit(p) /\ \E why \in {"fault", "panic"} : Stop(why)

Start(p, o, n) ==
    /\ Call(p)
    /\ op' = [op EXCEPT ![p] = o]
    /\ left' = [left EXCEPT ![p] = n]
    /\ Goto(p, "bread")
    /\ UNCHANGED <<f_off, dirty, listed, blk, i, reg, halted>>

\* The size left after trimming by an unknown file is any.
Read(p) == \E n \in 0..MaxBytes : Start(p, "read", n)

Write(p) == \E n \in 0..MaxBytes : Start(p, "write", n)

-----------------------------------------------------------------------------
(* Block by block *)

\* baddr.  Behind the addresses of an inode are its times, which may be any
\* block number; more than NDIRECT is -1.
Baddr(off) ==
    LET addr == off \div BLK_SZ IN
    IF addr > NDIRECT THEN {BadBlock}
    ELSE IF addr < NR_ADDR THEN {Addr[addr]} ELSE AnyBlock

Bread(p) ==
    /\ At(p, "bread")
    /\ \E b \in Baddr(f_off) : blk' = [blk EXCEPT ![p] = b]
    /\ Goto(p, "index")
    /\ UNCHANGED <<f_off, dirty, listed, op, i, left, reg, ghosts,
                   halted>>

\* Mistake: every block is read from its start.
IndexZero(p) ==
    /\ At(p, "index")
    /\ i' = [i EXCEPT ![p] = 0]
    /\ Goto(p, "loop")
    /\ UNCHANGED <<f_off, dirty, listed, op, blk, left, reg, ghosts,
                   halted>>

Index(p) ==
    /\ At(p, "index")
    /\ i' = [i EXCEPT ![p] = f_off % BLK_SZ]
    /\ Goto(p, "loop")
    /\ UNCHANGED <<f_off, dirty, listed, op, blk, left, reg, ghosts,
                   halted>>

\* Mistake: one byte more than was asked for.
CopyOneMore(p) ==
    /\ At(p, "loop")
    /\ left' = [left EXCEPT ![p] = @ - 1]
    /\ i' = [i EXCEPT ![p] = @ + 1]
    /\ reg' = [reg EXCEPT ![p] = f_off + 1]
    /\ Goto(p, "store")
    /\ UNCHANGED <<f_off, dirty, listed, op, blk, ghosts, halted>>

\* One byte, and the cursor loaded and counted up ...
Copy(p) ==
    /\ At(p, "loop")
    /\ left[p] > 0
    /\ left' = [left EXCEPT ![p] = @ - 1]
    /\ i' = [i EXCEPT ![p] = @ + 1]
    /\ reg' = [reg EXCEPT ![p] = f_off + 1]
    /\ Goto(p, "store")
    /\ UNCHANGED <<f_off, dirty, listed, op, blk, ghosts, halted>>

\* Mistake: the end of the block is found one byte late.
StoreLate(p) ==
    /\ At(p, "store")
    /\ f_off' = reg[p]
    /\ reg' = [reg EXCEPT ![p] = 0]
    /\ Goto(p, IF i[p] > BLK_SZ THEN "full" ELSE "loop")
    /\ UNCHANGED <<dirty, listed, loopVars, ghosts, halted>>

\* ... and stored, and the end of the block looked for.
Store(p) ==
    /\ At(p, "store")
    /\ f_off' = reg[p]
    /\ reg' = [reg EXCEPT ![p] = 0]
    /\ Goto(p, IF i[p] = BLK_SZ THEN "full" ELSE "loop")
    /\ UNCHANGED <<dirty, listed, loopVars, ghosts, halted>>

\* The buffer of the last block is not released, and a block that was not
\* filled is not marked.
Done(p) ==
    /\ At(p, "loop")
    /\ left[p] = 0
    /\ Goto(p, "user")
    /\ op' = [op EXCEPT ![p] = "read"]
    /\ blk' = [blk EXCEPT ![p] = BadBlock]
    /\ i' = [i EXCEPT ![p] = 0]
    /\ UNCHANGED <<f_off, dirty, listed, left, reg, ghosts, halted>>

\* Mistake: the next block is waited for and not asked for.
FullWaits(p) ==
    /\ At(p, "full")
    /\ dirty' = IF op[p] = "write" THEN dirty \cup {blk[p]} ELSE dirty
    /\ op[p] = "write" /\ Goto(p, "balloc")
    /\ UNCHANGED <<f_off, listed, loopVars, reg, ghosts, halted>>

\* sys_read goes on with the block of the cursor, sys_write with a new one.
Full(p) ==
    /\ At(p, "full")
    /\ dirty' = IF op[p] = "write" THEN dirty \cup {blk[p]} ELSE dirty
    /\ Goto(p, IF op[p] = "write" THEN "balloc" ELSE "bread")
    /\ blk' = [blk EXCEPT ![p] = BadBlock]
    /\ i' = [i EXCEPT ![p] = 0]
    /\ UNCHANGED <<f_off, listed, op, left, reg, ghosts, halted>>

-----------------------------------------------------------------------------
(* balloc and get_free_pos *)

\* The free list has length 0 without a superblock, or with one that has none,
\* and balloc returns the b it never set: no buffer, no address, or a buffer.
BallocNothing(p) ==
    /\ At(p, "balloc") /\ ~listed
    /\ \/ \E why \in {"fault", "panic"} : Stop(why)
       \/ /\ \E b \in AnyBlock : blk' = [blk EXCEPT ![p] = b]
          /\ Goto(p, "index")
          /\ UNCHANGED <<f_off, dirty, listed, op, i, left, reg,
                         ghosts, halted>>

\* With a list, balloc reads its first block again and again, as off stays 0,
\* whatever get_free_pos answers; bread and bget may have no buffer for it; and
\* get_free_pos, called with a byte of the block for an address, may fault, or
\* stay with a word that is not 0.
BallocScan(p) ==
    /\ At(p, "balloc") /\ listed
    /\ \/ \E why \in {"fault", "panic"} : Stop(why)
       \/ /\ Goto(p, "spin")
          /\ UNCHANGED <<f_off, dirty, listed, loopVars, reg, ghosts, halted>>

\* Called by nobody in the kernel, on behalf of a mount.  A superblock without a
\* list of free blocks, s_free_blk_len being 0, leaves all as it is.
Sbread ==
    /\ halted = "no" /\ ~listed
    /\ listed' = TRUE
    /\ UNCHANGED <<f_off, dirty, pc, loopVars, reg, ghosts, halted>>

-----------------------------------------------------------------------------
(* sys_seek *)

\* SEEK_CUR, SEEK_END (from the cursor as well) and SEEK_SET.
Seek(p) ==
    /\ Call(p)
    /\ \E offset \in Offsets :
          \E off \in {f_off + offset, f_off - offset, offset} :
             reg' = [reg EXCEPT ![p] = off]
    /\ Goto(p, "seek")
    /\ UNCHANGED <<f_off, dirty, listed, loopVars, halted>>

\* An offset of 0 is as bad as one outside.
SeekBad(p) == At(p, "seek") /\ (reg[p] <= 0 \/ reg[p] >= Size) /\ Stop("panic")

SeekStore(p) ==
    /\ At(p, "seek")
    /\ reg[p] > 0 /\ reg[p] < Size
    /\ f_off' = reg[p]
    /\ reg' = [reg EXCEPT ![p] = 0]
    /\ Goto(p, "user")
    /\ UNCHANGED <<dirty, listed, loopVars, ghosts, halted>>

-----------------------------------------------------------------------------
Run(p) ==
    \/ Bread(p) \/ Index(p) \/ Copy(p) \/ Store(p) \/ Done(p) \/ Full(p)
    \/ BallocNothing(p) \/ BallocScan(p) \/ SeekBad(p) \/ SeekStore(p)

Next ==
    \/ \E p \in Procs : Refused(p) \/ Read(p) \/ Write(p) \/ Seek(p) \/ Run(p)
    \/ Sbread

Spec == Init /\ [][Next]_vars

\* A process inside a call keeps running.
LiveSpec == Spec /\ \A p \in Procs : WF_vars(Run(p))

-----------------------------------------------------------------------------
\* No byte is copied from or to the place behind a block, however the cursor is
\* moved by others between the address, the index and the bytes
\* (read_write.c:55-70, 119-133).
IndexInBlock == \A p \in Procs : pc[p] = "loop" => i[p] < BLK_SZ

\* Whoever is alone on the cursor copies at the cursor: the index is the
\* cursor's, and sys_read's block is the one of the file it points to, also
\* after the end of a block (read_write.c:52-68).  sys_write's is so only up to
\* the end of its first block.
CursorInHand ==
    \A p \in Procs : pc[p] = "loop" /\ p \notin met =>
        /\ i[p] = f_off % BLK_SZ
        /\ op[p] = "read" => blk[p] \in Baddr(f_off)

\* sys_read and sys_write return or the kernel stops, unless balloc, which never
\* returns where there is a list of free blocks (block.c:94-109), was called.
TransferEnds ==
    \A p \in Procs :
        (pc[p] = "bread") ~> (pc[p] \in {"user", "spin"} \/ halted # "no")
=============================================================================
