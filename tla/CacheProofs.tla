----------------------------- MODULE CacheProofs ----------------------------
(***************************************************************************)
(* Theorems of the two caches, for any number of processes, buffers,       *)
(* inodes, blocks and calls.                                               *)
(*                                                                         *)
(* The buffer cache: under every kind of caller it is well typed and no    *)
(* block has two buffers; with one process in the kernel it implements a   *)
(* store of blocks.  The latter leaves block 0 out: as the name of every   *)
(* unused buffer it can get two.                                           *)
(*                                                                         *)
(* The inode cache only calls it, and leaves its variables alone           *)
(* otherwise, so the lemmas of the buffer cache carry over.                *)
(***************************************************************************)
EXTENDS BufferIsStore, InodeCache, TLAPS

-----------------------------------------------------------------------------
(* The inductive invariant of the cache.  Nothing is assumed of the callers, so *)
(* these lemmas serve every module built over BufferCache.                      *)

\* A process looking for a block or a free buffer owns the lock of the table.
SearchesLocked ==
    \A p \in Procs : bpc[p] \in {"find", "take"} => buffer_sl = p

\* Who is about to rename a buffer has seen that no buffer has the name, and
\* it still is so.  Only block 0 can have appeared meanwhile, by bwrite.
NameStillFree ==
    \A p \in Procs : bpc[p] = "take" /\ want[p] # Zero =>
        \A s \in Slots : b_blk[s] # want[p]

\* The inductive invariant.
BufInv == BufTypeOK /\ SearchesLocked /\ NameStillFree /\ UniqueBlocks

LEMMA SlotsLemma == 0 \in Slots /\ Slots \subseteq Nat
  BY NrBufAssumption, SMT DEF Slots

\* A count stays a u8_t.
LEMMA ByteLemma ==
  ASSUME NEW c \in Byte
  PROVE  Inc(c) \in Byte /\ Dec(c) \in Byte /\ 0 \in Byte
  BY SMT DEF Byte, Inc, Dec

LEMMA InitBufTypeOK == BufInit => BufTypeOK
  BY SlotsLemma, BlocksAssumption, DataAssumption
  DEF BufInit, BufTypeOK, Holders, Byte, BLabels, Halts

\* No step of the cache leaves the types.
LEMMA StepBufTypeOK ==
  ASSUME BufTypeOK, NEW p \in Procs, BufNext(p)
  PROVE  BufTypeOK'
  <1> USE DEF BufTypeOK, At, Goto, slotVars, BLabels
  <1>1. CASE BufCall(p)
    <2>1. CASE \E blk \in Blocks : Bread(p, blk)
      BY <2>1 DEF Bread
    <2>2. CASE \E d \in Data : Write(p, d)
      BY <2>2 DEF Write
    <2>3. CASE MarkDirty(p)
      BY <2>3 DEF MarkDirty
    <2>4. CASE Forget(p) \/ Bwrite(p)
      BY <2>4 DEF Forget, Bwrite
    <2>5. CASE Brelease(p)
      BY <2>5 DEF Brelease, BreleasePanic, BreleaseKept, BreleaseHeld, Halts
    <2> QED BY <1>1, <2>1, <2>2, <2>3, <2>4, <2>5 DEF BufCall
  <1>2. CASE BreadStep(p)
    <2>1. CASE BgetAcquire(p)
      BY <2>1 DEF BgetAcquire, Holders
    <2>2. CASE BgetHit(p)
      BY <2>2 DEF BgetHit, Holders, IsFirst, Named
    <2>3. CASE BgetMiss(p)
      BY <2>3 DEF BgetMiss
    <2>4. CASE BgetTake(p)
      BY <2>4 DEF BgetTake, Holders, IsFirst, Unused
    <2>5. CASE BgetPanic(p)
      BY <2>5 DEF BgetPanic, Halts
    <2>6. CASE BreadCheck(p)
      BY <2>6 DEF BreadCheck
    <2>7. CASE BreadRead(p)
      BY <2>7 DEF BreadRead
    <2>8. CASE BreadLoad(p)
      BY <2>8 DEF BreadLoad
    <2>9. CASE BreadIncr(p)
      BY <2>9, ByteLemma DEF BreadIncr
    <2> QED BY <1>2, <2>1, <2>2, <2>3, <2>4, <2>5, <2>6, <2>7, <2>8, <2>9
           DEF BreadStep
  <1>3. CASE BreleaseStep(p)
    BY <1>3, ByteLemma DEF BreleaseStep, BreleaseLoad, BreleaseDec, Holders
  <1>4. CASE BwriteStep(p)
    <2>1. CASE BwriteAcquire(p) \/ BwriteClean(p)
      BY <2>1 DEF BwriteAcquire, BwriteClean, Holders
    <2>2. CASE BwriteDirty(p) \/ BwriteDisk(p) \/ BwriteLoad(p) \/ BwriteTest(p)
      BY <2>2 DEF BwriteDirty, BwriteDisk, BwriteLoad, BwriteTest
    <2>3. CASE BwriteDec(p)
      BY <2>3, ByteLemma DEF BwriteDec
    <2>4. CASE BwriteUnname(p)
      BY <2>4, BlocksAssumption DEF BwriteUnname
    <2>5. CASE BwriteZero(p)
      BY <2>5, DataAssumption DEF BwriteZero
    <2>6. CASE BwriteFault(p)
      BY <2>6 DEF BwriteFault, Halts
    <2> QED BY <1>4, <2>1, <2>2, <2>3, <2>4, <2>5, <2>6 DEF BwriteStep
  <1> QED BY <1>1, <1>2, <1>3, <1>4 DEF BufNext, BufStep

-----------------------------------------------------------------------------
\* What does not run under buffer.sl and renames no buffer disturbs neither
\* the search of another process nor the names.
LEMMA Undisturbed ==
  ASSUME BufInv, NEW p \in Procs, BufTypeOK',
         UNCHANGED <<b_blk, buffer_sl, want>>,
         \A q \in Procs : bpc'[q] \in {"find", "take"} => bpc'[q] = bpc[q]
  PROVE  BufInv'
  BY DEF BufInv, SearchesLocked, NameStillFree, UniqueBlocks

LEMMA InitBufInv == BufInit => BufInv
  BY InitBufTypeOK DEF BufInv, BufInit, SearchesLocked, NameStillFree,
     UniqueBlocks

LEMMA StepBufInv ==
  ASSUME BufInv, NEW p \in Procs, BufNext(p)
  PROVE  BufInv'
  <1>0. BufTypeOK /\ BufTypeOK'
    BY StepBufTypeOK DEF BufInv
  <1>00. bpc \in [Procs -> BLabels] /\ b_blk \in [Slots -> Blocks]
         /\ want \in [Procs -> Blocks] /\ cur \in [Procs -> Slots]
    BY <1>0 DEF BufTypeOK
  <1> USE DEF At, Goto, slotVars
  <1>1. CASE BufCall(p)
    <2>1. CASE \E blk \in Blocks : Bread(p, blk)
      BY <1>0, <1>00, <2>1 DEF Bread, BufInv, SearchesLocked, NameStillFree,
         UniqueBlocks
    <2>2. CASE (\E d \in Data : Write(p, d)) \/ MarkDirty(p)
      BY <1>0, <2>2, Undisturbed DEF Write, MarkDirty
    <2>3. CASE Forget(p) \/ Bwrite(p)
      BY <1>0, <1>00, <2>3, Undisturbed DEF Forget, Bwrite
    <2>4. CASE Brelease(p)
      BY <1>0, <1>00, <2>4, Undisturbed
      DEF Brelease, BreleasePanic, BreleaseKept, BreleaseHeld
    <2> QED BY <1>1, <2>1, <2>2, <2>3, <2>4 DEF BufCall
  <1>2. CASE BreadStep(p)
    <2>1. CASE BgetAcquire(p)
      BY <1>0, <1>00, <2>1, NoProcAssumption
      DEF BgetAcquire, BufInv, SearchesLocked, NameStillFree, UniqueBlocks
    <2>2. CASE BgetHit(p)
      BY <1>0, <1>00, <2>2 DEF BgetHit, BufInv, SearchesLocked, NameStillFree,
         UniqueBlocks
    <2>3. CASE BgetMiss(p)
      BY <1>0, <1>00, <2>3 DEF BgetMiss, Named, BufInv, SearchesLocked,
         NameStillFree, UniqueBlocks
    <2>4. CASE BgetTake(p)
      <3>1. \A q \in Procs : bpc[q] \in {"find", "take"} => q = p
        BY <2>4 DEF BgetTake, BufInv, SearchesLocked
      <3>2. PICK s \in Slots : b_blk' = [b_blk EXCEPT ![s] = want[p]]
        BY <2>4 DEF BgetTake
      <3>3. want[p] # Zero => \A t \in Slots : b_blk[t] # want[p]
        BY <2>4 DEF BgetTake, BufInv, NameStillFree
      <3>4. UniqueBlocks'
        BY <1>00, <3>2, <3>3 DEF BufInv, UniqueBlocks
      <3>5. SearchesLocked' /\ NameStillFree'
        BY <1>00, <2>4, <3>1 DEF BgetTake, SearchesLocked, NameStillFree
      <3> QED BY <1>0, <3>4, <3>5 DEF BufInv
    <2>5. CASE BgetPanic(p) \/ BreadCheck(p)
      BY <1>0, <1>00, <2>5, Undisturbed DEF BgetPanic, BreadCheck
    <2>6. CASE BreadRead(p) \/ BreadLoad(p) \/ BreadIncr(p)
      BY <1>0, <1>00, <2>6, Undisturbed DEF BreadRead, BreadLoad, BreadIncr
    <2> QED BY <1>2, <2>1, <2>2, <2>3, <2>4, <2>5, <2>6 DEF BreadStep
  <1>3. CASE BreleaseStep(p)
    BY <1>0, <1>00, <1>3, Undisturbed
    DEF BreleaseStep, BreleaseLoad, BreleaseDec
  <1>4. CASE BwriteStep(p)
    <2>1. CASE BwriteAcquire(p) \/ BwriteClean(p) \/ BwriteDirty(p) \/ BwriteDisk(p)
      BY <1>0, <1>00, <2>1, Undisturbed
      DEF BwriteAcquire, BwriteClean, BwriteDirty, BwriteDisk
    <2>2. CASE BwriteLoad(p) \/ BwriteDec(p) \/ BwriteTest(p)
      BY <1>0, <1>00, <2>2, Undisturbed DEF BwriteLoad, BwriteDec, BwriteTest
    <2>3. CASE BwriteUnname(p)
      BY <1>0, <1>00, <2>3, BlocksAssumption
      DEF BwriteUnname, BufInv, SearchesLocked, NameStillFree, UniqueBlocks
    <2>4. CASE BwriteZero(p) \/ BwriteFault(p)
      BY <1>0, <1>00, <2>4, Undisturbed DEF BwriteZero, BwriteFault
    <2> QED BY <1>4, <2>1, <2>2, <2>3, <2>4 DEF BwriteStep
  <1> QED BY <1>1, <1>2, <1>3, <1>4 DEF BufNext, BufStep

\* Nor does a step that leaves the cache alone, but for stopping the kernel.
LEMMA StutterBufInv ==
  ASSUME BufInv, halted' \in Halts,
         UNCHANGED <<slotVars, buffer_sl, disk, bpc, want, cur, reg>>
  PROVE  BufInv'
  BY DEF BufInv, BufTypeOK, slotVars, SearchesLocked, NameStillFree,
     UniqueBlocks

-----------------------------------------------------------------------------
(* The closed system *)

\* The inductive invariant of the closed system.
IInv == TypeOK /\ BufInv

LEMMA InitIInv == Init => IInv
  <1> SUFFICES ASSUME Init PROVE IInv
    OBVIOUS
  <1>1. BufInv
    BY InitBufInv DEF Init
  <1>2. calls \in [Procs -> 0..MaxCalls]
    BY MaxCallsAssumption DEF Init
  <1> QED BY <1>1, <1>2 DEF IInv, TypeOK, BufInv

LEMMA StepIInv == IInv /\ [Next]_vars => IInv'
  <1> SUFFICES ASSUME IInv, [Next]_vars PROVE IInv'
    OBVIOUS
  <1>1. calls \in [Procs -> 0..MaxCalls] /\ BufInv
    BY DEF IInv, TypeOK
  <1>2. ASSUME NEW p \in Procs, CallBread(p) PROVE IInv'
    <2>1. BufNext(p)
      BY <1>2, RequestsAssumption DEF CallBread, BufNext, BufCall
    <2>2. calls' \in [Procs -> 0..MaxCalls]
      BY <1>1, <1>2, MaxCallsAssumption DEF CallBread
    <2> QED BY <1>1, <2>1, <2>2, StepBufInv DEF IInv, TypeOK, BufInv
  <1>3. ASSUME NEW p \in Procs, Use(p) \/ Run(p) PROVE IInv'
    <2>1. BufNext(p) /\ UNCHANGED calls
      BY <1>3 DEF Use, Run, BufNext, BufCall
    <2> QED BY <1>1, <2>1, StepBufInv DEF IInv, TypeOK, BufInv
  <1>4. CASE UNCHANGED vars
    <2>1. BufInv'
      BY <1>1, <1>4, StutterBufInv DEF vars, bufVars, BufInv, BufTypeOK
    <2> QED BY <1>1, <1>4, <2>1 DEF IInv, TypeOK, BufInv, vars
  <1> QED BY <1>2, <1>3, <1>4 DEF Next

\* Every state of the cache is well typed, the u8_t counts included
\* (block.c:20-164).
THEOREM TypeCorrect == Spec => []TypeOK
  <1>1. IInv => TypeOK
    BY DEF IInv
  <1> QED BY InitIInv, StepIInv, <1>1, PTL DEF Spec

\* However many processes read, write and release blocks at once, no block
\* gets two buffers (block.c:139-164).
THEOREM BlocksUnique == Spec => []UniqueBlocks
  <1>1. IInv => UniqueBlocks
    BY DEF IInv, BufInv
  <1> QED BY InitIInv, StepIInv, <1>1, PTL DEF Spec

-----------------------------------------------------------------------------
(* One process *)

OneProcess == \A p, q \in Procs : p = q

\* Where the buffer in hand has the name asked for, is counted, is not, and
\* holds what the device does.
NamedAt == {"check", "read", "load", "incr", "holding", "bwrite", "test",
            "wdisk", "bwload", "bwdec", "bwtest", "unname"}
CountedAt == {"holding", "bwrite", "test", "wdisk", "bwload", "bwdec"}
UncountedAt == {"read", "load", "incr", "bwtest", "unname", "zero"}
CleanAt == {"load", "incr", "bwload", "bwdec"}
LockedAt == {"test", "wdisk", "bwload", "bwdec", "bwtest", "unname"}

\* The buffer a process has in hand.
InHand(p) ==
    /\ bpc[p] # "idle" => want[p] # Zero
    /\ bpc[p] \notin {"relload", "reldec"}
    /\ bpc[p] \in NamedAt => b_blk[cur[p]] = want[p]
    /\ bpc[p] \in CountedAt => b_count[cur[p]] = 1
    /\ bpc[p] \in UncountedAt => b_count[cur[p]] = 0
    /\ bpc[p] \in CleanAt => b_data[cur[p]] = disk[want[p]]
    /\ bpc[p] = "incr" => reg[p] = 0
    /\ bpc[p] = "bwdec" => reg[p] = 1

\* A buffer is counted once, and only under the name of a block.
CountedOnce ==
    \A s \in Slots : b_count[s] \in {0, 1} /\ (b_count[s] = 1 => b_blk[s] # Zero)

\* The lock of a buffer that has a name is free outside bwrite.
LocksFree ==
    \A s \in Slots :
        b_sl[s] = NoProc \/ b_blk[s] = Zero
            \/ \E p \in Procs : cur[p] = s /\ bpc[p] \in LockedAt

\* Why the kernel may have stopped.
Stopped ==
    halted \in {"no", "fault", "bget: no buffer available"}

SeqInv ==
    /\ BufInv
    /\ \A p \in Procs : InHand(p)
    /\ CountedOnce /\ LocksFree /\ Stopped /\ PanicOnlyWhenFull

-----------------------------------------------------------------------------
(* SeqInv is inductive *)

\* A step of the only process, whose calls of bread are for blocks.
Calls(p) ==
    \/ \E blk \in Requests : Bread(p, blk)
    \/ \E d \in Data : Write(p, d)
    \/ MarkDirty(p) \/ Forget(p) \/ Brelease(p) \/ Bwrite(p)

LEMMA SeqInit == Init => SeqInv
  <1> SUFFICES ASSUME Init PROVE SeqInv
    OBVIOUS
  <1>1. BufInv
    BY InitBufInv DEF Init
  <1>2. \A p \in Procs : InHand(p)
    BY DEF Init, BufInit, InHand, NamedAt, CountedAt, UncountedAt, CleanAt
  <1>3. CountedOnce /\ LocksFree /\ Stopped /\ PanicOnlyWhenFull
    BY DEF Init, BufInit, CountedOnce, LocksFree, Stopped, PanicOnlyWhenFull
  <1> QED BY <1>1, <1>2, <1>3 DEF SeqInv

LEMMA SeqCall ==
    ASSUME OneProcess, Zero \notin Requests, SeqInv, NEW p \in Procs, Calls(p)
    PROVE  SeqInv'
  <1>0. BufInv'
    <2>1. BufNext(p)
      BY RequestsAssumption DEF Calls, BufNext, BufCall
    <2> QED BY <2>1, StepBufInv DEF SeqInv
  <1>1. BufTypeOK /\ BufTypeOK'
    BY <1>0 DEF SeqInv, BufInv
  <1>2. \A q \in Procs : q = p
    BY DEF OneProcess
  <1>3. InHand(p) /\ CountedOnce /\ LocksFree /\ Stopped
    BY DEF SeqInv
  <1>4. halted = "no"
    <2>1. CASE \E blk \in Requests : Bread(p, blk)
      BY <2>1 DEF Bread, At
    <2>2. CASE \E d \in Data : Write(p, d)
      BY <2>2 DEF Write, At
    <2>3. CASE MarkDirty(p) \/ Forget(p) \/ Brelease(p) \/ Bwrite(p)
      BY <2>3 DEF MarkDirty, Forget, Brelease, BreleasePanic, BreleaseKept,
         BreleaseHeld, Bwrite, At
    <2> QED BY <2>1, <2>2, <2>3 DEF Calls
  <1> USE DEF At, Goto, slotVars
  <1>5. /\ InHand(p)'
        /\ CountedOnce' /\ LocksFree' /\ Stopped' /\ halted' = "no"
    <2>1. CASE \E blk \in Requests : Bread(p, blk)
      BY <2>1, <1>1, <1>2, <1>3 DEF Bread, InHand, CountedOnce, LocksFree, Stopped,
         BufTypeOK, NamedAt, CountedAt, UncountedAt, CleanAt, LockedAt
    <2>2. CASE \E d \in Data : Write(p, d)
      BY <2>2, <1>1, <1>2, <1>3 DEF Write, InHand, CountedOnce, LocksFree, Stopped,
         BufTypeOK, NamedAt, CountedAt, UncountedAt, CleanAt, LockedAt
    <2>3. CASE MarkDirty(p)
      BY <2>3, <1>1, <1>2, <1>3 DEF MarkDirty, InHand, CountedOnce, LocksFree, Stopped,
         BufTypeOK, NamedAt, CountedAt, UncountedAt, CleanAt, LockedAt
    <2>4. ASSUME Forget(p) \/ Bwrite(p)
          PROVE  InHand(p)' /\ CountedOnce' /\ LocksFree' /\ Stopped' /\ halted' = "no"
      <3>1. /\ bpc[p] = "holding" /\ halted' = "no"
            /\ bpc' = [bpc EXCEPT ![p] = "idle"] \/ bpc' = [bpc EXCEPT ![p] = "bwrite"]
            /\ UNCHANGED <<b_blk, b_count, b_data, b_sl, disk, want, cur, reg>>
        BY <2>4 DEF Forget, Bwrite
      <3>2. bpc'[p] \in {"idle", "bwrite"}
        BY <3>1, <1>1 DEF BufTypeOK
      <3> QED BY <3>1, <3>2, <1>1, <1>2, <1>3 DEF InHand, CountedOnce, LocksFree,
         Stopped, NamedAt, CountedAt, UncountedAt, CleanAt, LockedAt
    <2>5. CASE Brelease(p)
      <3>1. /\ bpc[p] = "holding" /\ b_count[cur[p]] = 1
            /\ b_blk[cur[p]] # Zero /\ cur[p] \in Slots
        BY <2>5, <1>1, <1>3 DEF Brelease, BreleasePanic, BreleaseKept, BreleaseHeld,
           InHand, NamedAt, CountedAt, BufTypeOK
      <3>2. b_sl[cur[p]] = NoProc
        BY <3>1, <1>2, <1>3 DEF LocksFree, LockedAt
      <3>3. BreleaseKept(p)
        BY <2>5, <3>1, <3>2, NoProcAssumption DEF Brelease, BreleasePanic, BreleaseHeld
      <3> QED BY <3>3, <1>1, <1>2, <1>3 DEF BreleaseKept, InHand, CountedOnce, LocksFree,
         Stopped, BufTypeOK, NamedAt, CountedAt, UncountedAt, CleanAt, LockedAt
    <2> QED BY <2>1, <2>2, <2>3, <2>4, <2>5 DEF Calls
  <1>6. (\A q \in Procs : InHand(q))'
    BY <1>2, <1>5
  <1>7. PanicOnlyWhenFull'
    BY <1>5 DEF PanicOnlyWhenFull
  <1> QED BY <1>0, <1>5, <1>6, <1>7 DEF SeqInv

LEMMA SeqStep ==
    ASSUME OneProcess, SeqInv, NEW p \in Procs, BufStep(p)
    PROVE  SeqInv'
  <1>0. BufInv'
    BY StepBufInv DEF SeqInv, BufNext
  <1>1. BufTypeOK /\ BufTypeOK'
    BY <1>0 DEF SeqInv, BufInv
  <1>2. \A q \in Procs : q = p
    BY DEF OneProcess
  <1>3. InHand(p) /\ CountedOnce /\ LocksFree /\ Stopped
    BY DEF SeqInv
  <1> USE DEF At, Goto, slotVars
  <1>4. halted = "no"
    BY DEF BufStep, BreadStep, BreleaseStep, BwriteStep, BgetAcquire, BgetHit,
       BgetMiss, BgetTake, BgetPanic, BreadCheck, BreadRead, BreadLoad, BreadIncr,
       BreleaseLoad, BreleaseDec, BwriteAcquire, BwriteClean, BwriteDirty, BwriteDisk,
       BwriteLoad, BwriteDec, BwriteTest, BwriteUnname, BwriteZero, BwriteFault
  <1>5. CASE BgetPanic(p)
    <2>1. \A s \in Slots : b_count[s] = 1 /\ b_blk[s] # Zero
      BY <1>5, <1>3 DEF BgetPanic, Unused, CountedOnce
    <2>2. \A s, t \in Slots : s # t => b_blk[s] # b_blk[t]
      BY <2>1 DEF SeqInv, BufInv, UniqueBlocks
    <2>3. bpc[p] = "take" /\ Named(want[p]) = {}
      BY <1>5, <1>3 DEF BgetPanic, SeqInv, BufInv, NameStillFree, Named, InHand
    <2>4. PanicOnlyWhenFull'
      BY <2>1, <2>2, <2>3, <1>5 DEF BgetPanic, PanicOnlyWhenFull, Named
    <2> QED BY <1>0, <1>5, <2>4 DEF BgetPanic, SeqInv, InHand, CountedOnce, LocksFree,
       Stopped
  <1>6. CASE BwriteFault(p)
    BY <1>0, <1>6 DEF BwriteFault, SeqInv, InHand, CountedOnce, LocksFree, Stopped,
       PanicOnlyWhenFull
  <1>7. ASSUME ~BgetPanic(p), ~BwriteFault(p)
        PROVE  InHand(p)' /\ CountedOnce' /\ LocksFree' /\ halted' = "no"
    <2> USE <1>1, <1>2, <1>3 DEF InHand, CountedOnce, LocksFree, BufTypeOK,
        NamedAt, CountedAt, UncountedAt, CleanAt, LockedAt
    <2>1. CASE BgetAcquire(p) \/ BgetMiss(p)
      BY <2>1, <1>4 DEF BgetAcquire, BgetMiss
    <2>2. CASE BgetHit(p)
      BY <2>2, <1>4 DEF BgetHit, IsFirst, Named
    <2>3. CASE BgetTake(p)
      BY <2>3, <1>4 DEF BgetTake, IsFirst, Unused
    <2>4. CASE BreadCheck(p)
      BY <2>4, <1>4 DEF BreadCheck
    <2>5. CASE BreadRead(p)
      BY <2>5, <1>4 DEF BreadRead
    <2>6. CASE BreadLoad(p)
      BY <2>6, <1>4 DEF BreadLoad
    <2>7. CASE BreadIncr(p)
      <3>1. Inc(reg[p]) = 1
        BY <2>7 DEF BreadIncr, Inc
      <3> QED BY <2>7, <3>1, <1>4 DEF BreadIncr
    <2>8. CASE BreleaseStep(p)
      BY <2>8 DEF BreleaseStep, BreleaseLoad, BreleaseDec
    <2>9. CASE BwriteAcquire(p) \/ BwriteClean(p)
      BY <2>9, <1>4 DEF BwriteAcquire, BwriteClean
    <2>10. CASE BwriteDirty(p) \/ BwriteDisk(p) \/ BwriteLoad(p) \/ BwriteTest(p)
      BY <2>10, <1>4 DEF BwriteDirty, BwriteDisk, BwriteLoad, BwriteTest
    <2>11. CASE BwriteDec(p)
      <3>1. Dec(reg[p]) = 0
        BY <2>11 DEF BwriteDec, Dec
      <3> QED BY <2>11, <3>1, <1>4 DEF BwriteDec
    <2>12. CASE BwriteUnname(p) \/ BwriteZero(p)
      BY <2>12, <1>4 DEF BwriteUnname, BwriteZero
    <2> QED BY <1>7, <2>1, <2>2, <2>3, <2>4, <2>5, <2>6, <2>7, <2>8, <2>9, <2>10,
       <2>11, <2>12 DEF BufStep, BreadStep, BwriteStep
  <1>8. ASSUME ~BgetPanic(p), ~BwriteFault(p) PROVE SeqInv'
    BY <1>0, <1>2, <1>7, <1>8 DEF SeqInv, Stopped, PanicOnlyWhenFull
  <1> QED BY <1>5, <1>6, <1>8

LEMMA SeqNext ==
    ASSUME OneProcess, Zero \notin Requests, SeqInv, [Next]_vars
    PROVE  SeqInv'
  <1>1. ASSUME NEW p \in Procs, CallBread(p) PROVE SeqInv'
    <2>1. Calls(p)
      BY <1>1 DEF CallBread, Calls
    <2> QED BY <2>1, SeqCall
  <1>2. ASSUME NEW p \in Procs, Use(p) PROVE SeqInv'
    <2>1. Calls(p)
      BY <1>2 DEF Use, Calls
    <2> QED BY <2>1, SeqCall
  <1>3. ASSUME NEW p \in Procs, Run(p) PROVE SeqInv'
    BY <1>3, SeqStep DEF Run
  <1>4. CASE UNCHANGED vars
    <2>1. BufInv'
      BY <1>4, StutterBufInv DEF vars, bufVars, SeqInv, BufInv, BufTypeOK
    <2>2. UNCHANGED <<b_blk, b_count, b_data, b_sl, disk, bpc, want, cur, reg, halted>>
      BY <1>4 DEF vars, bufVars, slotVars
    <2>3. (\A p \in Procs : InHand(p))'
      BY <2>2 DEF SeqInv, InHand
    <2>4. CountedOnce' /\ LocksFree' /\ Stopped'
      BY <2>2 DEF SeqInv, CountedOnce, LocksFree, Stopped
    <2>5. PanicOnlyWhenFull'
      BY <2>2 DEF SeqInv, PanicOnlyWhenFull, Named
    <2> QED BY <2>1, <2>3, <2>4, <2>5 DEF SeqInv
  <1> QED BY <1>1, <1>2, <1>3, <1>4 DEF Next

\* With one process, whatever it reads and however it lets go of it, the
\* kernel panics for want of a buffer only when each holds another block
\* (block.c:20-79, 139-164).
THEOREM PanicsOnlyWhenFull ==
    ASSUME OneProcess, Zero \notin Requests
    PROVE  Spec => []PanicOnlyWhenFull
  <1>1. SeqInv /\ [Next]_vars => SeqInv'
    BY SeqNext
  <1>2. SeqInv => PanicOnlyWhenFull
    BY DEF SeqInv
  <1> QED BY SeqInit, <1>1, <1>2, PTL DEF Spec

-----------------------------------------------------------------------------
(* The cache implements the store *)

\* The contents of a block are those of its counted buffer, which is the only
\* one, or of the device.
ContentIs ==
    /\ Content = [blk \in Blocks |-> Content[blk]]
    /\ \A s \in Slots : b_count[s] = 1 => Content[b_blk[s]] = b_data[s]
    /\ \A blk \in Blocks :
          (\A s \in Slots : b_blk[s] = blk => b_count[s] = 0)
              => Content[blk] = disk[blk]

LEMMA ContentFacts == SeqInv => ContentIs
  <1> SUFFICES ASSUME SeqInv PROVE ContentIs
    OBVIOUS
  <1>1. ASSUME NEW s \in Slots, b_count[s] = 1 PROVE Content[b_blk[s]] = b_data[s]
    <2>1. b_blk[s] \in Blocks /\ b_blk[s] # Zero
      BY <1>1 DEF SeqInv, BufInv, BufTypeOK, CountedOnce
    <2>2. Cached(b_blk[s]) = {s}
      BY <1>1, <2>1 DEF SeqInv, BufInv, UniqueBlocks, Cached, Named
    <2> QED BY <2>1, <2>2 DEF Content
  <1>2. ASSUME NEW blk \in Blocks, \A s \in Slots : b_blk[s] = blk => b_count[s] = 0
        PROVE  Content[blk] = disk[blk]
    BY <1>2 DEF Content, Cached, Named
  <1>3. Content = [blk \in Blocks |-> Content[blk]]
    BY DEF Content
  <1> QED BY <1>1, <1>2, <1>3 DEF ContentIs

\* A block keeps its contents where the device and its counted buffer do.
LEMMA SameBlock ==
    ASSUME SeqInv, SeqInv', ContentIs, ContentIs', NEW blk \in Blocks,
           disk'[blk] = disk[blk],
           \A s \in Slots :
               /\ b_blk'[s] = blk /\ b_count'[s] = 1 <=> b_blk[s] = blk /\ b_count[s] = 1
               /\ b_blk[s] = blk /\ b_count[s] = 1 => b_data'[s] = b_data[s]
    PROVE  Content'[blk] = Content[blk]
  <1>1. CASE \E s \in Slots : b_count[s] = 1 /\ b_blk[s] = blk
    BY <1>1 DEF ContentIs
  <1>2. CASE ~\E s \in Slots : b_count[s] = 1 /\ b_blk[s] = blk
    <2>1. \A s \in Slots : b_blk[s] = blk => b_count[s] = 0
      BY <1>2 DEF SeqInv, CountedOnce
    <2>2. \A s \in Slots : b_blk'[s] = blk => b_count'[s] = 0
      BY <1>2 DEF SeqInv, CountedOnce
    <2> QED BY <2>1, <2>2 DEF ContentIs
  <1> QED BY <1>1, <1>2

\* So do all, in a step that leaves the device and the counted buffers alone.
LEMMA SameContent ==
    ASSUME SeqInv, SeqInv', ContentIs, ContentIs', UNCHANGED <<disk, b_count>>,
           \A s \in Slots : b_count[s] = 1 =>
               b_blk'[s] = b_blk[s] /\ b_data'[s] = b_data[s]
    PROVE  Content' = Content
  <1>1. \A blk \in Blocks : Content'[blk] = Content[blk]
    BY SameBlock
  <1> QED BY <1>1 DEF ContentIs

\* A call is a step of the store or none.
LEMMA CallRefines ==
    ASSUME OneProcess, SeqInv, SeqInv', ContentIs, ContentIs',
           NEW p \in Procs, Calls(p)
    PROVE  [Store!Next]_(Store!vars)
  <1>0. BufTypeOK /\ BufTypeOK' /\ InHand(p)
    BY DEF SeqInv, BufInv
  <1>3. \A q \in Procs : q = p
    BY DEF OneProcess
  <1>1. /\ Held = [q \in Procs |-> IF bpc[p] = "holding" THEN want[p] ELSE None]
        /\ View = [q \in Procs |-> IF bpc[p] = "holding" THEN b_data[cur[p]] ELSE None]
    BY <1>3 DEF Held, View
  <1>2. /\ Held' = [q \in Procs |-> IF bpc'[p] = "holding" THEN want'[p] ELSE None]
        /\ View' = [q \in Procs |-> IF bpc'[p] = "holding" THEN b_data'[cur'[p]] ELSE None]
    BY <1>3 DEF Held, View
  <1> USE DEF At, Goto, slotVars
  <1>4. CASE \E blk \in Requests : Bread(p, blk)
    <2>1. Content' = Content
      BY <1>4, SameContent DEF Bread
    <2>2. bpc[p] # "holding" /\ bpc'[p] # "holding"
      BY <1>4, <1>0 DEF Bread, BufTypeOK
    <2> QED BY <2>1, <2>2, <1>1, <1>2 DEF Store!vars
  <1>5. ASSUME NEW d \in Data, Write(p, d) PROVE Store!Next
    <2>1. /\ bpc[p] = "holding" /\ bpc'[p] = "holding" /\ UNCHANGED <<want, cur, b_blk, b_count, disk>>
          /\ b_data' = [b_data EXCEPT ![cur[p]] = d] /\ cur[p] \in Slots
      BY <1>5, <1>0 DEF Write, BufTypeOK
    <2>2. /\ want[p] \in Blocks /\ b_blk[cur[p]] = want[p] /\ b_count[cur[p]] = 1
          /\ b_data'[cur[p]] = d
      BY <2>1, <1>0 DEF InHand, NamedAt, CountedAt, BufTypeOK
    <2>3. ASSUME NEW blk \in Blocks, blk # want[p] PROVE Content'[blk] = Content[blk]
      <3>1. \A s \in Slots : b_blk[s] = blk => b_data'[s] = b_data[s]
        BY <2>1, <2>2, <2>3, <1>0 DEF BufTypeOK
      <3> QED BY <3>1, <2>1, SameBlock
    <2>4. Content'[want[p]] = d
      BY <2>1, <2>2 DEF ContentIs
    <2>5. Content' = [Content EXCEPT ![want[p]] = d]
      BY <2>3, <2>4 DEF ContentIs
    <2>6. Held[p] = want[p] /\ want[p] # None /\ Held' = Held
      BY <2>1, <2>2, <1>1, <1>2, NoneAssumption
    <2>7. View' = [q \in Procs |-> IF Held[q] = Held[p] THEN d ELSE View[q]]
      BY <2>1, <2>2, <1>1, <1>2
    <2>8. Store!Change(p, d)
      BY <2>5, <2>6, <2>7 DEF Store!Change
    <2> QED BY <2>8 DEF Store!Next
  <1>6. CASE MarkDirty(p)
    <2>1. Content' = Content
      BY <1>6, SameContent DEF MarkDirty
    <2>2. UNCHANGED <<bpc, want, cur, b_data>>
      BY <1>6 DEF MarkDirty
    <2> QED BY <2>1, <2>2, <1>1, <1>2 DEF Store!vars
  <1>7. ASSUME Forget(p) \/ Brelease(p) \/ Bwrite(p)
        PROVE  Store!Next
    <2>1. bpc[p] = "holding"
      BY <1>7 DEF Forget, Brelease, BreleasePanic, BreleaseKept, BreleaseHeld, Bwrite
    <2>2. b_count[cur[p]] = 1 /\ want[p] \in Blocks
      BY <2>1, <1>0 DEF InHand, CountedAt, BufTypeOK
    <2>3. ~BreleasePanic(p)
      BY <2>2 DEF BreleasePanic
    <2>4. bpc' \in {[bpc EXCEPT ![p] = l] : l \in {"idle", "relload", "bwrite"}}
          /\ UNCHANGED <<b_blk, b_count, b_data, disk>>
      BY <1>7, <2>3 DEF Forget, Brelease, BreleaseKept, BreleaseHeld, Bwrite
    <2>5. bpc'[p] # "holding"
      BY <2>4, <1>0 DEF BufTypeOK
    <2>6. Content' = Content
      BY <2>4, SameContent
    <2>7. Held[p] # None
      BY <2>1, <2>2, <1>1, NoneAssumption
    <2>8. Held' = [Held EXCEPT ![p] = None] /\ View' = [View EXCEPT ![p] = None]
      BY <2>1, <2>5, <1>1, <1>2, <1>3
    <2>9. Store!LetGo(p)
      BY <2>6, <2>7, <2>8 DEF Store!LetGo
    <2> QED BY <2>9 DEF Store!Next
  <1> QED BY <1>4, <1>5, <1>6, <1>7 DEF Calls

\* bread gets the block when it returns; every other step is none of the store.
LEMMA StepRefines ==
    ASSUME OneProcess, SeqInv, SeqInv', ContentIs, ContentIs',
           NEW p \in Procs, BufStep(p)
    PROVE  [Store!Next]_(Store!vars)
  <1>0. BufTypeOK /\ BufTypeOK' /\ InHand(p) /\ InHand(p)'
    BY DEF SeqInv, BufInv
  <1>1. \A q \in Procs : q = p
    BY DEF OneProcess
  <1>2. /\ Held = [q \in Procs |-> IF bpc[p] = "holding" THEN want[p] ELSE None]
        /\ View = [q \in Procs |-> IF bpc[p] = "holding" THEN b_data[cur[p]] ELSE None]
    BY <1>1 DEF Held, View
  <1>3. /\ Held' = [q \in Procs |-> IF bpc'[p] = "holding" THEN want'[p] ELSE None]
        /\ View' = [q \in Procs |-> IF bpc'[p] = "holding" THEN b_data'[cur'[p]] ELSE None]
    BY <1>1 DEF Held, View
  <1>4. /\ bpc[p] \in {"bget", "find", "take", "check", "read", "load", "incr", "bwrite",
                      "test", "wdisk", "bwload", "bwdec", "bwtest", "unname", "zero",
                      "relload", "reldec"}
        /\ bpc'[p] = "holding" => bpc[p] \in {"check", "incr"} /\ UNCHANGED want
    BY <1>0 DEF BufStep, BreadStep, BreleaseStep, BwriteStep, BgetAcquire, BgetHit,
       BgetMiss, BgetTake, BgetPanic, BreadCheck, BreadRead, BreadLoad, BreadIncr,
       BreleaseLoad, BreleaseDec, BwriteAcquire, BwriteClean, BwriteDirty, BwriteDisk,
       BwriteLoad, BwriteDec, BwriteTest, BwriteUnname, BwriteZero, BwriteFault,
       BufTypeOK, At, Goto
  <1> USE DEF At, Goto, slotVars
  <1>5. Content' = Content
    <2>1. CASE BgetAcquire(p) \/ BgetHit(p) \/ BgetMiss(p) \/ BgetPanic(p)
      BY <2>1, SameContent DEF BgetAcquire, BgetHit, BgetMiss, BgetPanic
    <2>2. CASE BgetTake(p)
      BY <2>2, <1>0, SameContent DEF BgetTake, IsFirst, Unused, BufTypeOK
    <2>3. CASE BreadCheck(p) \/ BreadLoad(p)
      BY <2>3, SameContent DEF BreadCheck, BreadLoad
    <2>4. CASE BreadRead(p)
      BY <2>4, <1>0, SameContent DEF BreadRead, InHand, UncountedAt, BufTypeOK
    <2>5. CASE BwriteUnname(p) \/ BwriteZero(p)
      BY <2>5, <1>0, SameContent DEF BwriteUnname, BwriteZero, InHand, UncountedAt, BufTypeOK
    <2>6. CASE \/ BwriteAcquire(p) \/ BwriteClean(p) \/ BwriteDirty(p) \/ BwriteLoad(p)
               \/ BwriteTest(p) \/ BwriteFault(p)
      BY <2>6, SameContent DEF BwriteAcquire, BwriteClean, BwriteDirty, BwriteLoad,
         BwriteTest, BwriteFault
    <2>7. CASE BreleaseStep(p)
      BY <2>7, <1>0 DEF BreleaseStep, BreleaseLoad, BreleaseDec, InHand
    <2>8. CASE BreadIncr(p) \/ BwriteDec(p)
      <3>1. /\ bpc[p] \in {"incr", "bwdec"} /\ UNCHANGED <<b_blk, b_data, disk>>
            /\ \A s \in Slots : s # cur[p] => b_count'[s] = b_count[s]
        BY <2>8, <1>0 DEF BreadIncr, BwriteDec, BufTypeOK
      <3>2. /\ b_blk[cur[p]] = want[p] /\ b_data[cur[p]] = disk[want[p]] /\ want[p] # Zero
            /\ cur[p] \in Slots /\ want[p] \in Blocks
        BY <3>1, <1>0 DEF InHand, NamedAt, CleanAt, BufTypeOK
      <3>3. \A s \in Slots : b_blk[s] = want[p] => s = cur[p]
        BY <3>2 DEF SeqInv, BufInv, UniqueBlocks
      <3>4. Content[want[p]] = disk[want[p]]
        BY <3>2, <3>3 DEF ContentIs, SeqInv, CountedOnce
      <3>5. Content'[want[p]] = disk[want[p]]
        BY <3>1, <3>2, <3>3 DEF ContentIs, SeqInv, CountedOnce
      <3>6. \A blk \in Blocks : blk # want[p] => Content'[blk] = Content[blk]
        BY <3>1, <3>2, SameBlock
      <3> QED BY <3>4, <3>5, <3>6 DEF ContentIs
    <2>9. CASE BwriteDisk(p)
      <3>1. /\ b_blk[cur[p]] = want[p] /\ b_count[cur[p]] = 1 /\ cur[p] \in Slots
            /\ disk' = [disk EXCEPT ![want[p]] = b_data[cur[p]]]
            /\ UNCHANGED <<b_blk, b_count, b_data>>
        BY <2>9, <1>0 DEF BwriteDisk, InHand, NamedAt, CountedAt, BufTypeOK
      <3>2. Content'[want[p]] = Content[want[p]]
        BY <3>1 DEF ContentIs
      <3>3. \A blk \in Blocks : blk # want[p] => Content'[blk] = Content[blk]
        BY <3>1, <1>0, SameBlock DEF BufTypeOK
      <3> QED BY <3>2, <3>3 DEF ContentIs
    <2> QED BY <2>1, <2>2, <2>3, <2>4, <2>5, <2>6, <2>7, <2>8, <2>9 DEF BufStep,
       BreadStep, BwriteStep
  <1>6. CASE bpc'[p] # "holding"
    BY <1>2, <1>3, <1>4, <1>5, <1>6 DEF Store!vars
  <1>7. CASE bpc'[p] = "holding"
    <2>1. /\ want'[p] = want[p] /\ bpc[p] # "holding"
          /\ b_blk'[cur'[p]] = want'[p] /\ b_count'[cur'[p]] = 1
      BY <1>0, <1>4, <1>7 DEF InHand, NamedAt, CountedAt
    <2>2. Content'[want[p]] = b_data'[cur'[p]] /\ want[p] \in Blocks
      BY <2>1, <1>0 DEF ContentIs, BufTypeOK
    <2>3. Held' = [Held EXCEPT ![p] = want[p]]
          /\ View' = [View EXCEPT ![p] = Content[want[p]]] /\ Held[p] = None
      BY <2>1, <2>2, <1>1, <1>2, <1>3, <1>5, <1>7
    <2>4. Store!Get(p, want[p])
      BY <2>3, <1>5 DEF Store!Get
    <2> QED BY <2>2, <2>4 DEF Store!Next
  <1> QED BY <1>6, <1>7

LEMMA InitRefines == Init => Store!Init
  <1> SUFFICES ASSUME Init PROVE Store!Init
    OBVIOUS
  <1>1. Content = disk
    BY DEF Init, BufInit, Content, Cached, Named
  <1>2. Held = [p \in Procs |-> None] /\ View = [p \in Procs |-> None]
    BY DEF Init, BufInit, Held, View
  <1> QED BY <1>1, <1>2 DEF Store!Init, Init, BufInit

LEMMA NextRefines ==
    ASSUME OneProcess, SeqInv, SeqInv', ContentIs, ContentIs', Zero \notin Requests,
           [Next]_vars
    PROVE  [Store!Next]_(Store!vars)
  <1>1. ASSUME NEW p \in Procs, CallBread(p) \/ Use(p) PROVE [Store!Next]_(Store!vars)
    <2>1. Calls(p)
      BY <1>1 DEF CallBread, Use, Calls
    <2> QED BY <2>1, CallRefines
  <1>2. ASSUME NEW p \in Procs, Run(p) PROVE [Store!Next]_(Store!vars)
    BY <1>2, StepRefines DEF Run
  <1>3. CASE UNCHANGED vars
    BY <1>3 DEF vars, bufVars, slotVars, Store!vars, Content, Cached, Named, Held, View
  <1> QED BY <1>1, <1>2, <1>3 DEF Next

\* With one process the cache is a store of blocks: what it reads is what was
\* last written to that block, whichever buffer either went through
\* (block.c:20-79, 139-164).
THEOREM ImplementsBlockStore ==
    ASSUME OneProcess, Zero \notin Requests
    PROVE  Spec => IsBlockStore
  <1>1. SeqInv /\ [Next]_vars => SeqInv'
    BY SeqNext
  <1>2. /\ SeqInv /\ SeqInv' /\ ContentIs /\ ContentIs' /\ [Next]_vars
        => [Store!Next]_(Store!vars)
    BY NextRefines
  <1> QED BY SeqInit, <1>1, <1>2, ContentFacts, InitRefines, PTL
      DEF Spec, IsBlockStore, Store!Spec

-----------------------------------------------------------------------------
(* The inode cache *)

\* The labels of iget between acquire and release of icache.sl.
InIget == {"ifind", "icopy", "iname", "iload", "iincr", "ibrel", "ifree"}

\* A process that looks for an inode or fills a slot owns the table's lock,
\* also while bread makes it wait.
IgetLocked ==
    \A p \in Procs : ipc[p] \in InIget => icache_sl = p

\* Until a process names the slot it fills, no slot has that number.
NumberStillFree ==
    \A p \in Procs : ipc[p] \in {"icopy", "iname"} =>
        \A s \in ISlots : i_num[s] # iwant[p]

\* The inductive invariant.
InoInv == InoTypeOK /\ IgetLocked /\ NumberStillFree /\ UniqueInodes

LEMMA ISlotsLemma == 0 \in ISlots
  BY NrInodeAssumption, SMT DEF ISlots

LEMMA InitInoInv == IInit => BufInv /\ InoInv
  <1> SUFFICES ASSUME IInit PROVE BufInv /\ InoInv
    OBVIOUS
  <1>1. BufInv
    BY InitBufInv DEF IInit
  <1>2. 0 \in Byte /\ 0 \in 0..NDIRECT /\ 0 \in 0..MaxLookups
    BY NDirectAssumption, MaxLookupsAssumption, SMT DEF Byte
  <1>3. NoRecord \in Records
    BY DataAssumption, InumsAssumption DEF NoRecord, Record, Records
  <1>4. InoTypeOK
    BY <1>2, <1>3, ISlotsLemma, InumsAssumption
    DEF IInit, InoTypeOK, Holders, ILabels
  <1>5. IgetLocked /\ NumberStillFree /\ UniqueInodes
    BY DEF IInit, IgetLocked, NumberStillFree, UniqueInodes, InIget
  <1> QED BY <1>1, <1>4, <1>5 DEF InoInv

\* The buffer cache keeps its invariant under the inode cache.
LEMMA StepKeepsBufInv == BufInv /\ InoTypeOK /\ [INext]_ivars => BufInv'
  <1> SUFFICES ASSUME BufInv, InoTypeOK, [INext]_ivars PROVE BufInv'
    OBVIOUS
  <1>1. ASSUME NEW p \in Procs, BufNext(p) PROVE BufInv'
    BY <1>1, StepBufInv
  <1>2. ASSUME UNCHANGED bufVars PROVE BufInv'
    BY <1>2, StutterBufInv DEF bufVars, BufInv, BufTypeOK
  <1>3. ASSUME NEW p \in Procs, LookupCwd(p) \/ LookupPanic(p) \/ IgetPanic(p)
        PROVE  BufInv'
    BY <1>3, StutterBufInv DEF LookupCwd, LookupPanic, IgetPanic, Halts
  <1>4. ASSUME NEW p \in Procs, NameiStep(p) PROVE BufInv'
    <2>1. CASE LookupBread(p) \/ LookupFound(p) \/ LookupNext(p)
      <3>1. BufNext(p)
        BY <2>1, DirBlocksAssumption
        DEF LookupBread, LookupFound, LookupNext, BufNext, BufCall
      <3> QED BY <3>1, <1>1
    <2>2. CASE LookupLoop(p)
      BY <2>2, <1>2 DEF LookupLoop
    <2> QED BY <1>3, <1>4, <2>1, <2>2 DEF NameiStep
  <1>5. ASSUME NEW p \in Procs, IgetStep(p) PROVE BufInv'
    <2>1. CASE IgetBread(p)
      <3>1. InoBlk[iwant[p]] \in Blocks
        BY InoBlkAssumption DEF InoTypeOK
      <3>2. BufNext(p)
        BY <2>1, <3>1 DEF IgetBread, BufNext, BufCall
      <3> QED BY <3>2, <1>1
    <2>2. CASE IgetBrelease(p)
      <3>1. BufNext(p)
        BY <2>2 DEF IgetBrelease, BufNext, BufCall
      <3> QED BY <3>1, <1>1
    <2>3. CASE \/ IgetAcquire(p) \/ IgetHit(p) \/ IgetCopy(p) \/ IgetName(p)
               \/ IgetLoad(p) \/ IgetIncr(p) \/ IgetRelease(p)
      BY <2>3, <1>2 DEF IgetAcquire, IgetHit, IgetCopy, IgetName, IgetLoad,
         IgetIncr, IgetRelease
    <2> QED BY <1>3, <1>5, <2>1, <2>2, <2>3 DEF IgetStep
  <1>6. ASSUME NEW p \in Procs, Lookup(p) \/ LookupRoot(p) \/ StatStep(p) PROVE BufInv'
    BY <1>6, <1>2 DEF Lookup, LookupRoot, StatStep, Stat, StatCopy, Iput, Irelease,
       IreleaseLoad, IreleaseDec
  <1>7. ASSUME NEW p \in Procs, BufferStep(p) PROVE BufInv'
    <2>1. BufNext(p)
      BY <1>7 DEF BufferStep, BufNext, BufStep
    <2> QED BY <2>1, <1>1
  <1>8. CASE UNCHANGED ivars
    BY <1>8, <1>2 DEF ivars
  <1> QED BY <1>3, <1>4, <1>5, <1>6, <1>7, <1>8 DEF INext

\* What leaves i_num, iwant and the lock of the table alone, and moves no
\* process into iget's critical section, keeps the names apart.
LEMMA NamesUndisturbed ==
  ASSUME InoInv, InoTypeOK', UNCHANGED <<i_num, iwant, icache_sl>>,
         \A q \in Procs : ipc'[q] \in InIget => ipc[q] \in InIget,
         \A q \in Procs : ipc'[q] \in {"icopy", "iname"} =>
            ipc[q] \in {"icopy", "iname"}
  PROVE  InoInv'
  <1>1. IgetLocked'
    BY DEF InoInv, IgetLocked
  <1>2. NumberStillFree'
    BY DEF InoInv, NumberStillFree
  <1>3. UniqueInodes'
    BY DEF InoInv, UniqueInodes
  <1> QED BY <1>1, <1>2, <1>3 DEF InoInv

\* No step leaves the types.
LEMMA StepInoTypeOK == BufInv /\ InoTypeOK /\ [INext]_ivars => InoTypeOK'
  <1> SUFFICES ASSUME BufInv, InoTypeOK, [INext]_ivars PROVE InoTypeOK'
    OBVIOUS
  <1> USE DEF InoTypeOK, IAt, IGoto, ILabels, inoVars, locVars
  <1>1. ASSUME NEW p \in Procs, Lookup(p) \/ LookupRoot(p) \/ LookupCwd(p)
        PROVE  InoTypeOK'
    <2>1. CASE Lookup(p)
      BY <2>1, NDirectAssumption, MaxLookupsAssumption DEF Lookup
    <2>2. CASE LookupRoot(p)
      BY <2>2, MaxLookupsAssumption, InumsAssumption, ISlotsLemma DEF LookupRoot
    <2>3. CASE LookupCwd(p)
      BY <2>3 DEF LookupCwd
    <2> QED BY <1>1, <2>1, <2>2, <2>3
  <1>2. ASSUME NEW p \in Procs, NameiStep(p) PROVE InoTypeOK'
    <2>1. CASE LookupBread(p)
      BY <2>1, NDirectAssumption DEF LookupBread
    <2>2. CASE LookupFound(p)
      BY <2>2, EntriesAssumption DEF LookupFound
    <2>3. CASE LookupNext(p) \/ LookupLoop(p) \/ LookupPanic(p)
      BY <2>3 DEF LookupNext, LookupLoop, LookupPanic
    <2> QED BY <1>2, <2>1, <2>2, <2>3 DEF NameiStep
  <1>3. ASSUME NEW p \in Procs, IgetStep(p) PROVE InoTypeOK'
    <2>1. CASE IgetAcquire(p)
      BY <2>1 DEF IgetAcquire, Holders
    <2>2. CASE IgetHit(p)
      BY <2>2 DEF IgetHit, IsFirst, INamed, Holders
    <2>3. CASE IgetBread(p)
      BY <2>3 DEF IgetBread, IsFirst, IUnused
    <2>4. CASE IgetPanic(p) \/ IgetBrelease(p)
      BY <2>4 DEF IgetPanic, IgetBrelease
    <2>5. CASE IgetCopy(p)
      <3>1. Record(b_data[cur[p]], iwant[p]) \in Records
        BY DEF Record, Records, BufInv, BufTypeOK
      <3> QED BY <2>5, <3>1 DEF IgetCopy
    <2>6. CASE IgetName(p)
      BY <2>6 DEF IgetName
    <2>7. CASE IgetLoad(p)
      BY <2>7 DEF IgetLoad
    <2>8. CASE IgetIncr(p)
      BY <2>8, ByteLemma DEF IgetIncr, Holders
    <2>9. CASE IgetRelease(p)
      BY <2>9 DEF IgetRelease, Holders
    <2> QED BY <1>3, <2>1, <2>2, <2>3, <2>4, <2>5, <2>6, <2>7, <2>8, <2>9
           DEF IgetStep
  <1>4. ASSUME NEW p \in Procs, StatStep(p) PROVE InoTypeOK'
    <2>1. CASE Stat(p) \/ StatCopy(p) \/ Irelease(p)
      BY <2>1 DEF Stat, StatCopy, Irelease
    <2>2. CASE Iput(p)
      BY <2>2 DEF Iput, Holders
    <2>3. CASE IreleaseLoad(p)
      BY <2>3 DEF IreleaseLoad
    <2>4. CASE IreleaseDec(p)
      BY <2>4, ByteLemma DEF IreleaseDec, Holders
    <2> QED BY <1>4, <2>1, <2>2, <2>3, <2>4 DEF StatStep
  <1>5. ASSUME NEW p \in Procs, BufferStep(p) PROVE InoTypeOK'
    BY <1>5 DEF BufferStep
  <1>6. CASE UNCHANGED ivars
    BY <1>6 DEF ivars
  <1> QED BY <1>1, <1>2, <1>3, <1>4, <1>5, <1>6 DEF INext

LEMMA StepInoInv == BufInv /\ InoInv /\ [INext]_ivars => InoInv'
  <1> SUFFICES ASSUME BufInv, InoInv, [INext]_ivars PROVE InoInv'
    OBVIOUS
  <1>0. InoTypeOK /\ InoTypeOK'
    BY StepInoTypeOK DEF InoInv
  <1>00. /\ ipc \in [Procs -> ILabels]
         /\ i_num \in [ISlots -> Inums]
         /\ iwant \in [Procs -> Inums]
         /\ icur \in [Procs -> ISlots]
    BY <1>0 DEF InoTypeOK
  <1> USE DEF IAt, IGoto, inoVars, locVars
  <1>1. ASSUME NEW p \in Procs, Lookup(p) \/ LookupRoot(p) \/ LookupCwd(p)
        PROVE  InoInv'
    <2>1. CASE Lookup(p) \/ LookupCwd(p)
      BY <1>0, <1>00, <2>1, NamesUndisturbed DEF Lookup, LookupCwd, InIget
    <2>2. CASE LookupRoot(p)
      <3>1. /\ ipc[p] = "user" /\ ipc' = [ipc EXCEPT ![p] = "have"]
            /\ UNCHANGED <<i_num, icache_sl>>
            /\ \A q \in Procs \ {p} : iwant'[q] = iwant[q]
        BY <1>00, <2>2 DEF LookupRoot
      <3>2. IgetLocked' /\ NumberStillFree' /\ UniqueInodes'
        BY <1>00, <3>1 DEF InoInv, IgetLocked, NumberStillFree, UniqueInodes, InIget
      <3> QED BY <1>0, <3>2 DEF InoInv
    <2> QED BY <1>1, <2>1, <2>2
  <1>2. ASSUME NEW p \in Procs, NameiStep(p) PROVE InoInv'
    <2>1. CASE LookupFound(p)
      <3>1. ipc[p] = "scan" /\ ipc' = [ipc EXCEPT ![p] = "iget"]
            /\ UNCHANGED <<i_num, icache_sl>>
            /\ \A q \in Procs \ {p} : iwant'[q] = iwant[q]
        BY <1>00, <2>1 DEF LookupFound
      <3>2. IgetLocked' /\ NumberStillFree' /\ UniqueInodes'
        BY <1>00, <3>1 DEF InoInv, IgetLocked, NumberStillFree, UniqueInodes,
           InIget
      <3> QED BY <1>0, <3>2 DEF InoInv
    <2>2. CASE LookupBread(p) \/ LookupNext(p) \/ LookupLoop(p)
               \/ LookupPanic(p)
      BY <1>0, <1>00, <2>2, NamesUndisturbed
      DEF LookupBread, LookupNext, LookupLoop, LookupPanic, InIget
    <2> QED BY <1>2, <2>1, <2>2 DEF NameiStep
  <1>3. ASSUME NEW p \in Procs, IgetStep(p) PROVE InoInv'
    <2>1. CASE IgetAcquire(p)
      <3>1. IgetLocked'
        BY <1>00, <2>1, NoProcAssumption
        DEF IgetAcquire, InoInv, IgetLocked, InIget
      <3>2. NumberStillFree' /\ UniqueInodes'
        BY <1>00, <2>1 DEF IgetAcquire, InoInv, NumberStillFree, UniqueInodes
      <3> QED BY <1>0, <3>1, <3>2 DEF InoInv
    <2>2. CASE IgetHit(p) \/ IgetRelease(p)
      <3>1. /\ ipc[p] \in InIget
            /\ \E l \in {"have"} : ipc' = [ipc EXCEPT ![p] = l]
            /\ UNCHANGED <<i_num, iwant>>
        BY <2>2 DEF IgetHit, IgetRelease, InIget
      <3>2. \A q \in Procs \ {p} : ipc[q] \notin InIget
        BY <3>1, NoProcAssumption DEF InoInv, IgetLocked
      <3>3. IgetLocked' /\ NumberStillFree' /\ UniqueInodes'
        BY <1>00, <3>1, <3>2
        DEF InoInv, IgetLocked, NumberStillFree, UniqueInodes, InIget
      <3> QED BY <1>0, <3>3 DEF InoInv
    <2>3. CASE IgetBread(p)
      <3>1. \A s \in ISlots : i_num[s] # iwant[p]
        BY <2>3 DEF IgetBread, INamed
      <3>2. ipc[p] = "ifind" /\ ipc' = [ipc EXCEPT ![p] = "icopy"]
            /\ UNCHANGED <<i_num, iwant, icache_sl>>
        BY <2>3 DEF IgetBread
      <3>3. IgetLocked' /\ NumberStillFree' /\ UniqueInodes'
        BY <1>00, <3>1, <3>2
        DEF InoInv, IgetLocked, NumberStillFree, UniqueInodes, InIget
      <3> QED BY <1>0, <3>3 DEF InoInv
    <2>4. CASE IgetName(p)
      <3>1. /\ ipc[p] = "iname"
            /\ ipc' = [ipc EXCEPT ![p] = "iload"]
            /\ i_num' = [i_num EXCEPT ![icur[p]] = iwant[p]]
            /\ UNCHANGED <<iwant, icache_sl>>
        BY <2>4 DEF IgetName
      <3>2. \A q \in Procs \ {p} : ipc[q] \notin InIget
        BY <3>1, NoProcAssumption DEF InoInv, IgetLocked, InIget
      <3>3. \A s \in ISlots : i_num[s] # iwant[p]
        BY <3>1 DEF InoInv, NumberStillFree
      <3>4. IgetLocked' /\ NumberStillFree'
        BY <1>00, <3>1, <3>2
        DEF InoInv, IgetLocked, NumberStillFree, InIget
      <3>5. UniqueInodes'
        BY <1>00, <3>1, <3>3 DEF InoInv, UniqueInodes
      <3> QED BY <1>0, <3>4, <3>5 DEF InoInv
    <2>5. CASE IgetPanic(p) \/ IgetCopy(p) \/ IgetLoad(p) \/ IgetIncr(p)
               \/ IgetBrelease(p)
      BY <1>0, <1>00, <2>5, NamesUndisturbed
      DEF IgetPanic, IgetCopy, IgetLoad, IgetIncr, IgetBrelease, InIget
    <2> QED BY <1>3, <2>1, <2>2, <2>3, <2>4, <2>5 DEF IgetStep
  <1>4. ASSUME NEW p \in Procs, StatStep(p) PROVE InoInv'
    BY <1>0, <1>00, <1>4, NamesUndisturbed
    DEF StatStep, Stat, StatCopy, Iput, Irelease, IreleaseLoad, IreleaseDec,
        InIget
  <1>5. ASSUME NEW p \in Procs, BufferStep(p) PROVE InoInv'
    BY <1>0, <1>5, NamesUndisturbed DEF BufferStep
  <1>6. CASE UNCHANGED ivars
    BY <1>0, <1>6, NamesUndisturbed DEF ivars
  <1> QED BY <1>1, <1>2, <1>3, <1>4, <1>5, <1>6 DEF INext

\* The inode cache and the buffer cache below it stay well typed
\* (inode.c:15-83, stat.c:6-37, namei.c:9-54).
THEOREM InodeTypes == ISpec => []ITypeOK
  <1>1. BufInv /\ InoInv /\ [INext]_ivars => BufInv' /\ InoInv'
    BY StepKeepsBufInv, StepInoInv DEF InoInv
  <1>2. BufInv /\ InoInv => ITypeOK
    BY DEF BufInv, InoInv, ITypeOK
  <1> QED BY InitInoInv, <1>1, <1>2, PTL DEF ISpec

\* There is one structure in memory for each file, whatever the processes that
\* look files up at once (fs.h:97-99, inode.c:15-44).
THEOREM InodesUnique == ISpec => []UniqueInodes
  <1>1. BufInv /\ InoInv /\ [INext]_ivars => BufInv' /\ InoInv'
    BY StepKeepsBufInv, StepInoInv DEF InoInv
  <1>2. InoInv => UniqueInodes
    BY DEF InoInv
  <1> QED BY InitInoInv, <1>1, <1>2, PTL DEF ISpec

\* With the inode cache as its caller, holding icache.sl over a bread or not,
\* the buffer cache still gives no block two buffers (block.c:139-164).
THEOREM BlocksUniqueBelow == ISpec => []UniqueBlocks
  <1>1. BufInv /\ InoInv /\ [INext]_ivars => BufInv' /\ InoInv'
    BY StepKeepsBufInv, StepInoInv DEF InoInv
  <1>2. BufInv => UniqueBlocks
    BY DEF BufInv
  <1> QED BY InitInoInv, <1>1, <1>2, PTL DEF ISpec
=============================================================================
