-------------------------- MODULE ReadWriteProofs --------------------------
(***************************************************************************)
(* Type correctness of sys_read, sys_write and sys_seek, that the index    *)
(* stays in the block, and that a process alone on the cursor copies at    *)
(* it, for any number of processes on one cursor, any block size and any   *)
(* file.                                                                   *)
(***************************************************************************)
EXTENDS ReadWrite, TLAPS

\* Between the copying of a byte and the test for the end of the block, the
\* index may be one past the last byte, and the new cursor is no offset below 0.
Counted == \A p \in Procs : pc[p] = "store" => reg[p] \in Nat

Inv == TypeOK /\ IndexInBlock /\ Counted

\* The address of a block and the index into it are defined for every cursor.
LEMMA Division ==
    \A off \in Nat : off \div BLK_SZ \in Nat /\ off % BLK_SZ \in 0..(BLK_SZ - 1)
  BY BlockSizeAssumption

\* Every address baddr may return is a block or -1 (read_write.c:195-207).
LEMMA BaddrType == \A off \in Nat : Baddr(off) \subseteq AnyBlock
  <1> SUFFICES ASSUME NEW off \in Nat PROVE Baddr(off) \subseteq AnyBlock
    OBVIOUS
  <1>1. off \div BLK_SZ \in Nat
    BY Division
  <1>2. \A n \in Nat : n < NR_ADDR => Addr[n] \in Blocks
    BY AddrAssumption
  <1> QED
    BY <1>1, <1>2 DEF Baddr, AnyBlock

LEMMA InitInv == Init => Inv
  <1> SUFFICES ASSUME Init PROVE Inv
    OBVIOUS
  <1>1. TypeOK
    <2>1. /\ i \in [Procs -> 0..BLK_SZ]
          /\ left \in [Procs -> 0..MaxBytes]
          /\ reg \in [Procs -> Int]
          /\ calls \in 0..MaxCalls
      BY BlockSizeAssumption, BoundsAssumption DEF Init
    <2> QED
      BY <2>1 DEF Init, TypeOK, AnyBlock, Labels
  <1>2. IndexInBlock /\ Counted
    BY DEF Init, IndexInBlock, Counted
  <1> QED
    BY <1>1, <1>2 DEF Inv

\* A kernel that stops keeps everything else.
LEMMA StopInv ==
    ASSUME Inv, \E why \in {"fault", "panic"} : Stop(why)
    PROVE  Inv'
  BY DEF Inv, TypeOK, IndexInBlock, Counted, Stop, loopVars, ghosts

LEMMA StepInv == Inv /\ [Next]_vars => Inv'
  <1> SUFFICES ASSUME Inv, [Next]_vars PROVE Inv'
    OBVIOUS
  <1> USE DEF Inv, IndexInBlock, Counted, At, Goto
  <1>u. CASE UNCHANGED vars
    BY <1>u DEF TypeOK, vars, loopVars, ghosts
  <1>s. CASE Sbread
    BY <1>s DEF TypeOK, Sbread, loopVars, ghosts
  <1>p. ASSUME NEW p \in Procs,
               Refused(p) \/ Read(p) \/ Write(p) \/ Seek(p) \/ Run(p)
        PROVE  Inv'
    <2>1. CASE Refused(p)
      BY <2>1, StopInv DEF Refused
    <2>2. ASSUME NEW o \in {"read", "write"}, NEW n \in 0..MaxBytes,
                 Start(p, o, n)
          PROVE  Inv'
      BY <2>2, BoundsAssumption
      DEF TypeOK, Start, Call, Busy, Labels, ghosts
    <2>3. CASE Read(p) \/ Write(p)
      BY <2>2, <2>3 DEF Read, Write
    <2>4. CASE Seek(p)
      <3>1. PICK offset \in Offsets :
               \E off \in {f_off + offset, f_off - offset, offset} :
                  reg' = [reg EXCEPT ![p] = off]
        BY <2>4 DEF Seek
      <3>2. offset \in Int /\ f_off \in Int
        BY SizeAssumption DEF TypeOK
      <3>3. reg' \in [Procs -> Int]
        BY <3>1, <3>2 DEF TypeOK
      <3> QED
        BY <2>4, <3>3, BoundsAssumption
        DEF Seek, TypeOK, Call, Busy, Labels, loopVars
    <2>5. CASE Bread(p)
      <3>1. PICK b \in AnyBlock : blk' = [blk EXCEPT ![p] = b]
        BY <2>5, BaddrType DEF Bread, TypeOK
      <3> QED
        BY <2>5, <3>1 DEF Bread, TypeOK, Labels, ghosts
    <2>6. CASE Index(p)
      <3>1. f_off % BLK_SZ \in 0..(BLK_SZ - 1)
        BY Division DEF TypeOK
      <3> QED
        BY <2>6, <3>1, BlockSizeAssumption DEF Index, TypeOK, Labels, ghosts
    <2>7. CASE Copy(p)
      <3>1. i[p] < BLK_SZ
        BY <2>7 DEF Copy
      <3> QED
        BY <2>7, <3>1, BlockSizeAssumption, BoundsAssumption
        DEF Copy, TypeOK, Labels, ghosts
    <2>8. CASE Store(p)
      BY <2>8, BlockSizeAssumption DEF Store, TypeOK, Labels, loopVars, ghosts
    <2>9. CASE Done(p)
      BY <2>9, BlockSizeAssumption DEF Done, TypeOK, Labels, AnyBlock, ghosts
    <2>10. CASE Full(p)
      BY <2>10, BlockSizeAssumption DEF Full, TypeOK, Labels, AnyBlock, ghosts
    <2>11. CASE BallocNothing(p)
      BY <2>11, StopInv DEF BallocNothing, TypeOK, Labels, ghosts
    <2>12. CASE BallocScan(p)
      BY <2>12, StopInv DEF BallocScan, TypeOK, Labels, loopVars, ghosts
    <2>13. CASE SeekBad(p)
      BY <2>13, StopInv DEF SeekBad
    <2>14. CASE SeekStore(p)
      BY <2>14 DEF SeekStore, TypeOK, Labels, loopVars, ghosts
    <2> QED
      BY <1>p, <2>1, <2>3, <2>4, <2>5, <2>6, <2>7, <2>8, <2>9, <2>10, <2>11,
         <2>12, <2>13, <2>14 DEF Run
  <1> QED
    BY <1>u, <1>s, <1>p DEF Next

\* The invariant of the loops of sys_read and sys_write.
THEOREM Invariance == Spec => []Inv
  <1>1. Init => Inv
    BY InitInv
  <1>2. Inv /\ [Next]_vars => Inv'
    BY StepInv
  <1> QED
    BY <1>1, <1>2, PTL DEF Spec

\* Every variable keeps its type; the cursor never gets below 0.
THEOREM ReadWriteTypes == Spec => []TypeOK
  <1>1. Inv => TypeOK
    BY DEF Inv
  <1> QED
    BY <1>1, Invariance, PTL

\* No byte is copied from or to the place behind a block
\* (read_write.c:55-70, 119-133).
THEOREM IndexStaysInBlock == Spec => []IndexInBlock
  <1>1. Inv => IndexInBlock
    BY DEF Inv
  <1> QED
    BY <1>1, Invariance, PTL

-----------------------------------------------------------------------------
(* Division by the size of a block *)

LEMMA Multiples ==
    ASSUME NEW a \in Int, NEW b \in Int, a < b
    PROVE  BLK_SZ * a + BLK_SZ <= BLK_SZ * b
  <1>1. \A k \in Nat : BLK_SZ * k \in Nat
    BY BlockSizeAssumption
  <1>2. (b - a) - 1 \in Nat
    OBVIOUS
  <1>3. BLK_SZ * ((b - a) - 1) = BLK_SZ * b - (BLK_SZ * a + BLK_SZ)
    BY BlockSizeAssumption
  <1> QED
    BY <1>1, <1>2, <1>3, BlockSizeAssumption

LEMMA Remainder ==
    ASSUME NEW off \in Nat
    PROVE  off = BLK_SZ * (off \div BLK_SZ) + (off % BLK_SZ)
  BY BlockSizeAssumption

LEMMA OneQuotient ==
    ASSUME NEW q \in Int, NEW k \in Int,
           NEW r \in 0..(BLK_SZ - 1), NEW t \in 0..(BLK_SZ - 1),
           BLK_SZ * q + r = BLK_SZ * k + t
    PROVE  q = k /\ r = t
  <1>0. BLK_SZ * q \in Int /\ BLK_SZ * k \in Int
    BY BlockSizeAssumption
  <1>1. ~(q < k)
    <2> SUFFICES ASSUME q < k PROVE FALSE
      OBVIOUS
    <2>1. BLK_SZ * q + BLK_SZ <= BLK_SZ * k
      BY Multiples
    <2> QED
      BY <2>1, <1>0, BlockSizeAssumption
  <1>2. ~(k < q)
    <2> SUFFICES ASSUME k < q PROVE FALSE
      OBVIOUS
    <2>1. BLK_SZ * k + BLK_SZ <= BLK_SZ * q
      BY Multiples
    <2> QED
      BY <2>1, <1>0, BlockSizeAssumption
  <1> QED
    BY <1>1, <1>2, <1>0, BlockSizeAssumption

\* The next byte is in the same block unless this one was its last.
LEMMA NextByte ==
    ASSUME NEW off \in Nat, (off % BLK_SZ) + 1 # BLK_SZ
    PROVE  /\ (off + 1) % BLK_SZ = (off % BLK_SZ) + 1
           /\ (off + 1) \div BLK_SZ = off \div BLK_SZ
  <1>1. /\ off = BLK_SZ * (off \div BLK_SZ) + (off % BLK_SZ)
        /\ off % BLK_SZ \in 0..(BLK_SZ - 1) /\ off \div BLK_SZ \in Int
    BY Remainder, Division
  <1>2. /\ off + 1 = BLK_SZ * ((off + 1) \div BLK_SZ) + ((off + 1) % BLK_SZ)
        /\ (off + 1) % BLK_SZ \in 0..(BLK_SZ - 1) /\ (off + 1) \div BLK_SZ \in Int
    BY Remainder, Division
  <1>3. (off % BLK_SZ) + 1 \in 0..(BLK_SZ - 1)
    BY <1>1, BlockSizeAssumption
  <1>4. BLK_SZ * (off \div BLK_SZ) \in Int /\ off % BLK_SZ \in Int
    BY <1>1, BlockSizeAssumption
  <1>5. BLK_SZ * (off \div BLK_SZ) + ((off % BLK_SZ) + 1) = off + 1
    BY <1>1, <1>4
  <1>6. BLK_SZ * (off \div BLK_SZ) + ((off % BLK_SZ) + 1)
          = BLK_SZ * ((off + 1) \div BLK_SZ) + ((off + 1) % BLK_SZ)
    BY <1>2, <1>5
  <1>7. off \div BLK_SZ = (off + 1) \div BLK_SZ /\ (off % BLK_SZ) + 1 = (off + 1) % BLK_SZ
    BY <1>1, <1>2, <1>3, <1>6, OneQuotient
  <1> QED
    BY <1>7

-----------------------------------------------------------------------------
(* A process alone on the cursor *)

\* Two processes in a call have met.
Alone == \A p, q \in Procs : p # q /\ pc[p] # "user" /\ pc[q] # "user" => p \in met

\* Where the cursor of a process that met nobody is, and its block.
CursorOf(p) ==
    /\ pc[p] = "balloc" => op[p] = "write"
    /\ p \notin met =>
        /\ pc[p] \in {"index", "loop", "store"} /\ op[p] = "read" => blk[p] \in Baddr(f_off)
        /\ pc[p] = "loop" => i[p] = f_off % BLK_SZ
        /\ pc[p] = "store" => i[p] = (f_off % BLK_SZ) + 1 /\ reg[p] = f_off + 1

AloneInv == Alone /\ \A p \in Procs : CursorOf(p)

\* A new call meets all that are under way.
LEMMA CallAlone ==
    ASSUME TypeOK, AloneInv, NEW p \in Procs,
           (\E o \in {"read", "write"}, n \in 0..MaxBytes : Start(p, o, n)) \/ Seek(p)
    PROVE  AloneInv'
  <1>1. /\ pc[p] = "user" /\ \E l \in {"bread", "seek"} : pc' = [pc EXCEPT ![p] = l]
        /\ met' = IF Busy = {} THEN met \ {p} ELSE met \cup Busy \cup {p}
        /\ UNCHANGED <<f_off, blk, i>>
        /\ \A q \in Procs : q # p => op'[q] = op[q] /\ reg'[q] = reg[q]
    BY DEF Start, Seek, Call, At, Goto, loopVars, TypeOK
  <1>2. pc'[p] \in {"bread", "seek"} /\ \A q \in Procs : q # p => pc'[q] = pc[q]
    BY <1>1 DEF TypeOK
  <1>3. ASSUME NEW q \in Procs, NEW r \in Procs, q # r, pc'[q] # "user", pc'[r] # "user"
        PROVE  q \in met'
    <2>1. CASE q = p \/ r = p
      BY <1>1, <1>2, <1>3, <2>1 DEF Busy
    <2>2. CASE q # p /\ r # p
      BY <1>1, <1>2, <1>3, <2>2 DEF AloneInv, Alone
    <2> QED
      BY <2>1, <2>2
  <1>4. ASSUME NEW q \in Procs PROVE CursorOf(q)'
    <2>1. CASE q = p
      BY <1>2, <2>1 DEF CursorOf
    <2>2. CASE q # p /\ pc[q] = "user"
      BY <1>2, <2>2 DEF CursorOf
    <2>3. CASE q # p /\ pc[q] # "user"
      <3>1. q \in met'
        BY <1>1, <2>3 DEF Busy
      <3> QED
        BY <1>1, <1>2, <2>3, <3>1 DEF AloneInv, CursorOf
    <2> QED
      BY <2>1, <2>2, <2>3
  <1> QED
    BY <1>3, <1>4 DEF AloneInv, Alone

\* What a process does in its call concerns nobody who met nobody.
LEMMA OthersAlone ==
    ASSUME AloneInv, NEW p \in Procs, pc[p] # "user", UNCHANGED met, CursorOf(p)',
           \A q \in Procs : q # p => pc'[q] = pc[q] /\ op'[q] = op[q]
    PROVE  AloneInv'
  <1>1. Alone'
    BY DEF AloneInv, Alone
  <1>2. ASSUME NEW q \in Procs, q # p PROVE CursorOf(q)'
    <2>1. pc[q] = "user" \/ q \in met
      BY <1>2 DEF AloneInv, Alone
    <2> QED
      BY <1>2, <2>1 DEF AloneInv, CursorOf
  <1> QED
    BY <1>1, <1>2 DEF AloneInv

LEMMA SameAlone ==
    ASSUME AloneInv, UNCHANGED <<f_off, pc, op, blk, i, reg, met>>
    PROVE  AloneInv'
  BY DEF AloneInv, Alone, CursorOf

LEMMA RunAlone ==
    ASSUME TypeOK, AloneInv, NEW p \in Procs, Run(p)
    PROVE  AloneInv'
  <1>0. CursorOf(p)
    BY DEF AloneInv
  <1> USE DEF At, Goto, loopVars, ghosts, TypeOK, CursorOf
  <1>1. CASE Bread(p)
    BY <1>0, <1>1, OthersAlone DEF Bread
  <1>2. CASE Index(p)
    BY <1>0, <1>2, OthersAlone DEF Index
  <1>3. CASE Copy(p)
    BY <1>0, <1>3, OthersAlone DEF Copy
  <1>4. CASE Store(p)
    <2>1. /\ pc[p] = "store" /\ f_off' = reg[p] /\ UNCHANGED <<op, blk, i, met>>
          /\ pc' = [pc EXCEPT ![p] = IF i[p] = BLK_SZ THEN "full" ELSE "loop"]
      BY <1>4 DEF Store
    <2>2. CASE p \notin met /\ i[p] # BLK_SZ
      <3>1. /\ f_off' % BLK_SZ = i[p]
            /\ f_off' \div BLK_SZ = f_off \div BLK_SZ
        BY <1>0, <2>1, <2>2, NextByte
      <3>2. Baddr(f_off') = Baddr(f_off)
        BY <3>1 DEF Baddr
      <3>3. CursorOf(p)'
        BY <1>0, <2>1, <2>2, <3>1, <3>2
      <3> QED
        BY <2>1, <3>3, OthersAlone
    <2>3. CASE p \in met \/ i[p] = BLK_SZ
      BY <2>1, <2>3, OthersAlone
    <2> QED
      BY <2>2, <2>3
  <1>5. CASE Done(p)
    BY <1>5, OthersAlone DEF Done
  <1>6. CASE Full(p)
    BY <1>6, OthersAlone DEF Full
  <1>7. CASE BallocNothing(p)
    <2>1. CASE \E why \in {"fault", "panic"} : Stop(why)
      BY <2>1, SameAlone DEF Stop
    <2>2. CASE ~\E why \in {"fault", "panic"} : Stop(why)
      BY <1>0, <1>7, <2>2, OthersAlone DEF BallocNothing
    <2> QED
      BY <2>1, <2>2
  <1>8. CASE BallocScan(p)
    <2>1. CASE \E why \in {"fault", "panic"} : Stop(why)
      BY <2>1, SameAlone DEF Stop
    <2>2. CASE ~\E why \in {"fault", "panic"} : Stop(why)
      BY <1>8, <2>2, OthersAlone DEF BallocScan
    <2> QED
      BY <2>1, <2>2
  <1>9. CASE SeekBad(p)
    BY <1>9, SameAlone DEF SeekBad, Stop
  <1>10. CASE SeekStore(p)
    BY <1>10, OthersAlone DEF SeekStore
  <1> QED
    BY <1>1, <1>2, <1>3, <1>4, <1>5, <1>6, <1>7, <1>8, <1>9, <1>10 DEF Run

LEMMA StepAlone == TypeOK /\ AloneInv /\ [Next]_vars => AloneInv'
  <1> SUFFICES ASSUME TypeOK, AloneInv, [Next]_vars PROVE AloneInv'
    OBVIOUS
  <1>1. ASSUME NEW p \in Procs, Refused(p) PROVE AloneInv'
    BY <1>1, SameAlone DEF Refused, Stop, loopVars, ghosts
  <1>2. ASSUME NEW p \in Procs, Read(p) \/ Write(p) \/ Seek(p) PROVE AloneInv'
    BY <1>2, CallAlone DEF Read, Write
  <1>3. ASSUME NEW p \in Procs, Run(p) PROVE AloneInv'
    BY <1>3, RunAlone
  <1>4. CASE Sbread \/ UNCHANGED vars
    BY <1>4, SameAlone DEF Sbread, vars, loopVars, ghosts
  <1> QED
    BY <1>1, <1>2, <1>3, <1>4 DEF Next

\* Who met nobody in its call copies at the cursor, from the block the cursor
\* points to, also behind the end of a block (read_write.c:52-68).
THEOREM CursorIsInHand == Spec => []CursorInHand
  <1>1. Init => AloneInv
    BY DEF Init, AloneInv, Alone, CursorOf
  <1>2. TypeOK /\ AloneInv => CursorInHand
    BY DEF AloneInv, CursorOf, CursorInHand
  <1> QED
    BY <1>1, <1>2, StepAlone, ReadWriteTypes, PTL DEF Spec
=============================================================================
