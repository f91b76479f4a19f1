----------------------------- MODULE FileProofs -----------------------------
(***************************************************************************)
(* Theorems of the table of open files, for any number of processes,       *)
(* entries, descriptors, inodes in memory and paths looked up.             *)
(***************************************************************************)
EXTENDS FileTable, FiniteSetTheorems, TLAPS

\* A process that searches or changes the table owns its lock.
TableLocked ==
    \A p \in Procs :
        fpc[p] \in {"fsearch", "fshare", "ftake", "drop", "put", "clear"}
            => open_files_sl = p

\* Who is about to fill an entry has seen that no entry has the slot of its
\* inode.
InodeStillFree ==
    \A p \in Procs : fpc[p] = "ftake" =>
        \A f \in Files : f_inode[f] = ino[p] => f_inode[f] = NoInode

\* No two entries point to one slot ...
OneEntry ==
    \A f, g \in Files :
        f # g /\ f_inode[f] = f_inode[g] => f_inode[f] = NoInode

\* ... no two slots are for one file ...
OneSlot ==
    \A s, t \in Slots : s # t /\ i_num[s] = i_num[t] => i_num[s] = NoInum

\* ... and what a process or an entry points to was read from a file.
PointsToRead ==
    /\ \A p \in Procs : ino[p] # NoInode => i_num[ino[p]] # NoInum
    /\ \A f \in Files : f_inode[f] # NoInode => i_num[f_inode[f]] # NoInum

\* The inductive invariant of UniqueFiles, in two parts.
IInv == TypeOK /\ TableLocked /\ InodeStillFree /\ OneEntry
NInv == OneSlot /\ PointsToRead

-----------------------------------------------------------------------------
LEMMA InitIInv == Init => IInv
  <1>1. 0 \in Byte /\ 3 \in Fds /\ 0 \in 0..MaxPaths
    BY NrOFilesAssumption, MaxPathsAssumption DEF Byte, Fds
  <1>2. Init => TypeOK
    BY <1>1 DEF Init, TypeOK, Holders, FLabels, Halts
  <1> QED BY <1>2 DEF IInv, Init, TableLocked, InodeStillFree, OneEntry

LEMMA InitNInv == Init => NInv
  BY DEF Init, NInv, OneSlot, PointsToRead

\* The counts stay u8_t, whatever pointer they are changed through.
LEMMA CountLemma ==
  ASSUME NEW c \in [Files -> Byte], NEW f
  PROVE  /\ [c EXCEPT ![f] = (@ + 1) % 256] \in [Files -> Byte]
         /\ [c EXCEPT ![f] = (@ + 255) % 256] \in [Files -> Byte]
  <1>1. \A n \in Byte : (n + 1) % 256 \in Byte /\ (n + 255) % 256 \in Byte
    BY SMT DEF Byte
  <1>2. CASE f \in Files
    BY <1>1, <1>2
  <1>3. CASE f \notin Files
    BY <1>3
  <1> QED BY <1>2, <1>3

LEMMA SlotCountLemma ==
  ASSUME NEW c \in [Slots -> Byte], NEW s
  PROVE  /\ [c EXCEPT ![s] = (@ + 1) % 256] \in [Slots -> Byte]
         /\ [c EXCEPT ![s] = (@ + 255) % 256] \in [Slots -> Byte]
  <1>1. \A n \in Byte : (n + 1) % 256 \in Byte /\ (n + 255) % 256 \in Byte
    BY SMT DEF Byte
  <1>2. CASE s \in Slots
    BY <1>1, <1>2
  <1>3. CASE s \notin Slots
    BY <1>3
  <1> QED BY <1>2, <1>3

LEMMA SlotsLemma == NoInode \notin Slots
  BY NoInodeAssumption, NrInodeAssumption, SMT DEF Slots

\* namei gives slot s for file n, and changes no other one.
NameiHitAt(n, s) == i_num[s] = n /\ UNCHANGED inoVars
NameiTakeAt(n, s) ==
    /\ i_count[s] = 0
    /\ \A t \in Slots : i_num[t] # n
    /\ i_num' = [i_num EXCEPT ![s] = n]
    /\ i_count' = [i_count EXCEPT ![s] = (@ + 1) % 256]
    /\ i_sl' = [i_sl EXCEPT ![s] = NoProc]
NameiAt(p, n, s) ==
    /\ ino' = [ino EXCEPT ![p] = s]
    /\ NameiHitAt(n, s) \/ NameiTakeAt(n, s)

LEMMA NameiLemma ==
  ASSUME TypeOK, NEW p \in Procs, NEW label, Namei(p, label)
  PROVE  /\ At(p, "user") /\ fpc' = [fpc EXCEPT ![p] = label]
         /\ UNCHANGED <<entVars, lockVars, file, fd, halted>>
         /\ paths' \in 0..MaxPaths
         /\ \E n \in Inums, s \in Slots : NameiAt(p, n, s)
  <1>1. paths' \in 0..MaxPaths
    BY MaxPathsAssumption DEF Namei, TypeOK
  <1>2. /\ At(p, "user") /\ fpc' = [fpc EXCEPT ![p] = label]
        /\ UNCHANGED <<entVars, lockVars, file, fd, halted>>
    BY Zenon DEF Namei, Goto
  <1>3. PICK n \in Inums : NameiHit(p, n) \/ NameiTake(p, n)
    BY Zenon DEF Namei
  <1>4. CASE NameiHit(p, n)
    BY <1>1, <1>2, <1>4, Zenon DEF NameiHit, IsFirst, Named, NameiAt,
       NameiHitAt
  <1>5. CASE NameiTake(p, n)
    BY <1>1, <1>2, <1>5, Zenon DEF NameiTake, IsFirst, Named, Unused, NameiAt,
       NameiTakeAt
  <1> QED BY <1>3, <1>4, <1>5

LEMMA NameiTypeOK ==
  ASSUME TypeOK, NEW p \in Procs, NEW label \in FLabels, Namei(p, label)
  PROVE  TypeOK'
  <1>1. /\ fpc' = [fpc EXCEPT ![p] = label]
        /\ UNCHANGED <<entVars, lockVars, file, fd, halted>>
        /\ paths' \in 0..MaxPaths
    BY NameiLemma, Zenon
  <1>2. PICK n \in Inums, s \in Slots : NameiAt(p, n, s)
    BY NameiLemma, Zenon
  <1>3. i_count' \in [Slots -> Byte]
    <2>1. i_count \in [Slots -> Byte]
      BY DEF TypeOK
    <2>2. [i_count EXCEPT ![s] = (@ + 1) % 256] \in [Slots -> Byte]
      BY <2>1, SlotCountLemma, Zenon
    <2> QED BY <1>2, <2>1, <2>2, Zenon DEF inoVars, NameiAt, NameiHitAt,
           NameiTakeAt
  <1>4. /\ i_num' \in [Slots -> Inums \cup {NoInum}]
        /\ i_sl' \in [Slots -> Holders]
        /\ ino' \in [Procs -> Slots \cup {NoInode}]
    <2>1. /\ i_num \in [Slots -> Inums \cup {NoInum}]
          /\ i_sl \in [Slots -> Holders] /\ NoProc \in Holders
          /\ ino \in [Procs -> Slots \cup {NoInode}]
      BY DEF TypeOK, Holders
    <2>2. ino' = [ino EXCEPT ![p] = s]
      BY <1>2, Zenon DEF NameiAt
    <2>3. /\ i_num' = i_num \/ i_num' = [i_num EXCEPT ![s] = n]
          /\ i_sl' = i_sl \/ i_sl' = [i_sl EXCEPT ![s] = NoProc]
      BY <1>2, Zenon DEF NameiAt, NameiHitAt, NameiTakeAt, inoVars
    <2> QED BY <2>1, <2>2, <2>3
  <1>5. fpc' \in [Procs -> FLabels]
    BY <1>1 DEF TypeOK
  <1> QED BY <1>1, <1>3, <1>4, <1>5 DEF TypeOK, entVars, lockVars

\* irelease changes a count and a lock at most.
LEMMA IreleaseTypes ==
  ASSUME TypeOK, NEW p \in Procs, NEW s, Irelease(p, s)
  PROVE  /\ i_count' \in [Slots -> Byte] /\ i_sl' \in [Slots -> Holders]
         /\ UNCHANGED <<entVars, i_num, lockVars, locVars, halted>>
  <1>1. UNCHANGED <<entVars, i_num, lockVars, locVars, halted>>
    BY DEF Irelease
  <1>2. CASE i_sl[s] = p
    <2>1. i_count' \in [Slots -> Byte]
      <3>1. i_count \in [Slots -> Byte]
        BY DEF TypeOK
      <3>2. [i_count EXCEPT ![s] = (@ + 255) % 256] \in [Slots -> Byte]
        BY <3>1, SlotCountLemma, Zenon
      <3> QED BY <1>2, <3>2, Zenon DEF Irelease
    <2>2. i_sl' \in [Slots -> Holders]
      BY <1>2 DEF Irelease, TypeOK, Holders
    <2> QED BY <1>1, <2>1, <2>2
  <1>3. CASE i_sl[s] # p
    BY <1>1, <1>3 DEF Irelease, TypeOK
  <1> QED BY <1>2, <1>3

\* What sys_fstat does: an irelease.
LEMMA FstatLemma ==
  ASSUME NEW p \in Procs, Fstat(p)
  PROVE  /\ At(p, "user") /\ UNCHANGED fpc
         /\ \E s : Irelease(p, s)
  BY Zenon DEF Fstat

\* No step leaves the types.
LEMMA StepTypeOK ==
  ASSUME TypeOK, NEW p \in Procs, Call(p) \/ Run(p)
  PROVE  TypeOK'
  <1>0. CASE Open(p) \/ Stat(p)
    BY <1>0, NameiTypeOK DEF Open, Stat, FLabels
  <1>00. CASE Fstat(p) \/ StatIrelease(p)
    <2>1. PICK s : Irelease(p, s)
      BY <1>00, FstatLemma, Zenon DEF StatIrelease
    <2>2. fpc' \in [Procs -> FLabels]
      BY <1>00, FstatLemma DEF TypeOK, StatIrelease, Goto, FLabels
    <2> QED BY <2>1, <2>2, IreleaseTypes DEF TypeOK, entVars, lockVars, locVars
  <1> USE DEF TypeOK, At, Goto, FLabels, tabVars, entVars, inoVars, lockVars,
             locVars
  <1>1. CASE Call(p)
    <2>2. CASE Close(p)
      BY <2>2 DEF Close
    <2>3. CASE ClosePanic(p) \/ FstatPanic(p) \/ NameiPanic(p)
      BY <2>3 DEF ClosePanic, FstatPanic, NameiPanic, Panic, Halts
    <2> QED BY <1>0, <1>00, <1>1, <2>2, <2>3 DEF Call
  <1>2. CASE Run(p)
    <2>1. CASE FgetAcquire(p) \/ FgetFull(p)
      BY <2>1 DEF FgetAcquire, FgetFull, Holders
    <2>2. CASE FgetFault(p)
      BY <2>2 DEF FgetFault, Panic, Halts
    <2>3. CASE FgetFound(p)
      BY <2>3 DEF FgetFound
    <2>4. CASE FgetEmpty(p)
      BY <2>4 DEF FgetEmpty
    <2>5. CASE FgetShare(p)
      <3>1. f_count' \in [Files -> Byte]
        BY <2>5, CountLemma DEF FgetShare
      <3> QED BY <2>5, <3>1 DEF FgetShare, Holders
    <2>6. CASE FgetTake(p)
      <3>1. f_count' \in [Files -> Byte]
        BY <2>6, CountLemma DEF FgetTake
      <3> QED BY <2>6, <3>1 DEF FgetTake, Holders
    <2>7. CASE FdgetAcquire(p)
      BY <2>7 DEF FdgetAcquire, Holders
    <2>8. CASE FdgetFound(p)
      BY <2>8 DEF FdgetFound, Holders
    <2>9. CASE FdgetNone(p)
      BY <2>9 DEF FdgetNone
    <2>10. CASE OpenNotRegular(p) \/ OpenNoFile(p)
      BY <2>10 DEF OpenNotRegular, OpenNoFile, IputAndPanic, Panic, Holders,
         Halts
    <2>11. CASE OpenNoFd(p)
      <3>0. f_count' = [f_count EXCEPT ![file[p]] = (@ + 255) % 256]
        BY <2>11, Zenon DEF OpenNoFd
      <3>1. f_count' \in [Files -> Byte]
        BY <3>0, CountLemma
      <3>2. IputAndPanic(p, "nofd", "sys_open: cannot get a valid fd")
        BY <2>11 DEF OpenNoFd
      <3> QED BY <3>1, <3>2 DEF IputAndPanic, Panic, Holders, Halts
    <2>12. CASE OpenSetFd(p)
      BY <2>12 DEF OpenSetFd
    <2>13. CASE CloseAcquire(p)
      BY <2>13 DEF CloseAcquire, Holders
    <2>14. CASE CloseDrop(p)
      <3>1. f_count' \in [Files -> Byte]
        BY <2>14, CountLemma DEF CloseDrop
      <3>2. opened' \in [Procs -> SUBSET Fds]
        BY <2>14 DEF CloseDrop
      <3>3. open_files_sl' \in Holders /\ fpc' \in [Procs -> FLabels]
        BY <2>14 DEF CloseDrop, Holders
      <3>4. UNCHANGED <<f_inode, inoVars, p_filp, proc_table_sl, locVars, halted>>
        BY <2>14, Zenon DEF CloseDrop
      <3> QED BY <3>1, <3>2, <3>3, <3>4
    <2>15. CASE CloseIput(p)
      BY <2>15 DEF CloseIput, Holders
    <2>16. CASE CloseClear(p)
      BY <2>16 DEF CloseClear, Holders
    <2>17. CASE OpenMode(p)
      BY <2>17 DEF OpenMode
    <2>18. CASE StatIput(p)
      BY <2>18 DEF StatIput, Holders
    <2> QED BY <1>00, <1>2, <2>1, <2>2, <2>3, <2>4, <2>5, <2>6, <2>7, <2>8, <2>9,
           <2>10, <2>11, <2>12, <2>13, <2>14, <2>15, <2>16, <2>17, <2>18 DEF Run
  <1> QED BY <1>1, <1>2

-----------------------------------------------------------------------------
\* A step that neither takes nor needs the lock and fills no entry disturbs
\* nobody's search.
LEMMA Undisturbed ==
  ASSUME IInv, NEW p \in Procs, TypeOK',
         UNCHANGED <<f_inode, open_files_sl>>,
         \A q \in Procs : q # p => fpc'[q] = fpc[q] /\ ino'[q] = ino[q],
         fpc'[p] \in {"fsearch", "fshare", "ftake", "drop", "put", "clear"}
            => open_files_sl = p,
         fpc'[p] = "ftake" =>
            \A f \in Files : f_inode[f] = ino'[p] => f_inode[f] = NoInode
  PROVE  IInv'
  BY DEF IInv, TableLocked, InodeStillFree, OneEntry

\* Nor does a step by which the owner frees the lock, filling no entry.
LEMMA Unlocked ==
  ASSUME IInv, NEW p \in Procs, TypeOK', open_files_sl = p,
         \A f \in Files : f_inode'[f] \in {f_inode[f], NoInode},
         \A q \in Procs : q # p => fpc'[q] = fpc[q] /\ ino'[q] = ino[q],
         fpc'[p] \notin {"fsearch", "fshare", "ftake", "drop", "put", "clear"}
  PROVE  IInv'
  BY DEF IInv, TableLocked, InodeStillFree, OneEntry

LEMMA StepIInv ==
  ASSUME IInv, NEW p \in Procs, Call(p) \/ Run(p)
  PROVE  IInv'
  <1>0. TypeOK /\ TypeOK'
    BY StepTypeOK DEF IInv
  <1>00. /\ fpc \in [Procs -> FLabels] /\ ino \in [Procs -> Slots \cup {NoInode}]
         /\ f_inode \in [Files -> Slots \cup {NoInode}]
    BY <1>0 DEF TypeOK
  <1> USE DEF At, Goto, tabVars, entVars, inoVars, lockVars, locVars
  <1>1. CASE Call(p)
    <2>1. CASE Open(p) \/ Stat(p)
      <3>1. PICK label \in {"mode", "stat"} : Namei(p, label)
        BY <2>1 DEF Open, Stat
      <3>2. /\ fpc' = [fpc EXCEPT ![p] = label] /\ fpc[p] = "user"
            /\ UNCHANGED <<entVars, lockVars>>
            /\ \A q \in Procs : q # p => ino'[q] = ino[q]
        BY <1>0, <1>00, <3>1, NameiLemma DEF NameiAt
      <3> QED BY <1>0, <1>00, <3>1, <3>2, Undisturbed
    <2>2. CASE Close(p)
      BY <1>0, <1>00, <2>2, Undisturbed DEF Close
    <2>3. CASE Fstat(p)
      <3>1. UNCHANGED <<fpc, entVars, lockVars, locVars>> /\ fpc[p] = "user"
        BY <1>0, <2>3, FstatLemma, IreleaseTypes
      <3> QED BY <1>0, <1>00, <3>1, Undisturbed
    <2>4. CASE ClosePanic(p) \/ FstatPanic(p) \/ NameiPanic(p)
      BY <1>0, <1>00, <2>4, Undisturbed DEF ClosePanic, FstatPanic, NameiPanic,
         Panic
    <2> QED BY <1>1, <2>1, <2>2, <2>3, <2>4 DEF Call
  <1>2. CASE Run(p)
    <2>1. CASE FgetAcquire(p) \/ CloseAcquire(p)
      BY <1>0, <1>00, <2>1, NoProcAssumption
      DEF FgetAcquire, CloseAcquire, IInv, TableLocked, InodeStillFree,
          OneEntry
    <2>2. CASE FgetFault(p)
      BY <1>0, <1>00, <2>2, Undisturbed DEF FgetFault, Panic, IInv, TableLocked
    <2>3. CASE FgetFound(p)
      BY <1>0, <1>00, <2>3, Undisturbed DEF FgetFound, IInv, TableLocked
    <2>4. CASE FgetEmpty(p)
      BY <1>0, <1>00, <2>4, Undisturbed DEF FgetEmpty, OfInode, IInv, TableLocked
    <2>5. CASE FgetFull(p)
      BY <1>0, <1>00, <2>5, Unlocked DEF FgetFull, IInv, TableLocked
    <2>6. CASE FgetShare(p)
      BY <1>0, <1>00, <2>6, Unlocked DEF FgetShare, IInv, TableLocked
    <2>7. CASE FgetTake(p)
      <3>1. \A q \in Procs :
              fpc[q] \in {"fsearch", "fshare", "ftake", "drop", "put", "clear"}
                => q = p
        BY <2>7 DEF FgetTake, IInv, TableLocked
      <3>2. \A f \in Files : f_inode[f] = ino[p] => f_inode[f] = NoInode
        BY <2>7 DEF FgetTake, IInv, InodeStillFree
      <3>3. OneEntry'
        BY <1>00, <2>7, <3>2 DEF FgetTake, IInv, OneEntry
      <3>4. TableLocked' /\ InodeStillFree'
        BY <1>00, <2>7, <3>1 DEF FgetTake, TableLocked, InodeStillFree
      <3> QED BY <1>0, <3>3, <3>4 DEF IInv
    <2>8. CASE FdgetAcquire(p) \/ FdgetFound(p) \/ FdgetNone(p)
      BY <1>0, <1>00, <2>8, Undisturbed DEF FdgetAcquire, FdgetFound, FdgetNone
    <2>9. CASE OpenNotRegular(p) \/ OpenNoFile(p) \/ OpenNoFd(p)
      BY <1>0, <1>00, <2>9, Undisturbed
      DEF OpenNotRegular, OpenNoFile, OpenNoFd, IputAndPanic, Panic
    <2>10. CASE OpenSetFd(p)
      BY <1>0, <1>00, <2>10, Undisturbed DEF OpenSetFd
    <2>11. CASE CloseDrop(p)
      <3>1. CASE fpc'[p] = "put" /\ UNCHANGED open_files_sl
        BY <1>0, <1>00, <2>11, <3>1, Undisturbed
        DEF CloseDrop, IInv, TableLocked
      <3>2. CASE fpc'[p] = "user"
        BY <1>0, <1>00, <2>11, <3>2, Unlocked DEF CloseDrop, IInv, TableLocked
      <3> QED BY <1>00, <2>11, <3>1, <3>2 DEF CloseDrop
    <2>12. CASE CloseIput(p)
      BY <1>0, <1>00, <2>12, Undisturbed DEF CloseIput, IInv, TableLocked
    <2>13. CASE CloseClear(p)
      BY <1>0, <1>00, <2>13, Unlocked DEF CloseClear, IInv, TableLocked
    <2>14. CASE OpenMode(p) \/ StatIput(p)
      BY <1>0, <1>00, <2>14, Undisturbed DEF OpenMode, StatIput
    <2>15. CASE StatIrelease(p)
      <3>1. /\ fpc' = [fpc EXCEPT ![p] = "user"]
            /\ UNCHANGED <<entVars, lockVars, locVars>>
        BY <1>0, <2>15, IreleaseTypes DEF StatIrelease
      <3> QED BY <1>0, <1>00, <3>1, Undisturbed
    <2> QED BY <1>2, <2>1, <2>2, <2>3, <2>4, <2>5, <2>6, <2>7, <2>8, <2>9,
           <2>10, <2>11, <2>12, <2>13, <2>14, <2>15 DEF Run
  <1> QED BY <1>1, <1>2

\* Only namei gives a slot to a file, one that has none, and only fget makes an
\* entry point to a slot, that of the caller's inode.
LEMMA StepNInv ==
  ASSUME IInv, NInv, NEW p \in Procs, Call(p) \/ Run(p)
  PROVE  NInv'
  <1>0. /\ ino \in [Procs -> Slots \cup {NoInode}] /\ TypeOK
        /\ f_inode \in [Files -> Slots \cup {NoInode}]
        /\ i_num \in [Slots -> Inums \cup {NoInum}]
    BY DEF IInv, TypeOK
  <1>00. NoInum \notin Inums /\ NoInode \notin Slots
    BY InumsAssumption, SlotsLemma
  <1> USE DEF tabVars, entVars, inoVars, lockVars, locVars
  <1>1. CASE Open(p) \/ Stat(p)
    <2>1. PICK label : Namei(p, label)
      BY <1>1 DEF Open, Stat
    <2>2. UNCHANGED f_inode
      BY <1>0, <2>1, NameiLemma
    <2>3. PICK n \in Inums, s \in Slots : NameiAt(p, n, s)
      BY <1>0, <2>1, NameiLemma, Zenon
    <2>4. OneSlot'
      BY <1>0, <2>3 DEF NInv, OneSlot, NameiAt, NameiHitAt, NameiTakeAt
    <2>5. PointsToRead'
      BY <1>0, <1>00, <2>2, <2>3
      DEF NInv, PointsToRead, NameiAt, NameiHitAt, NameiTakeAt
    <2> QED BY <2>4, <2>5 DEF NInv
  <1>2. CASE UNCHANGED <<i_num, ino>>
             /\ \A f \in Files : f_inode'[f] \in {f_inode[f], NoInode, ino[p]}
    BY <1>0, <1>2 DEF NInv, OneSlot, PointsToRead
  <1>3. CASE Fstat(p) \/ StatIrelease(p)
    <2>1. UNCHANGED <<i_num, ino, f_inode>>
      BY <1>0, <1>3, FstatLemma, IreleaseTypes DEF StatIrelease
    <2> QED BY <1>2, <2>1
  <1>4. CASE FgetTake(p)
    BY <1>0, <1>2, <1>4 DEF FgetTake
  <1>5. CASE CloseClear(p)
    BY <1>0, <1>2, <1>5 DEF CloseClear
  <1>6. \/ Open(p) \/ Stat(p) \/ Fstat(p) \/ StatIrelease(p) \/ FgetTake(p)
        \/ CloseClear(p) \/ UNCHANGED <<i_num, ino, f_inode>>
    BY DEF Call, Run, Close, ClosePanic, FstatPanic, NameiPanic, FgetAcquire,
       FgetFault, FgetFound, FgetEmpty, FgetFull, FgetShare, FdgetAcquire,
       FdgetFound, FdgetNone, OpenMode, OpenNotRegular, OpenNoFile, OpenNoFd,
       OpenSetFd, IputAndPanic, Panic, CloseAcquire, CloseDrop, CloseIput,
       StatIput
  <1> QED BY <1>1, <1>2, <1>3, <1>4, <1>5, <1>6

LEMMA StutterIInv == IInv /\ UNCHANGED vars => IInv'
  BY DEF IInv, TypeOK, TableLocked, InodeStillFree, OneEntry, vars, tabVars,
     entVars, inoVars, lockVars, locVars

LEMMA NextIInv == IInv /\ [Next]_vars => IInv'
  BY StepIInv, StutterIInv DEF Next

LEMMA NextNInv == IInv /\ NInv /\ [Next]_vars => NInv'
  <1>1. NInv /\ UNCHANGED vars => NInv'
    BY DEF NInv, OneSlot, PointsToRead, vars, tabVars, entVars, inoVars, locVars
  <1> QED BY <1>1, StepNInv DEF Next

\* Every state of the table is well typed, the counts included
\* (open_close.c:14-137).
THEOREM FileTypes == Spec => []TypeOK
  <1>1. IInv => TypeOK
    BY DEF IInv
  <1> QED BY InitIInv, NextIInv, <1>1, PTL DEF Spec

\* However many processes open and close files at once, no file gets two
\* entries (open_close.c:94-123).
THEOREM FilesUnique == Spec => []UniqueFiles
  <1>1. IInv /\ NInv => UniqueFiles
    BY DEF IInv, NInv, TypeOK, OneEntry, OneSlot, PointsToRead, UniqueFiles
  <1> QED BY InitIInv, NextIInv, InitNInv, NextNInv, <1>1, PTL DEF Spec

-----------------------------------------------------------------------------
(* The counts, when no process closes a descriptor twice *)

\* What a process has in hand is what its label says.
HandInv ==
    \A p \in Procs :
        /\ fpc[p] \in {"fshare", "ftake", "fdget", "fdsearch", "setfd", "nofd"}
             => file[p] \in Files
        /\ fpc[p] = "setfd" => p_filp[p][fd[p]] = NoFile
        /\ fpc[p] \in {"close", "drop"} =>
             fd[p] \in opened[p] /\ p_filp[p][fd[p]] = file[p]
        /\ \A d \in opened[p] : p_filp[p][d] \in Files

\* The inductive invariant of CountIsUsers.
CInv == TypeOK /\ HandInv /\ CountIsUsers

LEMMA FilesLemma == NoFile \notin Files
  BY NoFileAssumption, NrFilesAssumption, SMT DEF Files

LEMMA StepHandInv ==
  ASSUME TypeOK, HandInv, Careless = {}, NEW p \in Procs, Call(p) \/ Run(p)
  PROVE  HandInv'
  <1>0. /\ fpc \in [Procs -> FLabels] /\ file \in [Procs -> Files \cup {NoFile}]
        /\ fd \in [Procs -> Fds] /\ opened \in [Procs -> SUBSET Fds]
        /\ p_filp \in [Procs -> [Fds -> Files \cup {NoFile}]]
    BY DEF TypeOK
  <1> USE DEF At, Goto, tabVars, entVars, inoVars, lockVars, locVars, HandInv
  <1>1. CASE Call(p)
    <2>1. CASE Open(p) \/ Stat(p)
      <3>1. PICK label \in {"mode", "stat"} : Namei(p, label)
        BY <2>1 DEF Open, Stat
      <3>2. /\ fpc' = [fpc EXCEPT ![p] = label]
            /\ UNCHANGED <<entVars, lockVars, file, fd>>
        BY <3>1, NameiLemma
      <3> QED BY <1>0, <3>2
    <2>2. CASE Close(p)
      BY <1>0, <2>2 DEF Close
    <2>3. CASE Fstat(p)
      <3>1. UNCHANGED <<fpc, entVars, locVars>>
        BY <2>3, FstatLemma, IreleaseTypes
      <3> QED BY <1>0, <3>1
    <2>4. CASE ClosePanic(p) \/ FstatPanic(p) \/ NameiPanic(p)
      BY <1>0, <2>4 DEF ClosePanic, FstatPanic, NameiPanic, Panic
    <2> QED BY <1>1, <2>1, <2>2, <2>3, <2>4 DEF Call
  <1>2. CASE Run(p)
    <2>1. CASE FgetAcquire(p) \/ FgetFault(p) \/ FgetFull(p)
      BY <1>0, <2>1 DEF FgetAcquire, FgetFault, FgetFull, Panic
    <2>2. CASE FgetFound(p) \/ FgetEmpty(p)
      BY <1>0, <2>2 DEF FgetFound, FgetEmpty
    <2>3. CASE FgetShare(p) \/ FgetTake(p)
      BY <1>0, <2>3 DEF FgetShare, FgetTake
    <2>4. CASE FdgetAcquire(p) \/ FdgetNone(p)
      BY <1>0, <2>4 DEF FdgetAcquire, FdgetNone
    <2>5. CASE FdgetFound(p)
      BY <1>0, <2>5 DEF FdgetFound, NoFd, IsFirst
    <2>6. CASE OpenNotRegular(p) \/ OpenNoFile(p) \/ OpenNoFd(p)
      BY <1>0, <2>6 DEF OpenNotRegular, OpenNoFile, OpenNoFd, IputAndPanic, Panic
    <2>7. CASE OpenSetFd(p)
      BY <1>0, <2>7 DEF OpenSetFd
    <2>8. CASE CloseAcquire(p) \/ CloseIput(p) \/ CloseClear(p)
      BY <1>0, <2>8 DEF CloseAcquire, CloseIput, CloseClear
    <2>9. CASE CloseDrop(p)
      BY <1>0, <2>9 DEF CloseDrop
    <2>10. CASE OpenMode(p) \/ StatIput(p)
      BY <1>0, <2>10 DEF OpenMode, StatIput
    <2>11. CASE StatIrelease(p)
      <3>1. fpc' = [fpc EXCEPT ![p] = "user"] /\ UNCHANGED <<entVars, locVars>>
        BY <2>11, IreleaseTypes DEF StatIrelease
      <3> QED BY <1>0, <3>1
    <2> QED BY <1>2, <2>1, <2>2, <2>3, <2>4, <2>5, <2>6, <2>7, <2>8, <2>9, <2>10,
           <2>11 DEF Run
  <1> QED BY <1>1, <1>2

\* The sets that are counted are finite.
LEMMA UsersFinite ==
  /\ \A S \in SUBSET Procs : IsFiniteSet(S) /\ Cardinality(S) \in Nat
  /\ \A S \in SUBSET (Procs \X Fds) : IsFiniteSet(S) /\ Cardinality(S) \in Nat
  <1>1. IsFiniteSet(Fds)
    BY FS_Interval, NrOFilesAssumption DEF Fds
  <1>2. IsFiniteSet(Procs \X Fds)
    BY <1>1, FS_Product, ProcsAssumption
  <1> QED BY <1>2, FS_Subset, FS_CardinalityType, ProcsAssumption

\* Counting modulo 256.
LEMMA ModLemma ==
  ASSUME NEW n \in Nat
  PROVE  /\ ((n % 256) + 1) % 256 = (n + 1) % 256
         /\ n > 0 => ((n % 256) + 255) % 256 = (n - 1) % 256
  BY SMT

\* A step that changes no count, no descriptor and nobody's way to one.
LEMMA Uncounted ==
  ASSUME CountIsUsers, UNCHANGED <<f_count, p_filp, opened, halted>>,
         \A f \in Files : Making(f)' = Making(f)
  PROVE  CountIsUsers'
  BY DEF CountIsUsers, Users, Using

\* A process that got an entry is counted in it.
LEMMA StepShare ==
  ASSUME CInv, NEW p \in Procs, FgetShare(p) \/ FgetTake(p)
  PROVE  CountIsUsers'
  <1>0. /\ fpc \in [Procs -> FLabels] /\ file \in [Procs -> Files \cup {NoFile}]
        /\ f_count \in [Files -> Byte] /\ file[p] \in Files /\ halted = "no"
    BY DEF CInv, TypeOK, HandInv, FgetShare, FgetTake, At
  <1>1. /\ f_count' = [f_count EXCEPT ![file[p]] = (@ + 1) % 256]
        /\ fpc' = [fpc EXCEPT ![p] = "fdget"]
        /\ fpc[p] \in {"fshare", "ftake"}
        /\ UNCHANGED <<p_filp, opened, file>>
    BY DEF FgetShare, FgetTake, At, Goto, locVars
  <1>2. ASSUME NEW f \in Files PROVE f_count'[f] = Users(f)' % 256
    <2>1. Using(f)' = Using(f) /\ Cardinality(Using(f)) \in Nat
      BY <1>1, UsersFinite DEF Using
    <2>2. f_count[f] = Users(f) % 256
      BY <1>0 DEF CInv, CountIsUsers
    <2>3. CASE f = file[p]
      <3>1. Making(f)' = Making(f) \cup {p} /\ p \notin Making(f)
        BY <1>0, <1>1, <2>3 DEF Making
      <3>2. IsFiniteSet(Making(f)) /\ Cardinality(Making(f)) \in Nat
        BY UsersFinite DEF Making
      <3>3. Cardinality(Making(f)') = Cardinality(Making(f)) + 1
        BY <3>1, <3>2, FS_AddElement
      <3>4. Users(f) \in Nat /\ Users(f)' = Users(f) + 1
        BY <2>1, <3>2, <3>3 DEF Users
      <3> QED BY <1>0, <1>1, <2>2, <2>3, <3>4, ModLemma
    <2>4. CASE f # file[p]
      <3>1. Making(f)' = Making(f)
        BY <1>0, <1>1, <2>4 DEF Making
      <3> QED BY <1>0, <1>1, <2>1, <2>2, <2>4, <3>1 DEF Users
    <2> QED BY <2>3, <2>4
  <1> QED BY <1>2 DEF CountIsUsers

\* Storing the descriptor makes the process a user by it.
LEMMA StepSetFd ==
  ASSUME CInv, NEW p \in Procs, OpenSetFd(p)
  PROVE  CountIsUsers'
  <1>0. /\ fpc \in [Procs -> FLabels] /\ file \in [Procs -> Files \cup {NoFile}]
        /\ fd \in [Procs -> Fds] /\ opened \in [Procs -> SUBSET Fds]
        /\ p_filp \in [Procs -> [Fds -> Files \cup {NoFile}]]
        /\ file[p] \in Files /\ fpc[p] = "setfd" /\ halted = "no"
    BY DEF CInv, TypeOK, HandInv, OpenSetFd, At
  <1>1. /\ fpc' = [fpc EXCEPT ![p] = "user"]
        /\ p_filp' = [p_filp EXCEPT ![p][fd[p]] = file[p]]
        /\ opened' = [opened EXCEPT ![p] = @ \cup {fd[p]}]
        /\ UNCHANGED <<f_count, file>>
    BY DEF OpenSetFd, Goto, locVars
  <1>2. fd[p] \notin opened[p]
    BY <1>0, FilesLemma DEF CInv, HandInv
  <1>3. ASSUME NEW f \in Files PROVE f_count'[f] = Users(f)' % 256
    <2>1. f_count[f] = Users(f) % 256
      BY <1>0 DEF CInv, CountIsUsers
    <2>2. CASE f = file[p]
      <3>1. Making(f)' = Making(f) \ {p} /\ p \in Making(f)
        BY <1>0, <1>1, <2>2 DEF Making
      <3>2. /\ Using(f)' = Using(f) \cup {<<p, fd[p]>>}
            /\ <<p, fd[p]>> \notin Using(f)
        BY <1>0, <1>1, <1>2, <2>2 DEF Using
      <3>3. /\ IsFiniteSet(Making(f)) /\ Cardinality(Making(f)) \in Nat
            /\ IsFiniteSet(Using(f)) /\ Cardinality(Using(f)) \in Nat
        BY UsersFinite DEF Making, Using
      <3>4. Cardinality(Making(f)') = Cardinality(Making(f)) - 1
        BY <3>1, <3>3, FS_RemoveElement
      <3>5. Cardinality(Using(f)') = Cardinality(Using(f)) + 1
        BY <3>2, <3>3, FS_AddElement
      <3>6. Users(f)' = Users(f)
        BY <3>3, <3>4, <3>5 DEF Users
      <3> QED BY <1>1, <2>1, <3>6
    <2>3. CASE f # file[p]
      <3>1. Making(f)' = Making(f)
        BY <1>0, <1>1, <2>3 DEF Making
      <3>2. Using(f)' = Using(f)
        BY <1>0, <1>1, <1>2, <2>3 DEF Using
      <3> QED BY <1>1, <2>1, <3>1, <3>2 DEF Users
    <2> QED BY <2>2, <2>3
  <1> QED BY <1>3 DEF CountIsUsers

\* A close takes its descriptor out of the count.
LEMMA StepDrop ==
  ASSUME CInv, NEW p \in Procs, CloseDrop(p)
  PROVE  CountIsUsers'
  <1>0. /\ fpc \in [Procs -> FLabels] /\ f_count \in [Files -> Byte]
        /\ fd \in [Procs -> Fds] /\ opened \in [Procs -> SUBSET Fds]
        /\ fd[p] \in opened[p] /\ p_filp[p][fd[p]] = file[p] /\ file[p] \in Files
        /\ fpc[p] = "drop" /\ halted = "no"
    BY DEF CInv, TypeOK, HandInv, CloseDrop, At
  <1>1. /\ fpc'[p] \in {"put", "user"}
        /\ \A q \in Procs : q # p => fpc'[q] = fpc[q]
        /\ f_count' = [f_count EXCEPT ![file[p]] = (@ + 255) % 256]
        /\ opened' = [opened EXCEPT ![p] = @ \ {fd[p]}]
        /\ UNCHANGED <<p_filp, file>>
    BY <1>0 DEF CloseDrop, Goto, locVars
  <1>2. ASSUME NEW f \in Files PROVE f_count'[f] = Users(f)' % 256
    <2>1. f_count[f] = Users(f) % 256
      BY <1>0 DEF CInv, CountIsUsers
    <2>2. Making(f)' = Making(f) /\ Cardinality(Making(f)) \in Nat
      BY <1>0, <1>1, UsersFinite DEF Making
    <2>3. CASE f = file[p]
      <3>1. Using(f)' = Using(f) \ {<<p, fd[p]>>} /\ <<p, fd[p]>> \in Using(f)
        BY <1>0, <1>1, <2>3 DEF Using
      <3>2. IsFiniteSet(Using(f)) /\ Cardinality(Using(f)) \in Nat
        BY UsersFinite DEF Using
      <3>3. /\ Cardinality(Using(f)') = Cardinality(Using(f)) - 1
            /\ Cardinality(Using(f)') \in Nat
        BY <3>1, <3>2, FS_RemoveElement, FS_CardinalityType
      <3>4. Users(f) \in Nat /\ Users(f) > 0 /\ Users(f)' = Users(f) - 1
        BY <2>2, <3>2, <3>3 DEF Users
      <3> QED BY <1>0, <1>1, <2>1, <2>3, <3>4, ModLemma
    <2>4. CASE f # file[p]
      <3>1. Using(f)' = Using(f)
        BY <1>0, <1>1, <2>4 DEF Using
      <3> QED BY <1>0, <1>1, <2>1, <2>2, <2>4, <3>1 DEF Users
    <2> QED BY <2>3, <2>4
  <1> QED BY <1>2 DEF CountIsUsers

LEMMA StepCInv ==
  ASSUME CInv, Careless = {}, NEW p \in Procs, Call(p) \/ Run(p)
  PROVE  CInv'
  <1>0. TypeOK' /\ HandInv' /\ CountIsUsers
    BY StepTypeOK, StepHandInv DEF CInv
  <1>00. fpc \in [Procs -> FLabels] /\ file \in [Procs -> Files \cup {NoFile}]
    BY DEF CInv, TypeOK
  <1> SUFFICES CountIsUsers'
    BY <1>0 DEF CInv
  <1> USE DEF At, Goto, tabVars, entVars, lockVars, locVars
  <1>1. CASE Call(p)
    <2>1. CASE Open(p) \/ Stat(p)
      <3>1. PICK label \in {"mode", "stat"} : Namei(p, label)
        BY <2>1 DEF Open, Stat
      <3>2. /\ fpc' = [fpc EXCEPT ![p] = label] /\ fpc[p] = "user"
            /\ UNCHANGED <<entVars, file, halted>>
        BY <3>1, NameiLemma DEF CInv
      <3> QED BY <1>0, <1>00, <3>2, Uncounted DEF Making
    <2>2. CASE Close(p)
      BY <1>0, <1>00, <2>2, Uncounted DEF Close, Making
    <2>3. CASE Fstat(p)
      <3>1. UNCHANGED <<fpc, entVars, locVars, halted>>
        BY <2>3, FstatLemma, IreleaseTypes DEF CInv
      <3> QED BY <1>0, <1>00, <3>1, Uncounted DEF Making
    <2>4. CASE ClosePanic(p) \/ FstatPanic(p) \/ NameiPanic(p)
      BY <2>4 DEF ClosePanic, FstatPanic, NameiPanic, Panic, CountIsUsers
    <2> QED BY <1>1, <2>1, <2>2, <2>3, <2>4 DEF Call
  <1>2. CASE Run(p)
    <2>1. CASE FgetAcquire(p) \/ FgetFull(p)
      BY <1>0, <1>00, <2>1, Uncounted DEF FgetAcquire, FgetFull, Making
    <2>2. CASE FgetFault(p)
      BY <2>2 DEF FgetFault, Panic, CountIsUsers
    <2>3. CASE FgetFound(p) \/ FgetEmpty(p)
      BY <1>0, <1>00, <2>3, Uncounted DEF FgetFound, FgetEmpty, Making
    <2>4. CASE FgetShare(p) \/ FgetTake(p)
      BY <2>4, StepShare
    <2>5. CASE FdgetAcquire(p) \/ FdgetNone(p)
      BY <1>0, <1>00, <2>5, Uncounted DEF FdgetAcquire, FdgetNone, Making
    <2>6. CASE FdgetFound(p)
      BY <1>0, <1>00, <2>6, Uncounted DEF FdgetFound, Making
    <2>7. CASE OpenNotRegular(p) \/ OpenNoFile(p) \/ OpenNoFd(p)
      BY <2>7 DEF OpenNotRegular, OpenNoFile, OpenNoFd, IputAndPanic, Panic,
         CountIsUsers
    <2>8. CASE OpenSetFd(p)
      BY <2>8, StepSetFd
    <2>9. CASE CloseAcquire(p) \/ CloseIput(p) \/ CloseClear(p)
      BY <1>0, <1>00, <2>9, Uncounted
      DEF CloseAcquire, CloseIput, CloseClear, Making
    <2>10. CASE CloseDrop(p)
      BY <2>10, StepDrop
    <2>11. CASE OpenMode(p) \/ StatIput(p)
      BY <1>0, <1>00, <2>11, Uncounted DEF OpenMode, StatIput, Making
    <2>12. CASE StatIrelease(p)
      <3>1. /\ fpc' = [fpc EXCEPT ![p] = "user"] /\ fpc[p] = "irelease"
            /\ UNCHANGED <<entVars, locVars, halted>>
        BY <2>12, IreleaseTypes DEF StatIrelease, CInv
      <3> QED BY <1>0, <1>00, <3>1, Uncounted DEF Making
    <2> QED BY <1>2, <2>1, <2>2, <2>3, <2>4, <2>5, <2>6, <2>7, <2>8, <2>9,
           <2>10, <2>11, <2>12 DEF Run
  <1> QED BY <1>1, <1>2

LEMMA InitCInv == Init => CInv
  <1> SUFFICES ASSUME Init PROVE CInv
    OBVIOUS
  <1>1. TypeOK
    BY InitIInv DEF IInv
  <1>2. HandInv
    BY DEF Init, HandInv
  <1>3. ASSUME NEW f \in Files PROVE f_count[f] = Users(f) % 256
    <2>1. Making(f) = {} /\ Using(f) = {}
      BY DEF Init, Making, Using
    <2>2. Users(f) = 0
      BY <2>1, FS_EmptySet DEF Users
    <2> QED BY <2>2 DEF Init
  <1> QED BY <1>1, <1>2, <1>3 DEF CInv, CountIsUsers

LEMMA NextCInv == Careless = {} /\ CInv /\ [Next]_vars => CInv'
  <1>1. CInv /\ UNCHANGED vars => CInv'
    <2>1. TypeOK /\ UNCHANGED vars => TypeOK'
      BY DEF TypeOK, vars, tabVars, entVars, inoVars, lockVars, locVars
    <2>2. HandInv /\ UNCHANGED vars => HandInv'
      BY DEF HandInv, vars, tabVars, entVars, locVars
    <2>3. CountIsUsers /\ UNCHANGED vars => CountIsUsers'
      BY DEF CountIsUsers, Users, Making, Using, vars, tabVars, entVars, locVars
    <2> QED BY <2>1, <2>2, <2>3 DEF CInv
  <1> QED BY <1>1, StepCInv DEF Next

\* If no process closes a descriptor twice, the count of an entry is, modulo
\* 256, the number of its users, whoever opens, shares and closes at the same
\* time (open_close.c:14-137).
THEOREM CountsUsers == Careless = {} => (Spec => []CountIsUsers)
  <1> SUFFICES ASSUME Careless = {} PROVE Spec => []CountIsUsers
    OBVIOUS
  <1>1. CInv => CountIsUsers
    BY DEF CInv
  <1>2. CInv /\ [Next]_vars => CInv'
    BY NextCInv
  <1> QED BY InitCInv, <1>1, <1>2, PTL DEF Spec

-----------------------------------------------------------------------------
(* An open descriptor keeps its inode, if no count can wrap *)

\* So few users that every count is below 256.
FewUsers == Cardinality(Procs) + Cardinality(Procs \X Fds) < 256

\* Who fills or clears an entry, under the lock of the table, has seen its
\* count 0, and an entry without an inode has no users.
EntryInv ==
    halted = "no" =>
        /\ \A p \in Procs :
             /\ fpc[p] \in {"ftake", "put", "clear"} =>
                  file[p] \in Files /\ f_count[file[p]] = 0
             /\ fpc[p] \in {"mode", "fget", "fsearch", "fshare", "ftake"} =>
                  ino[p] \in Slots
             /\ fpc[p] = "fshare" => f_inode[file[p]] # NoInode
        /\ \A f \in Files : f_inode[f] = NoInode => f_count[f] = 0

\* The inductive invariant of OpenKeepsInode.
KInv == IInv /\ CInv /\ EntryInv

\* The count of an entry is not 0 while a descriptor is open on it.
LEMMA CountPositive ==
  ASSUME CInv, FewUsers, halted = "no", NEW p \in Procs, NEW d \in opened[p]
  PROVE  p_filp[p][d] \in Files /\ f_count[p_filp[p][d]] # 0
  <1> DEFINE f == p_filp[p][d]
  <1>1. f \in Files /\ d \in Fds /\ f_count[f] = Users(f) % 256
    BY DEF CInv, HandInv, TypeOK, CountIsUsers
  <1>2. <<p, d>> \in Using(f) /\ Using(f) \subseteq Procs \X Fds
        /\ Making(f) \subseteq Procs
    BY <1>1 DEF Using, Making
  <1>3. IsFiniteSet(Procs \X Fds) /\ IsFiniteSet(Using(f))
    BY <1>2, UsersFinite
  <1>4. /\ Cardinality(Using(f)) <= Cardinality(Procs \X Fds)
        /\ Cardinality(Making(f)) <= Cardinality(Procs)
    BY <1>2, <1>3, FS_Subset, ProcsAssumption
  <1>5. /\ Cardinality(Using(f)) \in Nat /\ Cardinality(Making(f)) \in Nat
        /\ Cardinality(Procs \X Fds) \in Nat /\ Cardinality(Procs) \in Nat
    BY <1>2, UsersFinite
  <1>6. Cardinality(Using(f)) # 0
    BY <1>2, <1>3, FS_EmptySet
  <1>7. Users(f) \in 1..255
    BY <1>4, <1>5, <1>6 DEF Users, FewUsers
  <1>8. Users(f) % 256 # 0
    BY <1>7, SMT
  <1> QED BY <1>1, <1>8

LEMMA StepEntryInv ==
  ASSUME IInv, CInv, EntryInv, FewUsers, NEW p \in Procs, Call(p) \/ Run(p)
  PROVE  EntryInv'
  <1>0. /\ fpc \in [Procs -> FLabels] /\ file \in [Procs -> Files \cup {NoFile}]
        /\ ino \in [Procs -> Slots \cup {NoInode}] /\ TypeOK
        /\ f_count \in [Files -> Byte] /\ f_inode \in [Files -> Slots \cup {NoInode}]
    BY DEF IInv, TypeOK
  <1>00. NoInode \notin Slots
    BY SlotsLemma
  <1> USE DEF At, Goto, tabVars, entVars, inoVars, lockVars, locVars, EntryInv
  <1>1. CASE Call(p)
    <2>1. CASE Open(p) \/ Stat(p)
      <3>1. PICK label \in {"mode", "stat"} : Namei(p, label)
        BY <2>1 DEF Open, Stat
      <3>2. /\ fpc' = [fpc EXCEPT ![p] = label]
            /\ UNCHANGED <<entVars, file, halted>>
            /\ \E s \in Slots : ino' = [ino EXCEPT ![p] = s]
        BY <1>0, <3>1, NameiLemma DEF NameiAt
      <3> QED BY <1>0, <1>00, <3>2
    <2>2. CASE Close(p)
      BY <1>0, <2>2 DEF Close
    <2>3. CASE Fstat(p)
      <3>1. UNCHANGED <<fpc, entVars, locVars, halted>>
        BY <1>0, <2>3, FstatLemma, IreleaseTypes
      <3> QED BY <1>0, <3>1
    <2>4. CASE ClosePanic(p) \/ FstatPanic(p) \/ NameiPanic(p)
      BY <1>0, <2>4 DEF ClosePanic, FstatPanic, NameiPanic, Panic
    <2> QED BY <1>1, <2>1, <2>2, <2>3, <2>4 DEF Call
  <1>2. CASE Run(p)
    <2>1. CASE FgetAcquire(p) \/ FgetFault(p) \/ FgetFull(p)
      BY <1>0, <2>1 DEF FgetAcquire, FgetFault, FgetFull, Panic
    <2>2. CASE FgetFound(p)
      BY <1>0, <1>00, <2>2 DEF FgetFound, OfInode, IsFirst
    <2>3. CASE FgetEmpty(p)
      BY <1>0, <2>3 DEF FgetEmpty, Empty, IsFirst
    <2>4. ASSUME fpc[p] \in {"fshare", "ftake", "drop", "clear"}
          PROVE  \A q \in Procs \ {p} :
                   fpc[q] \notin {"fshare", "ftake", "put", "clear"}
      BY <2>4 DEF IInv, TableLocked
    <2>5. CASE FgetShare(p)
      <3>1. f_inode[file[p]] # NoInode
        BY <2>5 DEF FgetShare
      <3> QED BY <1>0, <2>4, <2>5, <3>1 DEF FgetShare
    <2>6. CASE FgetTake(p)
      <3>1. ino[p] # NoInode
        BY <1>00, <2>6 DEF FgetTake
      <3> QED BY <1>0, <2>4, <2>6, <3>1 DEF FgetTake
    <2>7. CASE FdgetAcquire(p) \/ FdgetNone(p)
      BY <1>0, <2>7 DEF FdgetAcquire, FdgetNone
    <2>8. CASE FdgetFound(p)
      BY <1>0, <2>8 DEF FdgetFound
    <2>9. CASE OpenNotRegular(p) \/ OpenNoFile(p) \/ OpenNoFd(p)
      BY <1>0, <2>9 DEF OpenNotRegular, OpenNoFile, OpenNoFd, IputAndPanic, Panic
    <2>10. CASE OpenSetFd(p)
      BY <1>0, <2>10 DEF OpenSetFd
    <2>11. CASE CloseAcquire(p) \/ CloseIput(p)
      BY <1>0, <2>11 DEF CloseAcquire, CloseIput
    <2>12. CASE CloseDrop(p)
      <3>1. fd[p] \in opened[p] /\ p_filp[p][fd[p]] = file[p] /\ halted = "no"
        BY <2>12 DEF CloseDrop, CInv, HandInv
      <3>2. file[p] \in Files /\ f_count[file[p]] # 0
        BY <3>1, CountPositive
      <3>3. f_inode[file[p]] # NoInode
        BY <3>1, <3>2
      <3>4. /\ f_count' = [f_count EXCEPT ![file[p]] = (@ + 255) % 256]
            /\ fpc'[p] = "put" => f_count'[file[p]] = 0
            /\ fpc'[p] \in {"put", "user"}
            /\ \A q \in Procs : q # p => fpc'[q] = fpc[q]
            /\ UNCHANGED <<f_inode, file, ino, halted>>
        BY <1>0, <2>12 DEF CloseDrop
      <3>5. \A q \in Procs \ {p} :
              fpc[q] \notin {"fshare", "ftake", "put", "clear"}
        BY <2>4, <2>12 DEF CloseDrop
      <3> QED BY <1>0, <3>1, <3>2, <3>3, <3>4, <3>5
    <2>13. CASE CloseClear(p)
      BY <1>0, <2>4, <2>13 DEF CloseClear
    <2>14. CASE OpenMode(p)
      <3>1. PICK l \in {"fget", "notreg"} : fpc' = [fpc EXCEPT ![p] = l]
        BY <2>14 DEF OpenMode
      <3>2. fpc[p] = "mode" /\ UNCHANGED <<entVars, locVars, halted>>
        BY <2>14 DEF OpenMode
      <3>3. halted = "no" => ino[p] \in Slots
        BY <3>2
      <3> QED BY <1>0, <3>1, <3>2, <3>3
    <2>15. CASE StatIput(p)
      BY <1>0, <2>15 DEF StatIput
    <2>16. CASE StatIrelease(p)
      <3>1. /\ fpc' = [fpc EXCEPT ![p] = "user"]
            /\ UNCHANGED <<entVars, locVars, halted>>
        BY <1>0, <2>16, IreleaseTypes DEF StatIrelease
      <3> QED BY <1>0, <3>1
    <2> QED BY <1>2, <2>1, <2>2, <2>3, <2>5, <2>6, <2>7, <2>8, <2>9, <2>10,
           <2>11, <2>12, <2>13, <2>14, <2>15, <2>16 DEF Run
  <1> QED BY <1>1, <1>2

LEMMA NextKInv == Careless = {} /\ FewUsers /\ KInv /\ [Next]_vars => KInv'
  <1>1. EntryInv /\ UNCHANGED vars => EntryInv'
    BY DEF EntryInv, vars, tabVars, entVars, lockVars, locVars
  <1> QED BY <1>1, NextIInv, NextCInv, StepEntryInv DEF KInv, Next

LEMMA InitKInv == Init => KInv
  <1>1. Init => EntryInv
    BY DEF Init, EntryInv
  <1> QED BY <1>1, InitIInv, InitCInv DEF KInv

LEMMA StepKeepsInode ==
  ASSUME KInv, FewUsers, NEW q \in Procs, Call(q) \/ Run(q)
  PROVE  KeepsInode
  <1> SUFFICES ASSUME NEW p \in Procs, NEW d \in opened[p] \cap opened'[p]
               PROVE  /\ f_inode[p_filp[p][d]] # NoInode
                      /\ p_filp'[p][d] = p_filp[p][d]
                      /\ f_inode'[p_filp[p][d]] = f_inode[p_filp[p][d]]
                      /\ i_count[f_inode[p_filp[p][d]]] # 0 =>
                           i_num'[f_inode[p_filp[p][d]]]
                             = i_num[f_inode[p_filp[p][d]]]
    BY DEF KeepsInode
  <1> USE DEF tabVars, entVars, inoVars
  <1>0. TypeOK
    BY DEF KInv, IInv
  <1>1. halted = "no"
    BY NameiLemma, FstatLemma, <1>0
    DEF At, Call, Run, Open, Stat, NameiPanic, Close, ClosePanic,
       FstatPanic, FgetAcquire, FgetFault, FgetFound, FgetEmpty, FgetFull,
       FgetShare, FgetTake, FdgetAcquire, FdgetFound, FdgetNone, OpenMode,
       OpenNotRegular, OpenNoFile, OpenNoFd, OpenSetFd, IputAndPanic,
       CloseAcquire, CloseDrop, CloseIput, CloseClear, StatIput, StatIrelease
  <1>2. /\ p_filp[p][d] \in Files /\ f_count[p_filp[p][d]] # 0
        /\ f_inode[p_filp[p][d]] # NoInode
    BY <1>1, CountPositive DEF KInv, EntryInv
  <1>3. /\ p_filp \in [Procs -> [Fds -> Files \cup {NoFile}]]
        /\ f_inode \in [Files -> Slots \cup {NoInode}] /\ fd \in [Procs -> Fds]
        /\ i_num \in [Slots -> Inums \cup {NoInum}]
        /\ d \in Fds
    BY <1>0 DEF TypeOK
  <1>4. CASE FgetTake(q)
    BY <1>1, <1>2, <1>3, <1>4 DEF FgetTake, At, KInv, EntryInv
  <1>5. CASE CloseClear(q)
    BY <1>1, <1>2, <1>3, <1>5 DEF CloseClear, At, KInv, EntryInv
  <1>6. CASE OpenSetFd(q)
    <2>1. p_filp[q][fd[q]] = NoFile
      BY <1>6 DEF OpenSetFd, At, KInv, CInv, HandInv
    <2> QED BY <1>2, <1>3, <1>6, <2>1, FilesLemma DEF OpenSetFd
  <1>7. CASE UNCHANGED <<f_inode, p_filp, i_num>>
    BY <1>2, <1>7
  <1>8. CASE Open(q) \/ Stat(q)
    <2>1. PICK label : Namei(q, label)
      BY <1>8 DEF Open, Stat
    <2>2. UNCHANGED <<f_inode, p_filp>>
      BY <1>0, <2>1, NameiLemma
    <2>3. \A s \in Slots : i_count[s] # 0 => i_num'[s] = i_num[s]
      BY <1>0, <1>3, <2>1, NameiLemma DEF NameiAt, NameiHitAt, NameiTakeAt
    <2> QED BY <1>2, <1>3, <2>2, <2>3
  <1>9. CASE Fstat(q) \/ StatIrelease(q)
    <2>1. UNCHANGED <<f_inode, p_filp, i_num>>
      BY <1>0, <1>9, FstatLemma, IreleaseTypes DEF StatIrelease
    <2> QED BY <1>7, <2>1
  <1>10. \/ FgetTake(q) \/ CloseClear(q) \/ OpenSetFd(q) \/ Open(q) \/ Stat(q)
         \/ Fstat(q) \/ StatIrelease(q) \/ UNCHANGED <<f_inode, p_filp, i_num>>
    BY DEF Call, Run, NameiPanic, Close, ClosePanic, FstatPanic, FgetAcquire,
       FgetFault, FgetFound, FgetEmpty, FgetFull, FgetShare, FdgetAcquire,
       FdgetFound, FdgetNone, OpenMode, OpenNotRegular, OpenNoFile, OpenNoFd,
       IputAndPanic, CloseAcquire, CloseDrop, CloseIput, StatIput
  <1> QED BY <1>4, <1>5, <1>6, <1>7, <1>8, <1>9, <1>10

\* If no process closes a descriptor twice and no count of an entry can wrap, a
\* descriptor keeps its entry and its inode in memory from the open to the
\* close, whatever others open, stat and close, and that inode stays the file's
\* while its count is not 0 (open_close.c:14-137, inode.c:22-38).  That its
\* count is not 0 is not promised: sys_stat takes it to 0.
THEOREM InodeKept == Careless = {} /\ FewUsers => (Spec => OpenKeepsInode)
  <1> SUFFICES ASSUME Careless = {}, FewUsers PROVE Spec => OpenKeepsInode
    OBVIOUS
  <1>1. KInv /\ [Next]_vars => KInv'
    BY NextKInv
  <1>2. KInv /\ [Next]_vars => [KeepsInode]_vars
    BY StepKeepsInode DEF Next
  <1> QED BY InitKInv, <1>1, <1>2, PTL DEF Spec, OpenKeepsInode
=============================================================================
