--------------------------- MODULE BufferIsStore ---------------------------
(* The buffer cache seen as the block store it stands for. *)
EXTENDS BufferUsers

CONSTANT None

ASSUME NoneAssumption == None \notin Blocks

\* The contents of a block: those of its counted buffer, else the device's.
Cached(blk) == {s \in Named(blk) : b_count[s] # 0}
Content == [blk \in Blocks |->
    IF Cached(blk) = {} THEN disk[blk]
    ELSE b_data[CHOOSE s \in Cached(blk) : TRUE]]

Held == [p \in Procs |-> IF bpc[p] = "holding" THEN want[p] ELSE None]
View == [p \in Procs |-> IF bpc[p] = "holding" THEN b_data[cur[p]] ELSE None]

Store == INSTANCE BlockStore
    WITH Users <- Procs, content <- Content, held <- Held, view <- View

\* A caller of bread sees, and its changes reach, the block it asked for,
\* through hits, misses, write-back and reuse of the buffer by another block
\* (block.c:20-79, 139-164).
IsBlockStore == Store!Spec

\* With one process the cache panics only when it is full of other blocks: the
\* count of a buffer never rises above 1, however often its block is read and
\* forgotten, and brelease is never given an unused buffer (block.c:22-28,
\* 49-50, 67-76, 161).
PanicOnlyWhenFull ==
    /\ halted # "brelease: unused buffer"
    /\ halted = "bget: no buffer available" =>
        /\ \A s, t \in Slots : s # t => b_blk[s] # b_blk[t]
        /\ \A s \in Slots : b_count[s] = 1
        /\ \E p \in Procs : bpc[p] = "take" /\ Named(want[p]) = {}
=============================================================================
