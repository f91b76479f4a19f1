---------------------------- MODULE BufferUsers ----------------------------
(***************************************************************************)
(* The buffer cache with every kind of caller the kernel has: a process    *)
(* reads a block, may change and mark it, and lets go of it by brelease,   *)
(* by bwrite or by forgetting it, MaxCalls times (iget, iput, ifree,       *)
(* dir_lookup, sys_read, sys_write and sbread are all of this form).       *)
(***************************************************************************)
EXTENDS BufferCache

CONSTANTS
    Requests,   \* the blocks asked for
    Forgetful,  \* the processes whose callers may drop a buffer unreleased
    MaxCalls    \* bound: calls of bread by one process

ASSUME RequestsAssumption == Requests \subseteq Blocks
ASSUME ForgetfulAssumption == Forgetful \subseteq Procs
ASSUME MaxCallsAssumption == MaxCalls \in Nat

VARIABLE calls  \* [Procs -> 0..MaxCalls] calls of bread made

vars == <<bufVars, calls>>

TypeOK == BufTypeOK /\ calls \in [Procs -> 0..MaxCalls]

Init == BufInit /\ calls = [p \in Procs |-> 0]

CallBread(p) ==
    /\ calls[p] < MaxCalls
    /\ \E blk \in Requests : Bread(p, blk)
    /\ calls' = [calls EXCEPT ![p] = @ + 1]

Use(p) ==
    /\ \/ \E d \in Data : Write(p, d)
       \/ MarkDirty(p)
       \/ p \in Forgetful /\ Forget(p)
       \/ Brelease(p)
       \/ Bwrite(p)
    /\ UNCHANGED calls

Run(p) == BufStep(p) /\ UNCHANGED calls

Next == \E p \in Procs : CallBread(p) \/ Use(p) \/ Run(p)

\* A process inside bread, bwrite or brelease keeps running; it need not make
\* another call.
Fairness == \A p \in Procs : WF_vars(Run(p))

Spec == Init /\ [][Next]_vars

LiveSpec == Spec /\ Fairness

-----------------------------------------------------------------------------
\* bread returns, or the kernel stopped: buffer.sl is never kept (block.c:20-31,
\* 139-164).
BreadReturns ==
    \A p \in Procs : (bpc[p] = "bget") ~> (bpc[p] = "holding" \/ halted # "no")

\* bwrite "writes a buffered block back to disk" (block.c:33-35) and returns,
\* although it returns with the lock of the buffer held when the buffer was
\* dirty (block.c:36-56).  With one process, which asks for blocks other than
\* 0, bget makes the lock anew before the buffer is used again; with two that
\* share a buffer the second bwrite of it waits for ever.
BwriteReturns ==
    \A p \in Procs : (bpc[p] = "bwrite") ~> (bpc[p] = "idle" \/ halted # "no")
=============================================================================
