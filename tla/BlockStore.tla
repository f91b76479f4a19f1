----------------------------- MODULE BlockStore -----------------------------
(***************************************************************************)
(* What a block cache promises its callers: a device whose blocks are read *)
(* and changed in memory as if nothing stood between.  A user holds at     *)
(* most one block and looks at its current contents, whoever changed them. *)
(***************************************************************************)
CONSTANTS
    Users,
    Blocks,
    Data,
    None    \* no block, no contents

VARIABLES
    content,    \* [Blocks -> Data]           what was last written
    held,       \* [Users -> Blocks or None]  the block a user has got
    view        \* [Users -> Data or None]    what it sees in it

vars == <<content, held, view>>

Init ==
    /\ content \in [Blocks -> Data]
    /\ held = [u \in Users |-> None]
    /\ view = [u \in Users |-> None]

Get(u, blk) ==
    /\ held[u] = None
    /\ held' = [held EXCEPT ![u] = blk]
    /\ view' = [view EXCEPT ![u] = content[blk]]
    /\ UNCHANGED content

Change(u, d) ==
    /\ held[u] # None
    /\ content' = [content EXCEPT ![held[u]] = d]
    /\ view' = [v \in Users |-> IF held[v] = held[u] THEN d ELSE view[v]]
    /\ UNCHANGED held

LetGo(u) ==
    /\ held[u] # None
    /\ held' = [held EXCEPT ![u] = None]
    /\ view' = [view EXCEPT ![u] = None]
    /\ UNCHANGED content

Next == \E u \in Users :
    \/ \E blk \in Blocks : Get(u, blk)
    \/ \E d \in Data : Change(u, d)
    \/ LetGo(u)

Spec == Init /\ [][Next]_vars
=============================================================================
