---------------------------- MODULE MCReadWrite ----------------------------
(***************************************************************************)
(* ReadWrite with a file of two blocks.                                    *)
(***************************************************************************)
EXTENDS ReadWrite

CONSTANTS b1, b2

OffsetsDef == {1, 3}
AddrDef == [n \in 0..1 |-> IF n = 0 THEN b1 ELSE b2]
=============================================================================
