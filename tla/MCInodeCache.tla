---------------------------- MODULE MCInodeCache ----------------------------
(* InodeCache with the layout of a small device. *)
EXTENDS InodeCache

\* All inodes of the instance are in block 1 of the device.
InoBlkDef == [ino \in Inums |-> 1]
=============================================================================
