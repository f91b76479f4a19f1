---------------------------- MODULE MCFileTable ----------------------------
(* FileTable with processes, and regular files, that are interchangeable. *)
EXTENDS FileTable, TLC

Symmetry == Permutations(Procs) \cup Permutations(Regular)
=============================================================================
