----------------------------- MODULE MCFileLock -----------------------------
(***************************************************************************)
(* Small instances of FileLock: two or three processes, one inode more     *)
(* than processes (each can keep a detached file open while the path names *)
(* another), two attempts where the code makes eight.                      *)
(***************************************************************************)
EXTENDS FileLock, TLC

Symmetry == Permutations(Process) \cup Permutations(Inode)
=============================================================================
