------------------------------ MODULE LockSpec ------------------------------
(***************************************************************************)
(* What a lock file promises its callers: at most one process is inside    *)
(* at a time, a process enters only an empty lock, and only the process    *)
(* inside leaves it.  The module knows nothing of files: FileLock, where   *)
(* the lock is an inode a path may stop naming, implements it.             *)
(***************************************************************************)
CONSTANT Process

VARIABLE inside       \* the processes that may touch what the lock guards

Init == inside = {}

Enter(p) == inside = {} /\ inside' = {p}

Leave(p) == inside = {p} /\ inside' = {}

Next == \E p \in Process : Enter(p) \/ Leave(p)

Spec == Init /\ [][Next]_inside
=============================================================================
