------------------------------ MODULE FileLock ------------------------------
(***************************************************************************)
(* One lock file of the shared cache (domain/locks.rs): the path, the      *)
(* inodes it has named, and the processes that open, flock, revalidate and *)
(* unlink it.                                                              *)
(*                                                                         *)
(* A process is inside one of three calls:                                 *)
(*   "hold"     hold_lock_watching: queue until the lock is ours;          *)
(*   "try"      run_if_lock_free:   work only if nobody has it;            *)
(*   "reclaim"  reclaim_between:    unlink the file while holding it.      *)
(*                                                                         *)
(* flock locks an inode, the callers mean a path.  What keeps the two      *)
(* together is still_named_by, asked after every flock.  `dl --purge`      *)
(* unlinks the path holding nothing: until then the file is a lock.        *)
(***************************************************************************)
EXTENDS Naturals, FiniteSets

CONSTANTS
    Process,     \* the dl processes that use this lock
    Inode,       \* inode numbers; one nothing names or has open is reused
    NoInode,     \* what a path that does not exist names
    NoProcess,   \* the holder of an inode nobody has locked
    Attempts     \* ACQUIRE_ATTEMPTS

ASSUME NoInodeAssumption   == NoInode \notin Inode
ASSUME NoProcessAssumption == NoProcess \notin Process
ASSUME AttemptsAssumption  == Attempts \in Nat \ {0}

VARIABLES
    path,        \* the inode lock_path names, or NoInode
    holder,      \* for each inode, the process whose flock it is
    fd,          \* for each process, the inode its descriptor is open on
    pc,          \* for each process, the step of its call it is at
    call,        \* for each process, the call it is in
    attempt,     \* how many of its attempts lost their file
    queued,      \* whether the call blocked; also whether WaitStarted was said
    lost,        \* unlinks of the path since the call began, up to Attempts
    outcome,     \* what the last call of the process came back with
    purged       \* history: `dl --purge` has taken a lock file away

vars == <<path, holder, fd, pc, call, attempt, queued, lost, outcome, purged>>

Call    == {"hold", "try", "reclaim"}
Step    == {"idle", "opening", "locking", "waiting", "validating",
            "critical", "unlinking", "leaving"}
Outcome == {"none", "locked", "missed", "superseded", "removed", "kept",
            "gone", "refused"}

TypeOK ==
    /\ path    \in Inode \cup {NoInode}
    /\ holder  \in [Inode -> Process \cup {NoProcess}]
    /\ fd      \in [Process -> Inode \cup {NoInode}]
    /\ pc      \in [Process -> Step]
    /\ call    \in [Process -> Call]
    /\ attempt \in [Process -> 0 .. Attempts]
    /\ queued  \in [Process -> BOOLEAN]
    /\ lost    \in [Process -> 0 .. Attempts]
    /\ outcome \in [Process -> Outcome]
    /\ purged  \in BOOLEAN

(***************************************************************************)
(* The file system and the kernel, as the calls see them.                  *)
(***************************************************************************)

\* A file created at the path gets an inode that no name and no descriptor
\* keeps alive: while a process has the old file open, its number is taken.
Unused(i) == i # path /\ \A p \in Process : fd[p] # i

\* Mutants of still_named_by: one that is never asked, and one that only asks
\* whether the path exists.
StillNamedByUnasked(p) == TRUE
StillNamedByExists(p) == path # NoInode

\* still_named_by: the file this process has open is the one at the path.
StillNamedBy(p) == fd[p] = path

\* Every process in a call sees the path lose its file once more.
CountUnlink ==
    lost' = [p \in Process |->
                IF pc[p] # "idle" /\ lost[p] < Attempts THEN lost[p] + 1
                                                        ELSE lost[p]]

\* Closing the descriptor, which drops the flock with it.
Close(p) ==
    /\ fd' = [fd EXCEPT ![p] = NoInode]
    /\ holder' = [i \in Inode |-> IF holder[i] = p THEN NoProcess ELSE holder[i]]

\* The call comes back to its caller with o.
Return(p, o) ==
    /\ pc' = [pc EXCEPT ![p] = "idle"]
    /\ outcome' = [outcome EXCEPT ![p] = o]

Goto(p, step) == pc' = [pc EXCEPT ![p] = step]

Init ==
    /\ path    = NoInode
    /\ holder  = [i \in Inode |-> NoProcess]
    /\ fd      = [p \in Process |-> NoInode]
    /\ pc      = [p \in Process |-> "idle"]
    /\ call    = [p \in Process |-> "hold"]
    /\ attempt = [p \in Process |-> 0]
    /\ queued  = [p \in Process |-> FALSE]
    /\ lost    = [p \in Process |-> 0]
    /\ outcome = [p \in Process |-> "none"]
    /\ purged  = FALSE

(***************************************************************************)
(* The steps of a call.                                                    *)
(***************************************************************************)

Begin(p, c) ==
    /\ pc[p] = "idle"
    /\ Goto(p, "opening")
    /\ call'    = [call EXCEPT ![p] = c]
    /\ attempt' = [attempt EXCEPT ![p] = 0]
    /\ queued'  = [queued EXCEPT ![p] = FALSE]
    /\ lost'    = [lost EXCEPT ![p] = 0]
    /\ outcome' = [outcome EXCEPT ![p] = "none"]
    /\ UNCHANGED <<path, holder, fd, purged>>

\* open_lock_file: create the directory and the file when they are missing.
OpenOrCreate(p) ==
    /\ pc[p] = "opening" /\ call[p] \in {"hold", "try"}
    /\ \/ path # NoInode /\ path' = path
       \/ path = NoInode /\ path' \in {i \in Inode : Unused(i)}
    /\ fd' = [fd EXCEPT ![p] = path']
    /\ Goto(p, "locking")
    /\ UNCHANGED <<holder, call, attempt, queued, lost, outcome, purged>>

\* A reclaim opens without creating.
OpenExisting(p) ==
    /\ pc[p] = "opening" /\ call[p] = "reclaim"
    /\ \/ /\ path # NoInode
          /\ fd' = [fd EXCEPT ![p] = path]
          /\ Goto(p, "locking")
          /\ UNCHANGED outcome
       \/ /\ path = NoInode
          /\ Return(p, "gone")
          /\ UNCHANGED fd
    /\ UNCHANGED <<path, holder, call, attempt, queued, lost, purged>>

\* The OS refuses the directory, the open or the flock: LockError, or
\* Reclaimed::Refused.
OsRefuses(p) ==
    /\ pc[p] \in {"opening", "locking", "waiting"}
    /\ Close(p)
    /\ Return(p, "refused")
    /\ UNCHANGED <<path, call, attempt, queued, lost, purged>>

\* The non-blocking flock that succeeds.
TakeFree(p) ==
    /\ pc[p] = "locking" /\ holder[fd[p]] = NoProcess
    /\ holder' = [holder EXCEPT ![fd[p]] = p]
    /\ Goto(p, "validating")
    /\ UNCHANGED <<path, fd, call, attempt, queued, lost, outcome, purged>>

\* ... and the one that would block: a hold says so once and queues, the other
\* two calls come straight back.
FindHeld(p) ==
    /\ pc[p] = "locking" /\ holder[fd[p]] # NoProcess
    /\ \/ /\ call[p] = "hold"
          /\ queued' = [queued EXCEPT ![p] = TRUE]
          /\ Goto(p, "waiting")
          /\ UNCHANGED <<holder, fd, outcome>>
       \/ /\ call[p] # "hold"
          /\ Close(p)
          /\ Return(p, IF call[p] = "try" THEN "missed" ELSE "kept")
          /\ UNCHANGED queued
    /\ UNCHANGED <<path, call, attempt, lost, purged>>

\* The blocking flock returns.
TakeQueued(p) ==
    /\ pc[p] = "waiting" /\ holder[fd[p]] = NoProcess
    /\ holder' = [holder EXCEPT ![fd[p]] = p]
    /\ Goto(p, "validating")
    /\ UNCHANGED <<path, fd, call, attempt, queued, lost, outcome, purged>>

\* The path still names the locked file: the lock is ours.
Validate(p) ==
    /\ pc[p] = "validating" /\ StillNamedBy(p)
    /\ Goto(p, IF call[p] = "reclaim" THEN "unlinking" ELSE "critical")
    /\ outcome' = [outcome EXCEPT ![p] = "locked"]
    /\ UNCHANGED <<path, holder, fd, call, attempt, queued, lost, purged>>

\* Mutant: a loop that does not count.
LoseFileUncounted(p) ==
    /\ pc[p] = "validating" /\ ~StillNamedBy(p)
    /\ Close(p)
    /\ Goto(p, "opening")
    /\ UNCHANGED <<path, call, attempt, queued, lost, outcome, purged>>
\* Mutant: the call gives up an attempt early.
LoseFileEarly(p) ==
    /\ pc[p] = "validating" /\ ~StillNamedBy(p)
    /\ Close(p)
    /\ attempt' = [attempt EXCEPT ![p] = @ + 1]
    /\ Return(p, IF call[p] = "reclaim" THEN "kept" ELSE "superseded")
    /\ UNCHANGED <<path, call, queued, lost, purged>>

\* It does not: close, and try again or give up after Attempts.
LoseFile(p) ==
    /\ pc[p] = "validating" /\ ~StillNamedBy(p)
    /\ Close(p)
    /\ attempt' = [attempt EXCEPT ![p] = @ + 1]
    /\ \/ /\ attempt[p] + 1 < Attempts
          /\ Goto(p, "opening")
          /\ UNCHANGED outcome
       \/ /\ attempt[p] + 1 = Attempts
          /\ Return(p, IF call[p] = "reclaim" THEN "kept" ELSE "superseded")
    /\ UNCHANGED <<path, call, queued, lost, purged>>

\* remove_file on the path, the flock still held.
Unlink(p) ==
    /\ pc[p] = "unlinking"
    /\ Goto(p, "leaving")
    /\ \/ /\ path # NoInode
          /\ path' = NoInode
          /\ CountUnlink
          /\ outcome' = [outcome EXCEPT ![p] = "removed"]
       \/ /\ path = NoInode
          /\ outcome' = [outcome EXCEPT ![p] = "gone"]
          /\ UNCHANGED <<path, lost>>
       \/ /\ outcome' = [outcome EXCEPT ![p] = "refused"]
          /\ UNCHANGED <<path, lost>>
    /\ UNCHANGED <<holder, fd, call, attempt, queued, purged>>

\* The guard is dropped: LockGuard::drop, or the end of reclaim.
Release(p) ==
    /\ pc[p] \in {"critical", "leaving"}
    /\ Close(p)
    /\ Goto(p, "idle")
    /\ UNCHANGED <<path, call, attempt, queued, lost, outcome, purged>>

\* The process dies, and the kernel closes its descriptor.
Crash(p) ==
    /\ pc[p] # "idle"
    /\ Close(p)
    /\ Return(p, "none")
    /\ UNCHANGED <<path, call, attempt, queued, lost, purged>>

\* `dl --purge` removes the cache directory, and the lock file in it.
Purge ==
    /\ path # NoInode
    /\ path' = NoInode /\ purged' = TRUE
    /\ CountUnlink
    /\ UNCHANGED <<holder, fd, pc, call, attempt, queued, outcome>>

Advance(p) ==
    \/ OpenOrCreate(p) \/ OpenExisting(p) \/ TakeFree(p) \/ FindHeld(p)
    \/ TakeQueued(p) \/ Validate(p) \/ LoseFile(p) \/ Unlink(p) \/ Release(p)

Next ==
    \/ \E p \in Process : \/ \E c \in Call : Begin(p, c)
                          \/ Advance(p) \/ OsRefuses(p) \/ Crash(p)
    \/ Purge

Spec == Init /\ [][Next]_vars

(***************************************************************************)
(* A running process takes its next step, and ends the work it does under  *)
(* the lock.  The kernel does not starve a blocked flock: a waiter that    *)
(* finds the inode free again and again is given it.  Nothing is assumed   *)
(* of purges, crashes, OS refusals or the start of calls.                  *)
(***************************************************************************)
FairSpec ==
    /\ Spec
    /\ \A p \in Process : WF_vars(Advance(p)) /\ SF_vars(TakeQueued(p))

-----------------------------------------------------------------------------
(***************************************************************************)
(* Properties.                                                             *)
(***************************************************************************)

\* Inside the lock: the guard was returned, or a reclaim decided to unlink.
Inside(p) == pc[p] \in {"critical", "unlinking"}

\* Until a purge unlinks without the lock, no two processes are inside at once,
\* a sweep about to unlink counted with the launches (locks.rs, module doc).
Mutex == ~purged => \A p, q \in Process : Inside(p) /\ Inside(q) => p = q

\* The inductive invariant behind Mutex, in three parts: a process past its
\* flock is the holder of the inode it has open and nobody else holds anything,
\* and whoever is inside before a purge holds the inode the path names.
FlockHeld == {"validating", "critical", "unlinking", "leaving"}
HoldersHoldWhatTheyOpened ==
    \A i \in Inode, p \in Process :
        holder[i] = p <=> pc[p] \in FlockHeld /\ fd[p] = i
OpenWhenLocking ==
    \A p \in Process : fd[p] # NoInode <=> pc[p] \notin {"idle", "opening"}
InsideNamesPath == ~purged => \A p \in Process : Inside(p) => fd[p] = path

LockInv == HoldersHoldWhatTheyOpened /\ OpenWhenLocking /\ InsideNamesPath

\* A call uses up an attempt only when the path lost the file it had opened, so
\* LockError::Superseded needs Attempts unlinks within one call, even beside a
\* purge: "Reachable only if something is unlinking the lock in a loop".
SupersededNeedsUnlinks ==
    \A p \in Process :
        /\ attempt[p] + (IF fd[p] \notin {path, NoInode} THEN 1 ELSE 0) <= lost[p]
        /\ outcome[p] = "superseded" => lost[p] = Attempts

\* Until a purge, a sweep removes the file it locked, never one that replaced it
\* (reclaim's "It unlinks only the inode it locked").
ReclaimRemovesWhatItLocked ==
    [][~purged => \A p \in Process :
          pc[p] = "unlinking" /\ outcome'[p] = "removed" => fd[p] = path]_vars

\* Every call comes back or gets the lock, whatever purges and sweeps do.
CallsEnd ==
    \A p \in Process : pc[p] = "opening" ~> pc[p] \in {"critical", "idle"}

\* The lock the callers rely on, until a purge ends it for whoever is inside: a
\* process enters only when nobody is, and none but itself ends its turn.
Within   == IF purged THEN {} ELSE {p \in Process : Inside(p)}
Abstract == INSTANCE LockSpec WITH inside <- Within
ImplementsLock == Abstract!Spec
=============================================================================
