--------------------------- MODULE FileLockProofs ---------------------------
(***************************************************************************)
(* Proofs about FileLock, for every number of processes, inodes and        *)
(* attempts: it is well typed; until a purge it is a lock and implements   *)
(* LockSpec; with or without a purge, giving up needs Attempts unlinks.    *)
(***************************************************************************)
EXTENDS FileLock, TLAPS

LEMMA AttemptsPositive == Attempts \in Nat /\ 1 <= Attempts
BY AttemptsAssumption

\* A counter of attempts or unlinks that is reset, or that grows below its
\* bound, keeps its type.
LEMMA CounterType ==
    ASSUME NEW f \in [Process -> 0 .. Attempts], NEW p \in Process
    PROVE  /\ [f EXCEPT ![p] = 0] \in [Process -> 0 .. Attempts]
           /\ f[p] + 1 <= Attempts =>
                  [f EXCEPT ![p] = f[p] + 1] \in [Process -> 0 .. Attempts]
BY AttemptsPositive

USE NoInodeAssumption, NoProcessAssumption, AttemptsPositive

\* What a step of any kind is: one action of one process, or a purge.
LEMMA NextCases ==
    ASSUME Next
    PROVE  \/ \E p \in Process :
                 \/ \E c \in Call : Begin(p, c)
                 \/ OpenOrCreate(p) \/ OpenExisting(p) \/ OsRefuses(p)
                 \/ TakeFree(p) \/ FindHeld(p) \/ TakeQueued(p) \/ Validate(p)
                 \/ LoseFile(p) \/ Unlink(p) \/ Release(p) \/ Crash(p)
           \/ Purge
BY DEF Next, Advance

-----------------------------------------------------------------------------
LEMMA InitType == Init => TypeOK
<1> SUFFICES ASSUME Init PROVE TypeOK
  OBVIOUS
<1>1. purged \in BOOLEAN
  BY DEF Init
<1> QED
  BY <1>1 DEF Init, TypeOK, Call, Step, Outcome

\* CountUnlink and Close keep their variables in their types.
LEMMA CountUnlinkType ==
    ASSUME TypeOK, CountUnlink PROVE lost' \in [Process -> 0 .. Attempts]
BY DEF TypeOK, CountUnlink

LEMMA CloseType ==
    ASSUME TypeOK, NEW p \in Process, Close(p)
    PROVE  /\ fd' \in [Process -> Inode \cup {NoInode}]
           /\ holder' \in [Inode -> Process \cup {NoProcess}]
BY DEF TypeOK, Close

LEMMA LoseFileAttempts ==
    ASSUME TypeOK, NEW p \in Process, LoseFile(p)
    PROVE  attempt[p] \in Nat /\ attempt[p] + 1 <= Attempts
BY DEF TypeOK, LoseFile

LEMMA NextType == TypeOK /\ [Next]_vars => TypeOK'
<1> SUFFICES ASSUME TypeOK, [Next]_vars PROVE TypeOK'
  OBVIOUS
<1> USE DEF TypeOK, Call, Step, Outcome
<1>1. ASSUME NEW p \in Process, NEW c \in Call, Begin(p, c) PROVE TypeOK'
  <2>1. queued' \in [Process -> BOOLEAN]
    BY <1>1, Zenon DEF Begin
  <2>2. /\ attempt' \in [Process -> 0 .. Attempts]
        /\ lost' \in [Process -> 0 .. Attempts]
    BY <1>1, CounterType, Zenon DEF Begin
  <2> QED
    BY <1>1, <2>1, <2>2 DEF Begin, Goto
<1>2. ASSUME NEW p \in Process, OpenOrCreate(p) PROVE TypeOK'
  BY <1>2 DEF OpenOrCreate, Goto
<1>3. ASSUME NEW p \in Process, OpenExisting(p) PROVE TypeOK'
  BY <1>3 DEF OpenExisting, Goto, Return
<1>4. ASSUME NEW p \in Process, OsRefuses(p) PROVE TypeOK'
  BY <1>4, CloseType DEF OsRefuses, Return
<1>5. ASSUME NEW p \in Process, TakeFree(p) PROVE TypeOK'
  BY <1>5 DEF TakeFree, Goto
<1>6. ASSUME NEW p \in Process, FindHeld(p) PROVE TypeOK'
  BY <1>6, CloseType DEF FindHeld, Goto, Return
<1>7. ASSUME NEW p \in Process, TakeQueued(p) PROVE TypeOK'
  BY <1>7 DEF TakeQueued, Goto
<1>8. ASSUME NEW p \in Process, Validate(p) PROVE TypeOK'
  BY <1>8 DEF Validate, Goto
<1>9. ASSUME NEW p \in Process, LoseFile(p) PROVE TypeOK'
  <2>1. attempt' \in [Process -> 0 .. Attempts]
    BY <1>9, LoseFileAttempts, CounterType, Zenon DEF LoseFile
  <2> QED
    BY <1>9, <2>1, CloseType DEF LoseFile, Goto, Return
<1>10. ASSUME NEW p \in Process, Unlink(p) PROVE TypeOK'
  BY <1>10, CountUnlinkType DEF Unlink, Goto
<1>11. ASSUME NEW p \in Process, Release(p) PROVE TypeOK'
  BY <1>11, CloseType DEF Release, Goto
<1>12. ASSUME NEW p \in Process, Crash(p) PROVE TypeOK'
  BY <1>12, CloseType DEF Crash, Return
<1>13. CASE Purge
  BY <1>13, CountUnlinkType DEF Purge
<1>14. CASE UNCHANGED vars
  BY <1>14 DEF vars
<1> QED
  BY <1>1, <1>2, <1>3, <1>4, <1>5, <1>6, <1>7, <1>8, <1>9, <1>10, <1>11,
     <1>12, <1>13, <1>14, NextCases

\* The variables of FileLock keep their types (domain/locks.rs).
THEOREM TypeCorrect == Spec => []TypeOK
BY InitType, NextType, PTL DEF Spec

-----------------------------------------------------------------------------
(***************************************************************************)
(* Who holds what.  These two parts of LockInv survive a purge: it changes *)
(* only what the path names.                                               *)
(***************************************************************************)
Held == HoldersHoldWhatTheyOpened /\ OpenWhenLocking

LEMMA InitHeld == Init => Held
BY DEF Init, Held, HoldersHoldWhatTheyOpened, OpenWhenLocking, FlockHeld

LEMMA NextHeld == TypeOK /\ Held /\ [Next]_vars => Held'
<1> SUFFICES ASSUME TypeOK, Held, [Next]_vars PROVE Held'
  OBVIOUS
<1> USE DEF TypeOK, Held, HoldersHoldWhatTheyOpened, OpenWhenLocking, FlockHeld,
            Step, Goto, Return, Close
<1>1. ASSUME NEW p \in Process, NEW c \in Call, Begin(p, c) PROVE Held'
  BY <1>1 DEF Begin
<1>2. ASSUME NEW p \in Process, OpenOrCreate(p) PROVE Held'
  BY <1>2 DEF OpenOrCreate
<1>3. ASSUME NEW p \in Process, OpenExisting(p) PROVE Held'
  BY <1>3 DEF OpenExisting
<1>4. ASSUME NEW p \in Process, OsRefuses(p) PROVE Held'
  BY <1>4 DEF OsRefuses
<1>5. ASSUME NEW p \in Process, TakeFree(p) PROVE Held'
  BY <1>5 DEF TakeFree
<1>6. ASSUME NEW p \in Process, FindHeld(p) PROVE Held'
  BY <1>6 DEF FindHeld
<1>7. ASSUME NEW p \in Process, TakeQueued(p) PROVE Held'
  BY <1>7 DEF TakeQueued
<1>8. ASSUME NEW p \in Process, Validate(p) PROVE Held'
  BY <1>8 DEF Validate
<1>9. ASSUME NEW p \in Process, LoseFile(p) PROVE Held'
  BY <1>9 DEF LoseFile
<1>10. ASSUME NEW p \in Process, Unlink(p) PROVE Held'
  BY <1>10 DEF Unlink
<1>11. ASSUME NEW p \in Process, Release(p) PROVE Held'
  BY <1>11 DEF Release
<1>12. ASSUME NEW p \in Process, Crash(p) PROVE Held'
  BY <1>12 DEF Crash
<1>13. CASE Purge
  BY <1>13 DEF Purge
<1>14. CASE UNCHANGED vars
  BY <1>14 DEF vars
<1> QED
  BY <1>1, <1>2, <1>3, <1>4, <1>5, <1>6, <1>7, <1>8, <1>9, <1>10, <1>11,
     <1>12, <1>13, <1>14, NextCases

-----------------------------------------------------------------------------
(***************************************************************************)
(* Until a purge, whoever is inside holds the inode the path names, so    *)
(* the path cannot change under it: a file is created only where there is  *)
(* none, and unlinked only by the process that is inside.                  *)
(***************************************************************************)
LEMMA InitLockInv == Init => LockInv
BY InitHeld DEF Init, Held, LockInv, InsideNamesPath, Inside

\* Two processes inside have the same inode open, and an inode has one holder.
LEMMA LockInvMutex == TypeOK /\ LockInv => Mutex
BY DEF TypeOK, LockInv, HoldersHoldWhatTheyOpened, OpenWhenLocking,
       InsideNamesPath, Mutex, Inside, FlockHeld

\* The step that matters is the unlink: it takes the name away from everybody,
\* and by mutual exclusion nobody else was inside.
LEMMA NextInsideNamesPath ==
    ASSUME TypeOK, LockInv, [Next]_vars
    PROVE  InsideNamesPath'
<1> USE DEF TypeOK, LockInv, InsideNamesPath, Inside, Step, Goto, Return, Close
<1>1. ASSUME NEW p \in Process, NEW c \in Call, Begin(p, c)
      PROVE InsideNamesPath'
  BY <1>1 DEF Begin
<1>2. ASSUME NEW p \in Process, OpenOrCreate(p) PROVE InsideNamesPath'
  BY <1>2 DEF OpenOrCreate, OpenWhenLocking
<1>3. ASSUME NEW p \in Process, OpenExisting(p) PROVE InsideNamesPath'
  BY <1>3 DEF OpenExisting
<1>4. ASSUME NEW p \in Process, OsRefuses(p) PROVE InsideNamesPath'
  BY <1>4 DEF OsRefuses
<1>5. ASSUME NEW p \in Process, TakeFree(p) PROVE InsideNamesPath'
  BY <1>5 DEF TakeFree
<1>6. ASSUME NEW p \in Process, FindHeld(p) PROVE InsideNamesPath'
  BY <1>6 DEF FindHeld
<1>7. ASSUME NEW p \in Process, TakeQueued(p) PROVE InsideNamesPath'
  BY <1>7 DEF TakeQueued
<1>8. ASSUME NEW p \in Process, Validate(p) PROVE InsideNamesPath'
  BY <1>8 DEF Validate, StillNamedBy
<1>9. ASSUME NEW p \in Process, LoseFile(p) PROVE InsideNamesPath'
  BY <1>9 DEF LoseFile
<1>10. ASSUME NEW p \in Process, Unlink(p) PROVE InsideNamesPath'
  <2>1. ~purged => \A q \in Process : q # p => ~Inside(q)
    BY <1>10, LockInvMutex DEF Mutex, Unlink
  <2> QED
    BY <1>10, <2>1 DEF Unlink
<1>11. ASSUME NEW p \in Process, Release(p) PROVE InsideNamesPath'
  BY <1>11 DEF Release
<1>12. ASSUME NEW p \in Process, Crash(p) PROVE InsideNamesPath'
  BY <1>12 DEF Crash
<1>13. CASE Purge
  BY <1>13 DEF Purge
<1>14. CASE UNCHANGED vars
  BY <1>14 DEF vars
<1> QED
  BY <1>1, <1>2, <1>3, <1>4, <1>5, <1>6, <1>7, <1>8, <1>9, <1>10, <1>11,
     <1>12, <1>13, <1>14, NextCases

\* The inductive invariant of the lock, for any number of processes.
THEOREM LockInvariant == Spec => []LockInv
<1>1. TypeOK /\ LockInv /\ [Next]_vars => LockInv'
  BY NextHeld, NextInsideNamesPath DEF LockInv, Held
<1> QED
  BY InitLockInv, TypeCorrect, <1>1, PTL DEF Spec

\* Until a purge, no two processes are inside the lock at once.
THEOREM MutualExclusion == Spec => []Mutex
BY TypeCorrect, LockInvariant, LockInvMutex, PTL

\* Until a purge, a sweep unlinks only the file it locked.
THEOREM ReclaimIsSafe == Spec => ReclaimRemovesWhatItLocked
<1>1. LockInv /\ [Next]_vars =>
        [~purged => \A p \in Process : pc[p] = "unlinking" /\ outcome'[p] = "removed"
            => fd[p] = path]_vars
  BY DEF LockInv, InsideNamesPath, Inside
<1> QED
  BY LockInvariant, <1>1, PTL DEF Spec, ReclaimRemovesWhatItLocked

(***************************************************************************)
(* Refinement.  Validate is the abstract Enter; Release from the critical  *)
(* section, a reclaim's Unlink and the Crash of a holder are Leave; every  *)
(* other step leaves the set of those inside alone.                        *)
(***************************************************************************)
LEMMA EnterStep ==
    ASSUME TypeOK, TypeOK', Mutex', NEW p \in Process, Inside(p)', ~Inside(p),
           ~purged, ~purged',
           \A q \in Process : q # p => (Inside(q)' <=> Inside(q))
    PROVE  Abstract!Enter(p)
BY DEF Mutex, Within, Abstract!Enter

LEMMA LeaveStep ==
    ASSUME TypeOK, TypeOK', Mutex, NEW p \in Process, ~Inside(p)', Inside(p),
           ~purged, ~purged',
           \A q \in Process : q # p => (Inside(q)' <=> Inside(q))
    PROVE  Abstract!Leave(p)
BY DEF Mutex, Within, Abstract!Leave

LEMMA StutterStep ==
    ASSUME \A q \in Process : Inside(q)' <=> Inside(q), purged' <=> purged
    PROVE  Within' = Within
BY DEF Within

\* A purge ends the turn of the one process inside, if there is one.
LEMMA PurgeStep ==
    ASSUME TypeOK, Mutex, Purge
    PROVE  Abstract!Next \/ Within' = Within
<1>1. Within' = {}
  BY DEF Purge, Within
<1>2. CASE Within = {}
  BY <1>1, <1>2
<1>3. CASE Within # {}
  <2>1. PICK p \in Process : Within = {p}
    BY <1>3 DEF Within, Mutex
  <2> QED
    BY <1>1, <2>1 DEF Abstract!Next, Abstract!Leave
<1> QED
  BY <1>2, <1>3

\* Whatever one process does to its own step number, the others keep theirs.
LEMMA OneMoves ==
    ASSUME [Next]_vars, ~Purge
    PROVE  /\ purged' = purged
           /\ \/ UNCHANGED pc
              \/ \E p \in Process, s \in Step : pc' = [pc EXCEPT ![p] = s]
<1> USE DEF Goto, Return, Step
<1>1. ASSUME NEW p \in Process, NEW c \in Call, Begin(p, c)
      PROVE purged' = purged /\ \E s \in Step : pc' = [pc EXCEPT ![p] = s]
  BY <1>1 DEF Begin
<1>2. ASSUME NEW p \in Process,
             \/ OpenOrCreate(p) \/ OpenExisting(p) \/ OsRefuses(p)
             \/ TakeFree(p) \/ FindHeld(p) \/ TakeQueued(p)
      PROVE purged' = purged /\ \E s \in Step : pc' = [pc EXCEPT ![p] = s]
  BY <1>2 DEF OpenOrCreate, OpenExisting, OsRefuses, TakeFree, FindHeld,
              TakeQueued
<1>3. ASSUME NEW p \in Process,
             \/ Validate(p) \/ LoseFile(p) \/ Unlink(p) \/ Release(p)
             \/ Crash(p)
      PROVE purged' = purged /\ \E s \in Step : pc' = [pc EXCEPT ![p] = s]
  BY <1>3 DEF Validate, LoseFile, Unlink, Release, Crash
<1>4. UNCHANGED vars => UNCHANGED <<pc, purged>>
  BY DEF vars
<1> QED
  BY <1>1, <1>2, <1>3, <1>4, NextCases

LEMMA RefineStep ==
    ASSUME TypeOK, TypeOK', Mutex, Mutex', [Next]_vars
    PROVE  Abstract!Next \/ Within' = Within
<1>1. CASE Purge
  BY <1>1, PurgeStep
<1>2. CASE ~Purge /\ (purged \/ UNCHANGED pc)
  BY <1>2, OneMoves, StutterStep DEF Inside, Within
<1>3. ASSUME NEW p \in Process, NEW s \in Step, pc' = [pc EXCEPT ![p] = s],
             ~purged, ~purged'
      PROVE  Abstract!Next \/ Within' = Within
  <2>1. \A q \in Process : q # p => (Inside(q)' <=> Inside(q))
    BY <1>3 DEF Inside, TypeOK
  <2>2. CASE Inside(p)' /\ ~Inside(p)
    BY <1>3, <2>1, <2>2, EnterStep DEF Abstract!Next
  <2>3. CASE ~Inside(p)' /\ Inside(p)
    BY <1>3, <2>1, <2>3, LeaveStep DEF Abstract!Next
  <2>4. CASE Inside(p)' <=> Inside(p)
    BY <1>3, <2>1, <2>4, StutterStep
  <2> QED
    BY <2>2, <2>3, <2>4
<1> QED
  BY <1>1, <1>2, <1>3, OneMoves

\* Until a purge, the lock file is the lock its callers assume: every step
\* enters an empty lock, leaves it, or does not show.
THEOREM Implementation == Spec => ImplementsLock
<1>1. Init => Abstract!Init
  BY DEF Init, Abstract!Init, Within, Inside
<1>2. TypeOK /\ TypeOK' /\ Mutex /\ Mutex' /\ [Next]_vars =>
        [Abstract!Next]_Within
  BY RefineStep
<1> QED
  BY <1>1, <1>2, TypeCorrect, MutualExclusion, PTL
  DEF Spec, ImplementsLock, Abstract!Spec

-----------------------------------------------------------------------------
(***************************************************************************)
(* Giving up, beside a purge or not.  The invariant adds to the property   *)
(* that a call in progress has attempts left, and has not given up.        *)
(***************************************************************************)
CallsHaveAttempts ==
    \A p \in Process : pc[p] # "idle" => attempt[p] < Attempts
Detached(p) == fd[p] \notin {path, NoInode}
AttemptsPaid ==
    \A p \in Process : /\ attempt[p] <= lost[p]
                       /\ Detached(p) => attempt[p] + 1 <= lost[p]
GaveUp ==
    \A p \in Process : outcome[p] = "superseded" => lost[p] = Attempts

SupersededInv == CallsHaveAttempts /\ AttemptsPaid /\ GaveUp

LEMMA InitSupersededInv == Init => SupersededInv
BY DEF Init, SupersededInv, CallsHaveAttempts, AttemptsPaid, GaveUp, Detached

\* One unlink of the path pays for one more attempt of every call in progress.
LEMMA CountUnlinkPays ==
    ASSUME TypeOK, CountUnlink, NEW p \in Process
    PROVE  /\ lost[p] <= lost'[p]
           /\ pc[p] # "idle" => lost[p] + 1 <= lost'[p] \/ lost'[p] = Attempts
           /\ lost[p] = Attempts => lost'[p] = Attempts
BY DEF TypeOK, CountUnlink

\* An unlink detaches the files that were attached, and counts for each.
LEMMA UnlinkKeepsPaid ==
    ASSUME TypeOK, Held, SupersededInv, CountUnlink, path' = NoInode,
           UNCHANGED <<fd, attempt>>
    PROVE  AttemptsPaid'
<1> SUFFICES ASSUME NEW p \in Process
             PROVE  /\ attempt[p] <= lost'[p]
                    /\ fd[p] # NoInode => attempt[p] + 1 <= lost'[p]
  BY DEF AttemptsPaid, Detached
<1>1. attempt[p] \in Nat /\ lost[p] \in Nat /\ lost'[p] \in Nat
  BY CountUnlinkType DEF TypeOK
<1>2. attempt[p] <= lost[p]
  BY DEF SupersededInv, AttemptsPaid
<1>3. attempt[p] <= lost'[p]
  BY <1>1, <1>2, CountUnlinkPays
<1>4. ASSUME fd[p] # NoInode PROVE attempt[p] + 1 <= lost'[p]
  <2>1. pc[p] # "idle" /\ attempt[p] + 1 <= Attempts
    BY <1>1, <1>4 DEF Held, OpenWhenLocking, SupersededInv, CallsHaveAttempts
  <2> QED
    BY <1>1, <1>2, <2>1, CountUnlinkPays
<1> QED
  BY <1>3, <1>4

LEMMA NextSupersededInv ==
    ASSUME TypeOK, Held, SupersededInv, [Next]_vars PROVE SupersededInv'
<1> USE DEF TypeOK, SupersededInv, CallsHaveAttempts, AttemptsPaid, GaveUp,
            Detached, Step, Outcome, Goto, Return, Close
<1>1. ASSUME NEW p \in Process, NEW c \in Call, Begin(p, c)
      PROVE SupersededInv'
  <2>1. fd[p] = NoInode
    BY <1>1 DEF Begin, Held, OpenWhenLocking
  <2> QED
    BY <1>1, <2>1 DEF Begin
<1>2. ASSUME NEW p \in Process, OpenOrCreate(p) PROVE SupersededInv'
  BY <1>2 DEF OpenOrCreate, Unused
<1>3. ASSUME NEW p \in Process, OpenExisting(p) PROVE SupersededInv'
  BY <1>3 DEF OpenExisting
<1>4. ASSUME NEW p \in Process, OsRefuses(p) PROVE SupersededInv'
  BY <1>4 DEF OsRefuses
<1>5. ASSUME NEW p \in Process, TakeFree(p) PROVE SupersededInv'
  BY <1>5 DEF TakeFree
<1>6. ASSUME NEW p \in Process, FindHeld(p) PROVE SupersededInv'
  BY <1>6 DEF FindHeld
<1>7. ASSUME NEW p \in Process, TakeQueued(p) PROVE SupersededInv'
  BY <1>7 DEF TakeQueued
<1>8. ASSUME NEW p \in Process, Validate(p) PROVE SupersededInv'
  BY <1>8 DEF Validate
<1>9. ASSUME NEW p \in Process, LoseFile(p) PROVE SupersededInv'
  <2>1. Detached(p) /\ attempt[p] + 1 <= lost[p]
    BY <1>9 DEF LoseFile, StillNamedBy, Held, OpenWhenLocking
  <2>2. attempt' = [attempt EXCEPT ![p] = attempt[p] + 1] /\ UNCHANGED lost
    BY <1>9 DEF LoseFile
  <2>3. fd' = [fd EXCEPT ![p] = NoInode] /\ UNCHANGED path
    BY <1>9 DEF LoseFile
  <2>4. CallsHaveAttempts'
    BY <1>9, <2>2 DEF LoseFile
  <2>5. AttemptsPaid'
    BY <2>1, <2>2, <2>3
  <2>6. GaveUp'
    BY <1>9, <2>1, <2>2, LoseFileAttempts DEF LoseFile
  <2> QED
    BY <2>4, <2>5, <2>6
<1>10. ASSUME NEW p \in Process, Unlink(p) PROVE SupersededInv'
  <2>1. CallsHaveAttempts'
    BY <1>10 DEF Unlink
  <2>2. AttemptsPaid'
    BY <1>10, UnlinkKeepsPaid DEF Unlink
  <2>3. GaveUp'
    BY <1>10, CountUnlinkPays DEF Unlink
  <2> QED
    BY <2>1, <2>2, <2>3
<1>11. ASSUME NEW p \in Process, Release(p) PROVE SupersededInv'
  BY <1>11 DEF Release
<1>12. ASSUME NEW p \in Process, Crash(p) PROVE SupersededInv'
  BY <1>12 DEF Crash
<1>13. CASE Purge
  BY <1>13, UnlinkKeepsPaid, CountUnlinkPays DEF Purge
<1>14. CASE UNCHANGED vars
  BY <1>14 DEF vars
<1> QED
  BY <1>1, <1>2, <1>3, <1>4, <1>5, <1>6, <1>7, <1>8, <1>9, <1>10, <1>11,
     <1>12, <1>13, <1>14, NextCases

\* A call gives its lock up as superseded only after the path lost its file
\* Attempts times while the call ran, even beside a purge.
THEOREM GivingUpIsEarned == Spec => []SupersededNeedsUnlinks
<1>1. Held /\ TypeOK /\ SupersededInv => SupersededNeedsUnlinks
  BY DEF SupersededInv, AttemptsPaid, GaveUp, Detached, TypeOK,
         SupersededNeedsUnlinks
<1> QED
  BY InitHeld, NextHeld, InitSupersededInv, NextSupersededInv, TypeCorrect,
     <1>1, PTL DEF Spec
=============================================================================
