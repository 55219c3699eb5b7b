--------------------------- MODULE LockOrderProofs ---------------------------
(***************************************************************************)
(* Theorems about LockOrder for every set of processes, repositories and   *)
(* workspaces and every bound: the types, that no set of commands waits    *)
(* only for its own members, and that a build stops nobody but the         *)
(* commands of its own workspace.                                          *)
(*                                                                         *)
(* The strengthening says where the holder of each lock is.  From it a     *)
(* process that is waited for is at a step of the lock's scope, and the    *)
(* only steps of a scope that wait are those that wait for a lock further  *)
(* in: repository, then metadata; launch, then devpod's.                   *)
(***************************************************************************)
EXTENDS LockOrder, TLAPS

InRepo(p) ==
    \/ at[p] \in RepoSection
    \/ at[p] \in {"store", "storing"} /\ back[p] \in RepoSection

\* Where the holder of each lock is.
HoldersAt ==
    /\ \A p \in Process : metaLock = p => at[p] = "storing"
    /\ \A p \in Process, r \in Repo : repoLock[r] = p => InRepo(p) /\ repo[p] = r
    /\ \A p \in Process, w \in Workspace :
          launchLock[w] = p => at[p] \in LaunchSection /\ ws[p] = w
    /\ \A p \in Process, w \in Workspace :
          flock[w] = p => at[p] \in {"upping", "deleting"} /\ ws[p] = w

IInv == TypeOK /\ HoldersAt

USE DEF Step, RepoSection, LaunchSection, Between, Inside

LEMMA Initially == Init => IInv
  <1> SUFFICES ASSUME Init PROVE IInv
    OBVIOUS
  <1>1. /\ (CHOOSE j \in Job : TRUE) \in Job
        /\ (CHOOSE r \in Repo : TRUE) \in Repo
        /\ (CHOOSE w \in Workspace : TRUE) \in Workspace
    <2>1. Job # {}
      BY DEF Job
    <2> QED
      BY <2>1, PlacesAssumption
  <1>2. TypeOK
    BY <1>1 DEF Init, TypeOK
  <1>3. HoldersAt
    BY HoldersAssumption DEF Init, HoldersAt
  <1> QED
    BY <1>2, <1>3 DEF IInv

-----------------------------------------------------------------------------
(***************************************************************************)
(* What one step does to the control state of the process that takes it,   *)
(* and only to that process's.                                             *)
(***************************************************************************)
Return == RepoSection \cup {"idle", "opened", "noted", "forget"}

Moved(p) ==
    /\ at'   \in [Process -> Step]   /\ repo' \in [Process -> Repo]
    /\ back' \in [Process -> Return] /\ left' \in [Process -> SUBSET Repo]
    /\ \A q \in Process \ {p} :
          at'[q] = at[q] /\ repo'[q] = repo[q] /\ back'[q] = back[q]

LEMMA GotoFacts ==
    ASSUME TypeOK, NEW p \in Process, NEW step \in Step, Goto(p, step)
    PROVE  /\ at' \in [Process -> Step] /\ at'[p] = step
           /\ \A q \in Process \ {p} : at'[q] = at[q]
           /\ UNCHANGED <<repo, left, back>> => Moved(p)
  BY DEF TypeOK, Goto, Moved, Return

LEMMA StoreFacts ==
    ASSUME TypeOK, NEW p \in Process, NEW after \in Return, Store(p, after)
    PROVE  /\ at'[p] = "store" /\ back'[p] = after
           /\ UNCHANGED <<repo, left>> => Moved(p)
  BY DEF TypeOK, Goto, Store, Moved, Return

LEMMA VisitFacts ==
    ASSUME TypeOK, NEW p \in Process, NEW todo \in SUBSET Repo,
           NEW wait \in Step, NEW done \in Step, Visit(p, todo, wait, done),
           UNCHANGED back
    PROVE  at'[p] \in {wait, done} /\ Moved(p)
  <1>1. CASE todo = {} /\ Goto(p, done) /\ left' = [left EXCEPT ![p] = {}]
                       /\ UNCHANGED repo
    BY <1>1, GotoFacts DEF TypeOK, Moved, Return
  <1>2. ASSUME NEW r \in todo, Goto(p, wait), repo' = [repo EXCEPT ![p] = r],
               left' = [left EXCEPT ![p] = todo \ {r}]
        PROVE  at'[p] \in {wait, done} /\ Moved(p)
    <2>1. todo \ {r} \in SUBSET Repo /\ r \in Repo
      OBVIOUS
    <2> QED
      BY <1>2, <2>1, GotoFacts DEF TypeOK, Moved, Return
  <1> QED
    BY <1>1, <1>2 DEF Visit

(***************************************************************************)
(* Three ways to keep the invariant.  A step that leaves every lock alone  *)
(* stays within the scopes it was in; one that lets go of a repo lock      *)
(* leaves that scope; one that lets go of a launch lock holds no other.    *)
(***************************************************************************)
LEMMA KeepsTheLocks ==
    ASSUME IInv, NEW p \in Process, Moved(p), UNCHANGED <<locks, ws, job>>,
           writes' \in [Process -> Nat], swept' \in [Process -> BOOLEAN],
           runs' \in [Process -> Nat], UNCHANGED <<foreigns, crashes>>,
           at[p] # "storing", at[p] \notin {"upping", "deleting"},
           InRepo(p) => InRepo(p)' /\ repo'[p] = repo[p],
           at[p] \in LaunchSection => at'[p] \in LaunchSection
    PROVE  IInv'
  <1>1. TypeOK'
    BY DEF IInv, TypeOK, Moved, Return, locks
  <1>2. HoldersAt'
    BY DEF IInv, HoldersAt, InRepo, Moved, locks
  <1> QED
    BY <1>1, <1>2 DEF IInv

LEMMA LetsGoOfTheRepo ==
    ASSUME IInv, NEW p \in Process, Moved(p), DropRepo(p), at[p] \in RepoSection
    PROVE  IInv'
  <1>1. /\ repoLock' \in [Repo -> Process \cup {Nobody}]
        /\ writes' \in [Process -> Nat]
        /\ \A r \in Repo : repoLock'[r] # p
        /\ \A q \in Process, r \in Repo : repoLock'[r] = q => repoLock[r] = q
    BY HoldersAssumption DEF IInv, TypeOK, HoldersAt, DropRepo
  <1>2. TypeOK'
    BY <1>1 DEF IInv, TypeOK, Moved, Return, DropRepo, counts
  <1>3. \A q \in Process : metaLock' = q => at'[q] = "storing"
    BY DEF IInv, HoldersAt, Moved, DropRepo
  <1>4. \A q \in Process, r \in Repo : repoLock'[r] = q => InRepo(q)' /\ repo'[q] = r
    BY <1>1 DEF IInv, HoldersAt, InRepo, Moved
  <1>5. \A q \in Process, w \in Workspace :
           launchLock'[w] = q => at'[q] \in LaunchSection /\ ws'[q] = w
    BY DEF IInv, HoldersAt, Moved, DropRepo
  <1>6. \A q \in Process, w \in Workspace :
           flock'[w] = q => at'[q] \in {"upping", "deleting"} /\ ws'[q] = w
    BY DEF IInv, HoldersAt, Moved, DropRepo
  <1> QED
    BY <1>2, <1>3, <1>4, <1>5, <1>6 DEF IInv, HoldersAt

LEMMA LetsGoOfTheLaunch ==
    ASSUME IInv, NEW p \in Process, Moved(p),
           at[p] \in {"locks", "unlinking", "lending"},
           launchLock' = [w \in Workspace |->
                             IF launchLock[w] = p THEN Nobody ELSE launchLock[w]],
           UNCHANGED <<metaLock, repoLock, flock, job, ws, writes, swept, counts>>
    PROVE  IInv'
  <1>1. /\ launchLock' \in [Workspace -> Process \cup {Nobody}]
        /\ \A w \in Workspace : launchLock'[w] # p
        /\ \A q \in Process, w \in Workspace : launchLock'[w] = q => launchLock[w] = q
    BY HoldersAssumption DEF IInv, TypeOK
  <1>2. TypeOK'
    BY <1>1 DEF IInv, TypeOK, Moved, Return, counts
  <1>3. HoldersAt'
    BY <1>1 DEF IInv, HoldersAt, InRepo, Moved
  <1> QED
    BY <1>2, <1>3 DEF IInv

-----------------------------------------------------------------------------
LEMMA Inductive == IInv /\ [Next]_vars => IInv'
  <1> SUFFICES ASSUME IInv, [Next]_vars PROVE IInv'
    OBVIOUS
  <1> USE HoldersAssumption
  <1>0. TypeOK /\ HoldersAt
    BY DEF IInv
  <1>1. ASSUME NEW p \in Process, TakeMeta(p) PROVE IInv'
    <2>1. Moved(p) /\ at'[p] = "storing"
      BY <1>0, <1>1, GotoFacts DEF TakeMeta, place
    <2>2. TypeOK'
      BY <1>0, <1>1, <2>1 DEF TakeMeta, TypeOK, Moved, Return, place, counts
    <2>3. HoldersAt'
      BY <1>0, <1>1, <2>1 DEF TakeMeta, TypeOK, HoldersAt, InRepo, Moved, place
    <2> QED
      BY <2>2, <2>3 DEF IInv
  <1>2. ASSUME NEW p \in Process, DropMeta(p) PROVE IInv'
    <2>0. back[p] \in Step
      BY <1>0 DEF TypeOK
    <2>1. Moved(p) /\ at'[p] = back[p]
      BY <1>0, <1>2, <2>0, GotoFacts DEF DropMeta, place
    <2>2. TypeOK'
      BY <1>0, <1>2, <2>1 DEF DropMeta, TypeOK, Moved, Return, place, counts
    <2>3. HoldersAt'
      BY <1>0, <1>2, <2>1 DEF DropMeta, TypeOK, HoldersAt, InRepo, Moved, place
    <2> QED
      BY <2>2, <2>3 DEF IInv
  <1>3. ASSUME NEW p \in Process, Open(p) PROVE IInv'
    <2>1. Moved(p) 
      BY <1>0, <1>3, GotoFacts, StoreFacts DEF Open, Return
    <2> QED
      BY <1>0, <1>3, <2>1, KeepsTheLocks DEF Open, TypeOK, InRepo, locks, counts
  <1>4. ASSUME NEW p \in Process, Begin(p) PROVE IInv'
    <2>1. Moved(p) 
      <3>1. CASE Goto(p, "serialize") /\ UNCHANGED <<repo, left>>
        BY <1>0, <1>4, <3>1, GotoFacts DEF Begin
      <3>2. ASSUME NEW r \in Repo, repo' = [repo EXCEPT ![p] = r],
                   NEW step \in {"ensure", "prepare"}, Goto(p, step), UNCHANGED left
            PROVE  Moved(p)
        BY <1>0, <1>4, <3>2, GotoFacts DEF Begin, TypeOK, Moved, Return
      <3>3. ASSUME NEW todo \in SUBSET Repo,
                   Visit(p, todo, "try", "idle") \/ Visit(p, todo, "look", "answer")
            PROVE  Moved(p)
        BY <1>0, <1>4, <3>3, VisitFacts DEF Begin
      <3>4. CASE Goto(p, "delete") /\ UNCHANGED <<repo, left>>
        BY <1>0, <1>4, <3>4, GotoFacts DEF Begin
      <3> QED
        BY <1>4, <3>1, <3>2, <3>3, <3>4 DEF Begin
    <2> QED
      BY <1>0, <1>4, <2>1, KeepsTheLocks DEF Begin, TypeOK, InRepo, locks, counts
  <1>5. ASSUME NEW p \in Process, TakeRepo(p) PROVE IInv'
    <2>1. Moved(p) /\ at'[p] \in RepoSection
      BY <1>0, <1>5, GotoFacts DEF TakeRepo, place
    <2>2. TypeOK'
      BY <1>0, <1>5, <2>1 DEF TakeRepo, TypeOK, Moved, Return, place, counts
    <2>3. HoldersAt'
      BY <1>0, <1>5, <2>1 DEF TakeRepo, TypeOK, HoldersAt, InRepo, Moved, place
    <2> QED
      BY <2>2, <2>3 DEF IInv
  <1>6. ASSUME NEW p \in Process, Mutate(p) PROVE IInv'
    <2>1. Moved(p) /\ at'[p] = "store" /\ back'[p] = at[p]
      BY <1>0, <1>6, StoreFacts DEF Mutate, Return
    <2>2. writes' \in [Process -> Nat]
      BY <1>0, <1>6 DEF Mutate, TypeOK
    <2> QED
      BY <1>0, <1>6, <2>1, <2>2, KeepsTheLocks DEF Mutate, TypeOK, InRepo, locks, counts
  <1>7. ASSUME NEW p \in Process, Ensured(p) PROVE IInv'
    <2>1. Moved(p)
      BY <1>0, <1>7, GotoFacts DEF Ensured, TypeOK, DropRepo, Return
    <2> QED
      BY <1>7, <2>1, LetsGoOfTheRepo DEF Ensured
  <1>8. ASSUME NEW p \in Process, Prepared(p) PROVE IInv'
    <2>1. Moved(p)
      BY <1>0, <1>8, GotoFacts DEF Prepared, TypeOK, DropRepo, Return
    <2> QED
      BY <1>8, <2>1, LetsGoOfTheRepo DEF Prepared
  <1>9. ASSUME NEW p \in Process, Try(p) PROVE IInv'
    <2>1. CASE /\ repoLock[repo[p]] = Nobody
               /\ repoLock' = [repoLock EXCEPT ![repo[p]] = p]
               /\ Goto(p, "fetching")
               /\ UNCHANGED <<repo, left>>
      <3>1. Moved(p) /\ at'[p] = "fetching"
        BY <1>0, <1>9, <2>1, GotoFacts DEF Try
      <3>2. TypeOK'
        BY <1>0, <1>9, <2>1, <3>1 DEF Try, TypeOK, Moved, Return, counts
      <3>3. HoldersAt'
        BY <1>0, <1>9, <2>1, <3>1 DEF Try, TypeOK, HoldersAt, InRepo, Moved
      <3> QED
        BY <3>2, <3>3 DEF IInv
    <2>2. CASE Visit(p, left[p], "try", "idle") /\ UNCHANGED repoLock
      <3>1. left[p] \in SUBSET Repo
        BY <1>0 DEF TypeOK
      <3>2. Moved(p)
        BY <1>0, <1>9, <2>2, <3>1, VisitFacts DEF Try
      <3> QED
        BY <1>0, <1>9, <2>2, <3>2, KeepsTheLocks DEF Try, TypeOK, InRepo, locks, counts
    <2> QED
      BY <1>9, <2>1, <2>2 DEF Try
  <1>10. ASSUME NEW p \in Process, Fetched(p) PROVE IInv'
    <2>1. Moved(p)
      BY <1>0, <1>10, GotoFacts, StoreFacts DEF Fetched, TypeOK, DropRepo, Return
    <2> QED
      BY <1>10, <2>1, LetsGoOfTheRepo DEF Fetched
  <1>11. ASSUME NEW p \in Process, Noted(p) PROVE IInv'
    <2>0. left[p] \in SUBSET Repo
      BY <1>0 DEF TypeOK
    <2>1. Moved(p)
      BY <1>0, <1>11, <2>0, VisitFacts DEF Noted, DropRepo
    <2> QED
      BY <1>0, <1>11, <2>1, KeepsTheLocks DEF Noted, TypeOK, InRepo, locks, counts
  <1>12. ASSUME NEW p \in Process, Looked(p) PROVE IInv'
    <2>0. left[p] \in SUBSET Repo
      BY <1>0 DEF TypeOK
    <2>1. Moved(p)
      BY <1>0, <1>12, <2>0, VisitFacts DEF Looked, DropRepo
    <2> QED
      BY <1>0, <1>12, <2>1, LetsGoOfTheRepo DEF Looked
  <1>13. ASSUME NEW p \in Process, Cleared(p) PROVE IInv'
    <2>0. left[p] \in SUBSET Repo
      BY <1>0 DEF TypeOK
    <2>1. Moved(p)
      BY <1>0, <1>13, <2>0, VisitFacts DEF Cleared, DropRepo
    <2> QED
      BY <1>0, <1>13, <2>1, LetsGoOfTheRepo DEF Cleared
  <1>14. ASSUME NEW p \in Process, Reclaimed(p) PROVE IInv'
    <2>0. left[p] \in SUBSET Repo
      BY <1>0 DEF TypeOK
    <2>1. Moved(p)
      BY <1>0, <1>14, <2>0, VisitFacts DEF Reclaimed, DropRepo
    <2> QED
      BY <1>0, <1>14, <2>1, LetsGoOfTheRepo DEF Reclaimed
  <1>15. ASSUME NEW p \in Process, Answer(p) PROVE IInv'
    <2>1. Moved(p) 
      BY <1>0, <1>15, GotoFacts, VisitFacts DEF Answer
    <2> QED
      BY <1>0, <1>15, <2>1, KeepsTheLocks DEF Answer, TypeOK, InRepo, locks, counts
  <1>16. ASSUME NEW p \in Process, Unlink(p) PROVE IInv'
    <2>1. Moved(p) /\ at'[p] = "unlinking"
      BY <1>0, <1>16, GotoFacts DEF Unlink, place
    <2>2. TypeOK'
      BY <1>0, <1>16, <2>1 DEF Unlink, TypeOK, Moved, Return, place, counts
    <2>3. HoldersAt'
      BY <1>0, <1>16, <2>1 DEF Unlink, TypeOK, HoldersAt, InRepo, Moved, place
    <2> QED
      BY <2>2, <2>3 DEF IInv
  <1>17. ASSUME NEW p \in Process, Swept(p) PROVE IInv'
    <2>1. Moved(p)
      BY <1>0, <1>17, VisitFacts DEF Swept
    <2> QED
      BY <1>17, <2>1, LetsGoOfTheLaunch DEF Swept
  <1>18. ASSUME NEW p \in Process, Forget(p) PROVE IInv'
    <2>1. Moved(p)
      BY <1>0, <1>18, GotoFacts, StoreFacts DEF Forget, Return
    <2>2. writes' \in [Process -> Nat]
      BY <1>0, <1>18 DEF Forget, TypeOK
    <2> QED
      BY <1>0, <1>18, <2>1, <2>2, KeepsTheLocks DEF Forget, TypeOK, InRepo, locks, counts
  <1>19. ASSUME NEW p \in Process, Serialize(p) PROVE IInv'
    <2>1. Moved(p) /\ at'[p] = "recheck"
      BY <1>0, <1>19, GotoFacts DEF Serialize, place
    <2>2. TypeOK'
      BY <1>0, <1>19, <2>1 DEF Serialize, TypeOK, Moved, Return, place, counts
    <2>3. HoldersAt'
      BY <1>0, <1>19, <2>1 DEF Serialize, TypeOK, HoldersAt, InRepo, Moved, place
    <2> QED
      BY <2>2, <2>3 DEF IInv
  <1>20. ASSUME NEW p \in Process, Recheck(p) PROVE IInv'
    <2>1. Moved(p) /\ at'[p] \in LaunchSection
      BY <1>0, <1>20, GotoFacts DEF Recheck, place
    <2> QED
      BY <1>0, <1>20, <2>1, KeepsTheLocks DEF Recheck, TypeOK, InRepo, locks, place, counts
  <1>21. ASSUME NEW p \in Process, Up(p) PROVE IInv'
    <2>1. Moved(p) /\ at'[p] = "upping"
      BY <1>0, <1>21, GotoFacts DEF Up, place
    <2>2. TypeOK'
      BY <1>0, <1>21, <2>1 DEF Up, TypeOK, Moved, Return, place, counts
    <2>3. HoldersAt'
      BY <1>0, <1>21, <2>1 DEF Up, TypeOK, HoldersAt, InRepo, Moved, place
    <2> QED
      BY <2>2, <2>3 DEF IInv
  <1>22. ASSUME NEW p \in Process, Release(p) PROVE IInv'
    <2>1. /\ flock' \in [Workspace -> Process \cup {Nobody, Orphan, Foreign}]
          /\ \A q \in Process, w \in Workspace : flock'[w] = q => flock[w] = q
      BY <1>0, <1>22 DEF Release, TypeOK
    <2>2. TypeOK'
      BY <1>0, <1>22, <2>1 DEF Release, TypeOK, counts
    <2>3. HoldersAt'
      BY <1>0, <1>22, <2>1 DEF Release, HoldersAt, InRepo
    <2> QED
      BY <2>2, <2>3 DEF IInv
  <1>23. ASSUME NEW p \in Process, UpEnds(p) PROVE IInv'
    <2>1. Moved(p) /\ at'[p] = "lending"
      BY <1>0, <1>23, GotoFacts DEF UpEnds, place
    <2>2. TypeOK'
      BY <1>0, <1>23, <2>1 DEF UpEnds, TypeOK, Moved, Return, place, counts
    <2>3. HoldersAt'
      BY <1>0, <1>23, <2>1 DEF UpEnds, TypeOK, HoldersAt, InRepo, Moved, place
    <2> QED
      BY <2>2, <2>3 DEF IInv
  <1>24. ASSUME NEW p \in Process, Lent(p) PROVE IInv'
    <2>1. Moved(p)
      BY <1>0, <1>24, GotoFacts DEF Lent, place
    <2> QED
      BY <1>24, <2>1, LetsGoOfTheLaunch DEF Lent, place
  <1>25. ASSUME NEW p \in Process, Delete(p) PROVE IInv'
    <2>1. Moved(p) /\ at'[p] = "deleting"
      BY <1>0, <1>25, GotoFacts DEF Delete, place
    <2>2. TypeOK'
      BY <1>0, <1>25, <2>1 DEF Delete, TypeOK, Moved, Return, place, counts
    <2>3. HoldersAt'
      BY <1>0, <1>25, <2>1 DEF Delete, TypeOK, HoldersAt, InRepo, Moved, place
    <2> QED
      BY <2>2, <2>3 DEF IInv
  <1>26. ASSUME NEW p \in Process, GiveUp(p) PROVE IInv'
    <2>1. Moved(p)
      BY <1>0, <1>26, GotoFacts DEF GiveUp, place
    <2> QED
      BY <1>0, <1>26, <2>1, KeepsTheLocks DEF GiveUp, TypeOK, InRepo, locks, place, counts
  <1>27. ASSUME NEW p \in Process, Deleted(p) PROVE IInv'
    <2>1. Moved(p)
      BY <1>0, <1>27, GotoFacts, StoreFacts DEF Deleted, Return
    <2>2. TypeOK'
      BY <1>0, <1>27, <2>1 DEF Deleted, TypeOK, Moved, Return, place, counts
    <2>3. HoldersAt'
      BY <1>0, <1>27, <2>1 DEF Deleted, TypeOK, HoldersAt, InRepo, Moved, place
    <2> QED
      BY <2>2, <2>3 DEF IInv
  <1>28. ASSUME NEW p \in Process, Start(p) PROVE IInv'
    <2>1. Moved(p) /\ at'[p] = "open"
      BY <1>0, <1>28, GotoFacts DEF Start
    <2>2. ws' \in [Process -> Workspace] /\ \A q \in Process \ {p} : ws'[q] = ws[q]
      BY <1>0, <1>28 DEF Start, TypeOK
    <2>3. TypeOK'
      BY <1>0, <1>28, <2>1, <2>2, JobsAssumption DEF Start, TypeOK, Moved, Return, locks
    <2>4. HoldersAt'
      BY <1>0, <1>28, <2>1, <2>2 DEF Start, HoldersAt, InRepo, Moved, locks
    <2> QED
      BY <2>3, <2>4 DEF IInv
  <1>29. ASSUME NEW p \in Process, Crash(p) PROVE IInv'
    <2>1. Moved(p) /\ at'[p] = "idle"
      BY <1>0, <1>29, GotoFacts DEF Crash
    <2>2. /\ metaLock' \in Process \cup {Nobody}
          /\ metaLock' # p /\ \A q \in Process : metaLock' = q => metaLock = q
      BY <1>0, <1>29 DEF Crash, TypeOK
    <2>3. /\ repoLock' \in [Repo -> Process \cup {Nobody}]
          /\ \A r \in Repo : repoLock'[r] # p
          /\ \A q \in Process, r \in Repo : repoLock'[r] = q => repoLock[r] = q
      BY <1>0, <1>29 DEF Crash, TypeOK
    <2>4. /\ launchLock' \in [Workspace -> Process \cup {Nobody}]
          /\ \A w \in Workspace : launchLock'[w] # p
          /\ \A q \in Process, w \in Workspace : launchLock'[w] = q => launchLock[w] = q
      BY <1>0, <1>29 DEF Crash, TypeOK
    <2>5. /\ flock' \in [Workspace -> Process \cup {Nobody, Orphan, Foreign}]
          /\ \A w \in Workspace : flock'[w] # p
          /\ \A q \in Process, w \in Workspace : flock'[w] = q => flock[w] = q
      BY <1>0, <1>29 DEF Crash, TypeOK
    <2>6. /\ writes' \in [Process -> Nat] /\ crashes' \in Nat
          /\ UNCHANGED <<job, ws, swept, runs, foreigns>>
      BY <1>0, <1>29 DEF Crash, TypeOK
    <2>7. TypeOK'
      BY <1>0, <2>1, <2>2, <2>3, <2>4, <2>5, <2>6 DEF TypeOK, Moved, Return
    <2>8. HoldersAt'
      BY <1>0, <1>29, <2>1, <2>2, <2>3, <2>4, <2>5 DEF Crash, HoldersAt, InRepo, Moved
    <2> QED
      BY <2>7, <2>8 DEF IInv
  <1>30. ASSUME NEW w \in Workspace, ForeignTakes(w) PROVE IInv'
    <2>1. TypeOK'
      BY <1>0, <1>30 DEF ForeignTakes, TypeOK, place, counts
    <2>2. HoldersAt'
      BY <1>0, <1>30 DEF ForeignTakes, TypeOK, HoldersAt, InRepo, place
    <2> QED
      BY <2>1, <2>2 DEF IInv
  <1>31. ASSUME NEW w \in Workspace, ForeignEnds(w) PROVE IInv'
    <2>1. TypeOK'
      BY <1>0, <1>31 DEF ForeignEnds, TypeOK, place, counts
    <2>2. HoldersAt'
      BY <1>0, <1>31 DEF ForeignEnds, TypeOK, HoldersAt, InRepo, place
    <2> QED
      BY <2>1, <2>2 DEF IInv
  <1>32. ASSUME NEW w \in Workspace, ForeignOrphaned(w) PROVE IInv'
    <2>1. TypeOK'
      BY <1>0, <1>32 DEF ForeignOrphaned, TypeOK, place, counts
    <2>2. HoldersAt'
      BY <1>0, <1>32 DEF ForeignOrphaned, TypeOK, HoldersAt, InRepo, place
    <2> QED
      BY <2>1, <2>2 DEF IInv
  <1>33. ASSUME NEW w \in Workspace, OrphanEnds(w) PROVE IInv'
    <2>1. TypeOK'
      BY <1>0, <1>33 DEF OrphanEnds, TypeOK, place, counts
    <2>2. HoldersAt'
      BY <1>0, <1>33 DEF OrphanEnds, TypeOK, HoldersAt, InRepo, place
    <2> QED
      BY <2>1, <2>2 DEF IInv
  <1>34. ASSUME NEW p \in Process, Unserialized(p) PROVE IInv'
    <2>1. Moved(p)
      BY <1>0, <1>34, GotoFacts DEF Unserialized, place
    <2> QED
      BY <1>0, <1>34, <2>1, KeepsTheLocks
      DEF Unserialized, TypeOK, InRepo, locks, place, counts
  <1>35. CASE UNCHANGED vars
    <2>1. TypeOK'
      BY <1>0, <1>35 DEF TypeOK, vars, locks, place, counts
    <2>2. HoldersAt'
      BY <1>0, <1>35 DEF HoldersAt, InRepo, vars, locks, place
    <2> QED
      BY <2>1, <2>2 DEF IInv
  <1> QED
    BY <1>1, <1>2, <1>3, <1>4, <1>5, <1>6, <1>7, <1>8, <1>9, <1>10, <1>11,
       <1>12, <1>13, <1>14, <1>15, <1>16, <1>17, <1>18, <1>19, <1>20, <1>21,
       <1>22, <1>23, <1>24, <1>25, <1>26, <1>27, <1>28, <1>29, <1>30, <1>31,
       <1>32, <1>33, <1>34, <1>35
       DEF Next, Goes

-----------------------------------------------------------------------------
\* A process that is waited for and waits itself waits for a lock further in.
LEMMA Inward ==
    ASSUME IInv, NEW p \in Process, NEW q \in Process, NEW r \in Process,
           BlockedBy(p, q), BlockedBy(q, r)
    PROVE  \/ at[p] \in DOMAIN Inside /\ at[q] = "store" /\ at[r] = "storing"
           \/ at[p] = "serialize" /\ at[q] = "up" /\ at[r] \in {"upping", "deleting"}
  BY DEF IInv, TypeOK, HoldersAt, InRepo, BlockedBy

LEMMA NoCircle == IInv => NoCircularWait
  <1> SUFFICES ASSUME IInv, NEW S \in SUBSET Process, S # {},
                      \A p \in S : \E q \in S : BlockedBy(p, q)
               PROVE  FALSE
    BY DEF NoCircularWait
  <1>1. PICK p \in S : TRUE
    OBVIOUS
  <1>2. PICK q \in S : BlockedBy(p, q)
    BY <1>1
  <1>3. PICK r \in S : BlockedBy(q, r)
    BY <1>2
  <1>4. PICK s \in S : BlockedBy(r, s)
    BY <1>3
  <1>5. at[r] \in {"storing", "upping", "deleting"}
    BY <1>2, <1>3, Inward
  <1> QED
    BY <1>4, <1>5 DEF BlockedBy

LEMMA OnlyTheirOwn == IInv => BuildsHoldUpOnlyTheirOwn
  BY DEF IInv, TypeOK, HoldersAt, InRepo, BlockedBy, BuildsHoldUpOnlyTheirOwn

-----------------------------------------------------------------------------
LEMMA Invariance == Spec => []IInv
  BY Initially, Inductive, PTL DEF Spec

\* Every lock is held by a process, by nobody, or, devpod's own, by a devpod
\* outside dl: the types of the model hold for any number of commands.
THEOREM TypeCorrect == Spec => []TypeOK
  <1>1. IInv => TypeOK
    BY DEF IInv
  <1> QED
    BY <1>1, Invariance, PTL

\* No set of dl commands, however many and over however many repositories and
\* workspaces, waits only for its own members (domain/locks.rs, lock ordering).
THEOREM DeadlockFree == Spec => []NoCircularWait
  BY NoCircle, Invariance, PTL

\* Who waits behind a running devpod, or behind a command waiting for its turn,
\* is a command of the same workspace at a lock of that workspace.
THEOREM BuildsAreLocal == Spec => []BuildsHoldUpOnlyTheirOwn
  BY OnlyTheirOwn, Invariance, PTL
=============================================================================
