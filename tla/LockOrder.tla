------------------------------ MODULE LockOrder ------------------------------
(***************************************************************************)
(* The commands of dl as the locks see them: which lock each takes, what   *)
(* it already holds when it does, and what it does while it holds it.      *)
(*                                                                         *)
(*   metadata lock   one, held over a mutation of metadata.json            *)
(*   repo lock       one per repository, over its bare clone               *)
(*   launch lock     one per workspace, over re-check, `up` and tools      *)
(*   devpod's flock  one per workspace, taken by the devpod a command runs *)
(*                                                                         *)
(* domain/locks.rs states the rule: the metadata lock may be taken while a *)
(* repo lock is held and never the reverse, the launch lock is only ever   *)
(* outermost, and none is taken while the same one is held.  The module    *)
(* states none of it: it has the scopes the code has, and the properties   *)
(* say what the rule is for.  Each lock is the atomic lock of LockSpec,    *)
(* which FileLock implements.                                              *)
(***************************************************************************)
EXTENDS Naturals

CONSTANTS
    Process,      \* the dl processes
    Repo,         \* the repositories of the cache
    Workspace,    \* the workspaces
    Jobs,         \* the commands that are run
    Nobody,       \* the holder of a free lock
    Orphan,       \* a devpod whose dl died
    Foreign,      \* a devpod dl did not run
    MaxRuns,      \* commands one process runs
    MaxWrites,    \* metadata mutations in one scope
    MaxForeign,   \* turns of devpods dl did not run
    MaxCrashes    \* commands killed

Job == {"launch", "update", "prune", "remove", "kill", "stop"}

ASSUME JobsAssumption    == Jobs \subseteq Job
ASSUME HoldersAssumption ==
    /\ {Nobody, Orphan, Foreign} \cap Process = {}
    /\ Nobody # Orphan /\ Nobody # Foreign /\ Orphan # Foreign
ASSUME PlacesAssumption  == Repo # {} /\ Workspace # {}
ASSUME BoundsAssumption  ==
    /\ MaxRuns \in Nat /\ MaxWrites \in Nat
    /\ MaxForeign \in Nat /\ MaxCrashes \in Nat

VARIABLES
    metaLock, repoLock, launchLock, flock,   \* who holds each lock
    at,           \* the step each process is at
    job, repo, ws,\* its command, and the repository and workspace it is at
    left,         \* the repositories its loop has not come to
    back,         \* the step a metadata mutation returns to
    writes,       \* mutations made in this scope
    swept,        \* whether this launch made its one release sweep
    runs, foreigns, crashes

locks  == <<metaLock, repoLock, launchLock, flock>>
place  == <<job, repo, ws, left, back, writes, swept>>
counts == <<runs, foreigns, crashes>>
vars   == <<locks, at, place, counts>>

\* The steps that wait for a repo lock, and the step inside it each leads to.
Inside == [ensure |-> "ensuring", prepare |-> "preparing", look |-> "looking",
           clear |-> "clearing", reclaim |-> "reclaiming"]
RepoSection   == {"ensuring", "preparing", "looking", "clearing",
                  "reclaiming", "fetching"}
LaunchSection == {"recheck", "up", "upping", "lending", "unlinking"}
Between == {"idle", "open", "opened", "try", "noted", "answer", "locks",
            "forget", "serialize", "delete", "deleting"}
Step == DOMAIN Inside \cup RepoSection \cup LaunchSection \cup Between
            \cup {"store", "storing"}

TypeOK ==
    /\ metaLock   \in Process \cup {Nobody}
    /\ repoLock   \in [Repo -> Process \cup {Nobody}]
    /\ launchLock \in [Workspace -> Process \cup {Nobody}]
    /\ flock      \in [Workspace -> Process \cup {Nobody, Orphan, Foreign}]
    /\ at     \in [Process -> Step]
    /\ job    \in [Process -> Job]
    /\ repo   \in [Process -> Repo]
    /\ ws     \in [Process -> Workspace]
    /\ left   \in [Process -> SUBSET Repo]
    /\ back   \in [Process -> RepoSection \cup {"idle", "opened", "noted", "forget"}]
    /\ writes \in [Process -> Nat]
    /\ swept  \in [Process -> BOOLEAN]
    /\ runs   \in [Process -> Nat] /\ foreigns \in Nat /\ crashes \in Nat

Init ==
    /\ metaLock = Nobody
    /\ repoLock   = [r \in Repo |-> Nobody]
    /\ launchLock = [w \in Workspace |-> Nobody]
    /\ flock      = [w \in Workspace |-> Nobody]
    /\ at   = [p \in Process |-> "idle"]
    /\ job  \in [Process -> {CHOOSE j \in Job : TRUE}]
    /\ repo \in [Process -> {CHOOSE r \in Repo : TRUE}]
    /\ ws   \in [Process -> {CHOOSE w \in Workspace : TRUE}]
    /\ left   = [p \in Process |-> {}]
    /\ back   = [p \in Process |-> "idle"]
    /\ writes = [p \in Process |-> 0]
    /\ swept  = [p \in Process |-> FALSE]
    /\ runs = [p \in Process |-> 0] /\ foreigns = 0 /\ crashes = 0

Goto(p, step) == at' = [at EXCEPT ![p] = step]

-----------------------------------------------------------------------------
(***************************************************************************)
(* A metadata mutation is a scope of its own, entered from the step that   *)
(* makes it and returning there: the lock, the reload, the change and the  *)
(* save.  commit_migration is the same shape.                              *)
(***************************************************************************)
Store(p, after) ==
    /\ Goto(p, "store")
    /\ back' = [back EXCEPT ![p] = after]

TakeMeta(p) ==
    /\ at[p] = "store" /\ metaLock = Nobody
    /\ metaLock' = p
    /\ Goto(p, "storing")
    /\ UNCHANGED <<repoLock, launchLock, flock, place, counts>>

\* Mutant: the migration's lock kept for the rest of the command.
DropMetaLate(p) ==
    /\ at[p] = "storing"
    /\ metaLock' = IF back[p] = "opened" THEN p ELSE Nobody
    /\ Goto(p, back[p])
    /\ UNCHANGED <<repoLock, launchLock, flock, place, counts>>

DropMeta(p) ==
    /\ at[p] = "storing"
    /\ metaLock' = Nobody
    /\ Goto(p, back[p])
    /\ UNCHANGED <<repoLock, launchLock, flock, place, counts>>

\* The repository a loop comes to next, or the step after the loop.
Visit(p, todo, wait, done) ==
    \/ /\ todo = {}
       /\ Goto(p, done)
       /\ left' = [left EXCEPT ![p] = {}]
       /\ UNCHANGED repo
    \/ \E r \in todo :
          /\ Goto(p, wait)
          /\ repo' = [repo EXCEPT ![p] = r]
          /\ left' = [left EXCEPT ![p] = todo \ {r}]

-----------------------------------------------------------------------------
(***************************************************************************)
(* A command opens the store, migrating it when its version is old, and    *)
(* goes to its own first step.                                             *)
(***************************************************************************)
Start(p) ==
    /\ at[p] = "idle" /\ runs[p] < MaxRuns
    /\ \E j \in Jobs, w \in Workspace :
          /\ job' = [job EXCEPT ![p] = j]
          /\ ws'  = [ws EXCEPT ![p] = w]
    /\ Goto(p, "open")
    /\ swept' = [swept EXCEPT ![p] = FALSE]
    /\ runs'  = [runs EXCEPT ![p] = @ + 1]
    /\ UNCHANGED <<locks, repo, left, back, writes, foreigns, crashes>>

Open(p) ==
    /\ at[p] = "open"
    /\ \/ Store(p, "opened")
       \/ Goto(p, "opened") /\ UNCHANGED back
    /\ UNCHANGED <<locks, job, repo, ws, left, writes, swept, counts>>

\* A launch by a bare spec clones first and names the branch after; one by a
\* full spec prepares at once; one by a workspace's id has nothing to prepare.
Begin(p) ==
    /\ at[p] = "opened"
    /\ \/ job[p] = "launch" /\ Goto(p, "serialize") /\ UNCHANGED <<repo, left>>
       \/ /\ job[p] = "launch"
          /\ \E r \in Repo : repo' = [repo EXCEPT ![p] = r]
          /\ \E step \in {"ensure", "prepare"} : Goto(p, step)
          /\ UNCHANGED left
       \/ job[p] = "update" /\ \E todo \in SUBSET Repo : Visit(p, todo, "try", "idle")
       \/ job[p] = "prune"  /\ \E todo \in SUBSET Repo : Visit(p, todo, "look", "answer")
       \/ /\ job[p] \in {"remove", "kill", "stop"}
          /\ Goto(p, "delete")
          /\ UNCHANGED <<repo, left>>
    /\ UNCHANGED <<locks, job, ws, back, writes, swept, counts>>

-----------------------------------------------------------------------------
TakeRepo(p) ==
    /\ at[p] \in DOMAIN Inside
    /\ repoLock[repo[p]] = Nobody
    /\ repoLock' = [repoLock EXCEPT ![repo[p]] = p]
    /\ Goto(p, Inside[at[p]])
    /\ UNCHANGED <<metaLock, launchLock, flock, place, counts>>

\* clone_if_missing records the repository, prepare_workspace the clone and
\* fetch_repo its time, each under the repo lock.
Mutate(p) ==
    /\ at[p] \in {"ensuring", "preparing", "fetching"}
    /\ writes[p] < MaxWrites
    /\ Store(p, at[p])
    /\ writes' = [writes EXCEPT ![p] = @ + 1]
    /\ UNCHANGED <<locks, job, repo, ws, left, swept, counts>>

DropRepo(p) ==
    /\ repoLock' = [repoLock EXCEPT ![repo[p]] = Nobody]
    /\ writes'   = [writes EXCEPT ![p] = 0]
    /\ UNCHANGED <<metaLock, launchLock, flock, job, ws, swept, counts>>

\* Between ensure_repo and prepare_cold the fast attach may end the launch.
Ensured(p) ==
    /\ at[p] = "ensuring"
    /\ \E step \in {"prepare", "idle"} : Goto(p, step)
    /\ DropRepo(p)
    /\ UNCHANGED <<repo, left, back>>

\* Mutant: the repo lock kept over the launch that was prepared under it.
PreparedHolding(p) ==
    /\ at[p] = "preparing"
    /\ Goto(p, "serialize")
    /\ UNCHANGED <<locks, place, counts>>

Prepared(p) ==
    /\ at[p] = "preparing"
    /\ \E step \in {"serialize", "idle"} : Goto(p, step)
    /\ DropRepo(p)
    /\ UNCHANGED <<repo, left, back>>

\* The sweep's fetch: only where the lock is free this moment.
Try(p) ==
    /\ at[p] = "try"
    /\ \/ /\ repoLock[repo[p]] = Nobody
          /\ repoLock' = [repoLock EXCEPT ![repo[p]] = p]
          /\ Goto(p, "fetching")
          /\ UNCHANGED <<repo, left>>
       \/ /\ repoLock[repo[p]] # Nobody
          /\ Visit(p, left[p], "try", "idle")
          /\ UNCHANGED repoLock
    /\ UNCHANGED <<metaLock, launchLock, flock, job, ws, back, writes, swept, counts>>

\* What the pass leaves in the record is written outside the repo lock.
Fetched(p) ==
    /\ at[p] = "fetching"
    /\ \/ Store(p, "noted")
       \/ Goto(p, "noted") /\ UNCHANGED back
    /\ DropRepo(p)
    /\ UNCHANGED <<repo, left>>

Noted(p) ==
    /\ at[p] = "noted"
    /\ Visit(p, left[p], "try", "idle")
    /\ UNCHANGED <<locks, job, ws, back, writes, swept, counts>>

-----------------------------------------------------------------------------
(***************************************************************************)
(* Prune: the plan looks at one repository at a time; after the answer the *)
(* clones go, one repository at a time; the launch locks are swept outside *)
(* any of them; the worktrees take each lock again; the records are last.  *)
(***************************************************************************)
Looked(p) ==
    /\ at[p] = "looking"
    /\ Visit(p, left[p], "look", "answer")
    /\ DropRepo(p)
    /\ UNCHANGED back

Answer(p) ==
    /\ at[p] = "answer"
    /\ \/ Goto(p, "idle") /\ UNCHANGED <<repo, left>>
       \/ \E todo \in SUBSET Repo : Visit(p, todo, "clear", "locks")
    /\ UNCHANGED <<locks, job, ws, back, writes, swept, counts>>

Cleared(p) ==
    /\ at[p] = "clearing"
    /\ Visit(p, left[p], "clear", "locks")
    /\ DropRepo(p)
    /\ UNCHANGED back

\* reclaim: it holds the lock it unlinks, and never queues for it.
Unlink(p) ==
    /\ at[p] = "locks"
    /\ launchLock[ws[p]] = Nobody
    /\ launchLock' = [launchLock EXCEPT ![ws[p]] = p]
    /\ Goto(p, "unlinking")
    /\ UNCHANGED <<metaLock, repoLock, flock, place, counts>>

Swept(p) ==
    /\ at[p] \in {"locks", "unlinking"}
    /\ launchLock' = [w \in Workspace |->
                         IF launchLock[w] = p THEN Nobody ELSE launchLock[w]]
    /\ \E todo \in SUBSET Repo : Visit(p, todo, "reclaim", "forget")
    /\ UNCHANGED <<metaLock, repoLock, flock, job, ws, back, writes, swept, counts>>

Reclaimed(p) ==
    /\ at[p] = "reclaiming"
    /\ Visit(p, left[p], "reclaim", "forget")
    /\ DropRepo(p)
    /\ UNCHANGED back

Forget(p) ==
    /\ at[p] = "forget"
    /\ \/ /\ writes[p] < MaxWrites
          /\ Store(p, "forget")
          /\ writes' = [writes EXCEPT ![p] = @ + 1]
       \/ /\ Goto(p, "idle")
          /\ writes' = [writes EXCEPT ![p] = 0]
          /\ UNCHANGED back
    /\ UNCHANGED <<locks, job, repo, ws, left, swept, counts>>

-----------------------------------------------------------------------------
(***************************************************************************)
(* The launch lock is held from serialize_launch to the end of the tools,  *)
(* and a launch waits for it for as long as a sibling holds it.            *)
(***************************************************************************)
Serialize(p) ==
    /\ at[p] = "serialize" /\ launchLock[ws[p]] = Nobody
    /\ launchLock' = [launchLock EXCEPT ![ws[p]] = p]
    /\ Goto(p, "recheck")
    /\ UNCHANGED <<metaLock, repoLock, flock, place, counts>>

\* A launch with nothing to name the lock by, or whose lock file cannot be had,
\* goes on without it and is not refused.
Unserialized(p) ==
    /\ at[p] = "serialize"
    /\ Goto(p, "up")
    /\ UNCHANGED <<locks, place, counts>>

\* A sibling brought it up meanwhile: only the tools are left to lend.
Recheck(p) ==
    /\ at[p] = "recheck"
    /\ \E step \in {"up", "lending"} : Goto(p, step)
    /\ UNCHANGED <<locks, place, counts>>

Up(p) ==
    /\ at[p] = "up" /\ flock[ws[p]] = Nobody
    /\ flock' = [flock EXCEPT ![ws[p]] = p]
    /\ Goto(p, "upping")
    /\ UNCHANGED <<metaLock, repoLock, launchLock, place, counts>>

\* A launch blocked by a devpod nobody attends stops it, once; unless that sits
\* through every signal, or the host cannot be asked who holds the lock.
Release(p) ==
    /\ at[p] = "up" /\ ~swept[p] /\ flock[ws[p]] = Orphan
    /\ \E rest \in {Nobody, Orphan} : flock' = [flock EXCEPT ![ws[p]] = rest]
    /\ swept' = [swept EXCEPT ![p] = TRUE]
    /\ UNCHANGED <<metaLock, repoLock, launchLock, at, job, repo, ws, left,
                   back, writes, counts>>

UpEnds(p) ==
    /\ at[p] = "upping"
    /\ flock' = [flock EXCEPT ![ws[p]] = Nobody]
    /\ Goto(p, "lending")
    /\ UNCHANGED <<metaLock, repoLock, launchLock, place, counts>>

\* Mutant: the guard is kept over the session that follows.
LentHolding(p) ==
    /\ at[p] = "lending"
    /\ Goto(p, "idle")
    /\ UNCHANGED <<locks, place, counts>>

Lent(p) ==
    /\ at[p] = "lending"
    /\ launchLock' = [w \in Workspace |->
                         IF launchLock[w] = p THEN Nobody ELSE launchLock[w]]
    /\ Goto(p, "idle")
    /\ UNCHANGED <<metaLock, repoLock, flock, place, counts>>

-----------------------------------------------------------------------------
\* `rm`, `kill` and `stop` take neither dl's repo lock nor the launch lock.
Delete(p) ==
    /\ at[p] = "delete" /\ flock[ws[p]] = Nobody
    /\ flock' = [flock EXCEPT ![ws[p]] = p]
    /\ Goto(p, "deleting")
    /\ UNCHANGED <<metaLock, repoLock, launchLock, place, counts>>

\* Only the delete of a wedged workspace has a limit (WEDGED_DELETE).
GiveUp(p) ==
    /\ at[p] = "delete" /\ job[p] = "kill" /\ flock[ws[p]] # Nobody
    /\ Goto(p, "idle")
    /\ UNCHANGED <<locks, place, counts>>

Deleted(p) ==
    /\ at[p] = "deleting"
    /\ flock' = [flock EXCEPT ![ws[p]] = Nobody]
    /\ \/ job[p] # "stop" /\ Store(p, "idle")
       \/ Goto(p, "idle") /\ UNCHANGED back
    /\ UNCHANGED <<metaLock, repoLock, launchLock, job, repo, ws, left, writes,
                   swept, counts>>

-----------------------------------------------------------------------------
\* A dl that dies lets go of its locks; the devpod it ran may live on.
Crash(p) ==
    /\ at[p] # "idle" /\ crashes < MaxCrashes
    /\ metaLock'   = IF metaLock = p THEN Nobody ELSE metaLock
    /\ repoLock'   = [r \in Repo |-> IF repoLock[r] = p THEN Nobody ELSE repoLock[r]]
    /\ launchLock' = [w \in Workspace |->
                         IF launchLock[w] = p THEN Nobody ELSE launchLock[w]]
    /\ \E rest \in {Orphan, Nobody} :
          flock' = [w \in Workspace |-> IF flock[w] = p THEN rest ELSE flock[w]]
    /\ Goto(p, "idle")
    /\ writes'  = [writes EXCEPT ![p] = 0]
    /\ crashes' = crashes + 1
    /\ UNCHANGED <<job, repo, ws, left, back, swept, runs, foreigns>>

\* VS Code's devpod, a hand-typed one, or the queued child of a dl that died.
ForeignTakes(w) ==
    /\ flock[w] = Nobody /\ foreigns < MaxForeign
    /\ flock'    = [flock EXCEPT ![w] = Foreign]
    /\ foreigns' = foreigns + 1
    /\ UNCHANGED <<metaLock, repoLock, launchLock, at, place, runs, crashes>>

ForeignEnds(w) ==
    /\ flock[w] = Foreign
    /\ flock' = [flock EXCEPT ![w] = Nobody]
    /\ UNCHANGED <<metaLock, repoLock, launchLock, at, place, counts>>

\* What attended it is gone, and init has it now.
ForeignOrphaned(w) ==
    /\ flock[w] = Foreign
    /\ flock' = [flock EXCEPT ![w] = Orphan]
    /\ UNCHANGED <<metaLock, repoLock, launchLock, at, place, counts>>

OrphanEnds(w) ==
    /\ flock[w] = Orphan
    /\ flock' = [flock EXCEPT ![w] = Nobody]
    /\ UNCHANGED <<metaLock, repoLock, launchLock, at, place, counts>>

-----------------------------------------------------------------------------
\* What the process does by itself, its children's ends included; the answer
\* to prune's question is the user's.
Goes(p) ==
    \/ TakeMeta(p) \/ DropMeta(p) \/ Open(p) \/ Begin(p)
    \/ TakeRepo(p) \/ Mutate(p) \/ Ensured(p) \/ Prepared(p)
    \/ Try(p) \/ Fetched(p) \/ Noted(p)
    \/ Looked(p) \/ Cleared(p) \/ Unlink(p) \/ Swept(p) \/ Reclaimed(p) \/ Forget(p)
    \/ Serialize(p) \/ Recheck(p) \/ Up(p) \/ Release(p) \/ UpEnds(p) \/ Lent(p)
    \/ Delete(p) \/ GiveUp(p) \/ Deleted(p)

Next ==
    \/ \E p \in Process :
          Goes(p) \/ Unserialized(p) \/ Start(p) \/ Answer(p) \/ Crash(p)
    \/ \E w \in Workspace : \/ ForeignTakes(w) \/ ForeignEnds(w)
                            \/ ForeignOrphaned(w) \/ OrphanEnds(w)

Spec == Init /\ [][Next]_vars

\* A running dl is scheduled and a devpod that is attended ends.  An orphan owes
\* nobody anything, and nobody promises that a lock file cannot be had.
FairSpec ==
    /\ Spec
    /\ \A p \in Process : WF_vars(Goes(p))
    /\ \A w \in Workspace : WF_vars(ForeignEnds(w))

-----------------------------------------------------------------------------
\* p is stopped until q lets go of the lock p wants.
BlockedBy(p, q) ==
    \/ at[p] = "store"           /\ metaLock = q
    \/ at[p] \in DOMAIN Inside   /\ repoLock[repo[p]] = q
    \/ at[p] = "serialize"       /\ launchLock[ws[p]] = q
    \/ at[p] \in {"up", "delete"} /\ flock[ws[p]] = q

\* No set of processes, one alone included, waits only for its own members:
\* the order of domain/locks.rs is kept at every site, with no lock taken
\* while the same lock is held.
NoCircularWait ==
    \A S \in SUBSET Process :
        S # {} => \E p \in S : \A q \in S : ~BlockedBy(p, q)

\* A devpod may run for minutes.  Whoever is stopped by a process that runs
\* one, or that waits for its turn to, is after the same workspace: no
\* repository and no metadata is held over a build (launch.rs, delete.rs).
BuildsHoldUpOnlyTheirOwn ==
    \A p, q \in Process :
        /\ BlockedBy(p, q)
        /\ at[q] \in {"serialize", "recheck", "up", "upping", "lending",
                      "delete", "deleting"}
        => /\ ws[p] = ws[q]
           /\ at[p] \in {"serialize", "up", "delete"}

\* Waiting, perhaps for good, behind a devpod nobody attends: `rm` and `stop`
\* are told of it and wait; a launch has made its one release sweep, or queues
\* for the launch lock that one that has is holding.
BehindAnOrphan(p) ==
    /\ flock[ws[p]] = Orphan
    /\ \/ at[p] = "delete"
       \/ at[p] = "up" /\ swept[p]
       \/ /\ at[p] = "serialize"
          /\ \E q \in Process :
                launchLock[ws[p]] = q /\ at[q] = "up" /\ swept[q]

\* Every command comes to its end, or to the question prune asks, or is left
\* behind an orphaned devpod: no lock of dl keeps a command for good.
EveryCommandEnds ==
    \A p \in Process :
        []<>(at[p] \in {"idle", "answer"}) \/ <>[]BehindAnOrphan(p)
=============================================================================
