------------------------------ MODULE RepoCache -----------------------------
(***************************************************************************)
(* One repository's cache (flows/repo_manager.rs), the workspace clones    *)
(* cut from it (flows/workspace_clone.rs, flows/branch_manager.rs) and the *)
(* three commands that change them beside a launch: the background fetch   *)
(* sweep, `dl --prune` and `dl <ws> rm` (flows/lifecycle/).                *)
(*                                                                         *)
(* A cold launch does everything the host owes a workspace in one scope of *)
(* the repo lock: clone the bare cache if it is missing, fetch the branch, *)
(* cut it if it is new, clone the workspace, point it at the forge, check  *)
(* the branch out, fill in git-lfs content, record it.  Every step may be  *)
(* refused and every step may be the last one of a killed process; the     *)
(* next launch reads what is there and goes on from it.                    *)
(*                                                                         *)
(* The repo lock is the atomic lock of LockSpec.  The metadata store is    *)
(* what the commands see of it: the records on disk, and the copy each     *)
(* process loaded when it started, which only its own writes refresh.  git *)
(* and devpod are external, modelled as these files use them.  A commit is *)
(* a number, later ones larger, and 0 where a branch is not there.         *)
(***************************************************************************)
EXTENDS Naturals, FiniteSets

CONSTANTS
    Process,       \* the dl processes that work on this repository
    Nobody,        \* the holder of a free lock
    Branch,        \* the branches, and so the workspaces that can be asked for
    Ws,            \* the ones launched, pruned and removed here
    Default,       \* the repository's default branch
    Base,          \* the branch --from names
    Verbs,         \* the commands run
    Lfs,           \* whether the repository keeps content in git-lfs
    MaxPushes,     \* commits pushed to the forge
    MaxCommands,   \* commands begun in all
    MaxCrashes     \* processes killed

Verb == {"launch", "from", "ensure", "sweep", "prune", "rm", "kill"}

ASSUME NobodyAssumption == Nobody \notin Process
ASSUME BranchAssumption ==
    Ws \subseteq Branch /\ Ws # {} /\ Default \in Branch /\ Base \in Branch
ASSUME VerbsAssumption  == Verbs \subseteq Verb
ASSUME LfsAssumption    == Lfs \in BOOLEAN
ASSUME BoundsAssumption ==
    MaxPushes \in Nat /\ MaxCommands \in Nat /\ MaxCrashes \in Nat

VARIABLES
    forge,         \* the tip of each branch on the remote
    bare,          \* the cache: not there, a directory without HEAD, a clone
    refs,          \* the tip of each head in the cache
    entry,         \* whether the repository is recorded
    tree,          \* each workspace's clone directory
    noted,         \* the workspaces recorded
    listed,        \* the workspaces devpod lists
    lock,          \* who holds the repo lock
    pc, my,        \* the step each process is at, and what it carries
    commits, commands, crashes

disk   == <<bare, refs, entry, tree, noted>>
counts == <<commits, commands, crashes>>
vars   == <<forge, disk, listed, lock, pc, my, counts>>

Commit == Nat

\* A clone directory: absent, without a .git, with a .git no checkout works in,
\* or a clone.  origin is what it pushes to, out whether its branch is checked
\* out, pointers whether git-lfs content is missing, work what only it holds.
At   == {"none", "husk", "hollow", "git"}
Tree == [at : At, origin : {"none", "cache", "forge"}, tip : Commit,
         out : BOOLEAN, pointers : BOOLEAN, work : BOOLEAN]
Left(at) == [at |-> at, origin |-> "none", tip |-> 0,
             out |-> FALSE, pointers |-> FALSE, work |-> FALSE]

Step == {"idle", "lock", "check", "clone", "record", "fetch", "base", "cut",
         "look", "tree", "repoint", "checkout", "lfs", "note", "up", "try",
         "sweep", "plan", "confirm", "relist", "relock", "remove", "forget",
         "delete", "drop"}

\* The steps taken with the repo lock held.
Section == {"check", "clone", "record", "fetch", "base", "cut", "look", "tree",
            "repoint", "checkout", "lfs", "note", "sweep", "remove"}

Mine == [verb     : Verb, ws : Ws, force : BOOLEAN,
         knows    : BOOLEAN,       \* the repository is in the copy it loaded
         noted    : SUBSET Ws,     \* the workspaces in the copy it loaded
         asked    : Commit,        \* the branch's tip on the forge when asked
         fetched  : BOOLEAN,       \* the fetch of the branch itself succeeded
         base     : Commit,        \* what a fetch of the start point brought
         new      : BOOLEAN,       \* this launch made the clone
         blind    : BOOLEAN,       \* git-lfs would not list its files
         seen     : SUBSET Ws,     \* devpod's listing, as this process read it
         plan     : SUBSET Ws,     \* the clones to remove
         promoted : SUBSET Ws,     \* the ones --force carried past an objection
         objected : SUBSET Ws,     \* history: the ones an objection was reported of
         forget   : SUBSET Ws,     \* the records to drop
         old      : SUBSET Ws]     \* history: those with work when last looked at

Untold == [verb |-> "ensure", ws |-> CHOOSE w \in Ws : TRUE, force |-> FALSE,
           knows |-> FALSE, noted |-> {}, asked |-> 0, fetched |-> FALSE,
           base |-> 0, new |-> FALSE, blind |-> FALSE, seen |-> {},
           plan |-> {}, promoted |-> {}, objected |-> {},
           forget |-> {}, old |-> {}]

Types ==
    /\ forge \in [Branch -> Commit] /\ refs \in [Branch -> Commit]
    /\ bare \in {"none", "noHead", "head"}
    /\ entry \in BOOLEAN
    /\ tree \in [Ws -> Tree]
    /\ noted \subseteq Ws /\ listed \subseteq Ws
    /\ lock \in Process \cup {Nobody}
    /\ pc \in [Process -> Step]
    /\ my \in [Process -> Mine]
    /\ commits \in Nat /\ commands \in Nat /\ crashes \in Nat

\* The repo lock is held by exactly the process that is inside its scope: every
\* way out of the scope drops it, refusals and kills included, and no two
\* processes are inside.
LockHeld == \A p \in Process : lock = p <=> pc[p] \in Section

TypeOK == Types /\ LockHeld

-----------------------------------------------------------------------------
(***************************************************************************)
(* What every command does.                                                *)
(***************************************************************************)

Goto(p, step) == pc' = [pc EXCEPT ![p] = step]

\* Dropping the RepoLock, if this process has it.
Unlock(p) == lock' = IF lock = p THEN Nobody ELSE lock

\* The command is over, however it went: its scope drops the lock.
End(p) ==
    /\ Goto(p, "idle")
    /\ my' = [my EXCEPT ![p] = Untold]
    /\ Unlock(p)

\* clone_verdict: the clone holds work, or git will not answer for what is left
\* of it.  A directory that is not there has nothing to lose.
Stands(w) == tree[w].at \in {"husk", "hollow"} \/ tree[w].work

Working == {w \in Ws : tree[w].work}

\* What a removal that did not get through may leave of a clone: files in no
\* repository, a .git no checkout works in, or a clone whose files are missing,
\* which git reports as changes.
Parts(t) == {Left("husk")}
            \cup (IF t.at # "husk" THEN {Left("hollow")} ELSE {})
            \cup (IF t.at = "git" /\ ~t.work THEN {[t EXCEPT !.work = TRUE]} ELSE {})

\* The command loads its records as they are now.
Ask(p, verb, w, force, step) ==
    /\ pc[p] = "idle" /\ verb \in Verbs /\ commands < MaxCommands
    /\ commands' = commands + 1
    /\ my' = [my EXCEPT ![p] =
                [Untold EXCEPT !.verb = verb, !.ws = w, !.force = force,
                               !.knows = entry, !.noted = noted,
                               !.asked = forge[w], !.old = Working,
                               !.seen = listed]]
    /\ Goto(p, step)
    /\ UNCHANGED <<forge, disk, listed, lock, commits, crashes>>

\* A mutant: the lock is not waited for.
AcquireHeld(p, at, step) ==
    /\ pc[p] = at
    /\ \/ lock' = p /\ Goto(p, step) /\ UNCHANGED my
       \/ End(p)
    /\ UNCHANGED <<forge, disk, listed, counts>>

\* hold_repo_lock: blocks until the lock is free, or cannot open the file.
Acquire(p, at, step) ==
    /\ pc[p] = at
    /\ \/ lock = Nobody /\ lock' = p /\ Goto(p, step) /\ UNCHANGED my
       \/ End(p)
    /\ UNCHANGED <<forge, disk, listed, counts>>

-----------------------------------------------------------------------------
(***************************************************************************)
(* Bringing up the cache: clone_if_missing and clone_repo.                 *)
(***************************************************************************)

\* A launch comes here only for a workspace devpod does not know.
BeginLaunch(p, w) ==
    /\ w \notin listed
    /\ \E verb \in {"launch", "from"} : Ask(p, verb, w, FALSE, "lock")

BeginEnsure(p) == Ask(p, "ensure", Untold.ws, FALSE, "lock")

Launching(p) == my[p].verb \in {"launch", "from"}

\* Where the command goes with a cache that is up: ensure_repo is done.
WithCache(p) == IF Launching(p) THEN Goto(p, "fetch") /\ UNCHANGED <<my, lock>>
                                ELSE End(p)

\* A clone that is known is used; one with a HEAD and no record is adopted; a
\* directory with no HEAD is cleared, if it lets itself be; nothing is cloned.
Check(p) ==
    /\ pc[p] = "check"
    /\ \/ bare = "head" /\ my[p].knows /\ WithCache(p) /\ UNCHANGED bare
       \/ /\ bare = "head" /\ ~my[p].knows
          /\ Goto(p, "record") /\ UNCHANGED <<my, lock, bare>>
       \/ /\ bare # "head"
          /\ bare' = "none" /\ Goto(p, "clone") /\ UNCHANGED <<my, lock>>
       \/ bare = "noHead" /\ End(p) /\ UNCHANGED bare
    /\ UNCHANGED <<forge, refs, entry, tree, noted, listed, counts>>

\* git clone --bare refuses a destination that is there; what is left of a
\* refused clone is removed.
Clone(p) ==
    /\ pc[p] = "clone"
    /\ \/ /\ bare = "none" /\ bare' = "head" /\ refs' = forge
          /\ Goto(p, "record") /\ UNCHANGED <<my, lock>>
       \/ bare' = "none" /\ End(p) /\ UNCHANGED refs
    /\ UNCHANGED <<forge, entry, tree, noted, listed, counts>>

\* add_repository, whose refusal is the call's: NotRecorded.
Record(p) ==
    /\ pc[p] = "record"
    /\ \/ entry' = TRUE /\ WithCache(p)
       \/ End(p) /\ UNCHANGED entry
    /\ UNCHANGED <<forge, bare, refs, tree, noted, listed, counts>>

-----------------------------------------------------------------------------
(***************************************************************************)
(* ensure_branch: one targeted fetch, one more for a branch that is new.   *)
(***************************************************************************)

Absent(b) == refs[b] = 0

\* A mutant: a branch the cache has is not fetched.
FetchMissing(p) ==
    /\ pc[p] = "fetch"
    /\ LET w == my[p].ws IN
          \/ /\ forge[w] # 0 /\ (my[p].verb = "launch" \/ Absent(w))
             /\ refs' = IF Absent(w) THEN [refs EXCEPT ![w] = forge[w]] ELSE refs
             /\ my' = [my EXCEPT ![p].fetched = TRUE]
             /\ Goto(p, "cut") /\ UNCHANGED lock
          \/ forge[w] = 0 /\ Goto(p, "base") /\ UNCHANGED <<my, lock, refs>>
    /\ UNCHANGED <<forge, bare, entry, tree, noted, listed, counts>>

\* fetch_ref of the branch asked for.  --from is refused for a branch that
\* exists: on the remote, or in the cache when the remote cannot be asked.
Fetch(p) ==
    /\ pc[p] = "fetch"
    /\ LET w == my[p].ws
           from == my[p].verb = "from"
       IN \/ /\ forge[w] # 0                                    \* Updated
             /\ refs' = [refs EXCEPT ![w] = forge[w]]
             /\ IF from THEN End(p)
                ELSE /\ my' = [my EXCEPT ![p].fetched = TRUE]
                     /\ Goto(p, "cut") /\ UNCHANGED lock
          \/ /\ forge[w] = 0                                    \* missing there
             /\ Goto(p, "base") /\ UNCHANGED <<my, lock, refs>>
          \/ /\ IF from /\ ~Absent(w) THEN End(p)                \* Failed
                ELSE /\ Goto(p, IF from THEN "base" ELSE "cut")
                     /\ UNCHANGED <<my, lock>>
             /\ UNCHANGED refs
    /\ UNCHANGED <<forge, bare, entry, tree, noted, listed, counts>>

StartPoint(p) == IF my[p].verb = "from" THEN Base ELSE Default

\* fetch_base_branch, whose failures leave a stale base; with --from anything
\* short of Updated is BaseNotResolved.
FetchBase(p) ==
    /\ pc[p] = "base"
    /\ LET b == StartPoint(p) IN
          \/ /\ forge[b] # 0
             /\ refs' = [refs EXCEPT ![b] = forge[b]]
             /\ my' = [my EXCEPT ![p].base = forge[b]]
             /\ Goto(p, "cut") /\ UNCHANGED lock
          \/ /\ IF my[p].verb = "from" THEN End(p)
                ELSE Goto(p, "cut") /\ UNCHANGED <<my, lock>>
             /\ UNCHANGED refs
    /\ UNCHANGED <<forge, bare, entry, tree, noted, listed, counts>>

\* ensure_branch_exists, with the remote's side inferred from the cache's own: a
\* head that is there is left as it is, another is cut from the start point.
Cut(p) ==
    /\ pc[p] = "cut"
    /\ LET w == my[p].ws
           b == StartPoint(p)
       IN \/ /\ ~Absent(w) \/ ~Absent(b)
             /\ refs' = IF Absent(w) THEN [refs EXCEPT ![w] = refs[b]] ELSE refs
             /\ Goto(p, "look") /\ UNCHANGED <<my, lock>>
          \/ Absent(w) /\ End(p) /\ UNCHANGED refs               \* NotCreated
    /\ UNCHANGED <<forge, bare, entry, tree, noted, listed, counts>>

-----------------------------------------------------------------------------
(***************************************************************************)
(* prepare_workspace.                                                      *)
(***************************************************************************)

Put(w, t) == tree' = [tree EXCEPT ![w] = t]

\* clone_is_there: the directory and its .git.
CloneIsThere(w) == tree[w].at \in {"hollow", "git"}

Look(p) ==
    /\ pc[p] = "look"
    /\ IF CloneIsThere(my[p].ws)
       THEN Goto(p, "checkout") /\ UNCHANGED my
       ELSE Goto(p, "tree") /\ my' = [my EXCEPT ![p].new = TRUE]
    /\ UNCHANGED <<forge, disk, listed, lock, counts>>

\* What `git clone` of the cache leaves: origin is the cache, the default branch
\* is checked out and git-lfs content is not there.
Cloned(w) == [at |-> "git", origin |-> "cache", tip |-> refs[w],
              out |-> FALSE, pointers |-> Lfs, work |-> FALSE]

\* clone_from_cache, refused by a directory that is there or for reasons of its
\* own; Cleanup::of then removes the directory, or what of it can be.
CloneTree(p) ==
    /\ pc[p] = "tree"
    /\ LET w == my[p].ws IN
          \/ /\ tree[w].at = "none" /\ Put(w, Cloned(w))
             /\ Goto(p, "repoint") /\ UNCHANGED <<my, lock>>
          \/ \E at \in {"none", "husk"} : Put(w, Left(at)) /\ End(p)
    /\ UNCHANGED <<forge, bare, refs, entry, noted, listed, counts>>

\* set_remote_url; RemoteNotRepointed leaves the clone where it is.
Repoint(p) ==
    /\ pc[p] = "repoint"
    /\ \/ /\ tree' = [tree EXCEPT ![my[p].ws].origin = "forge"]
          /\ Goto(p, "checkout") /\ UNCHANGED <<my, lock>>
       \/ End(p) /\ UNCHANGED tree
    /\ UNCHANGED <<forge, bare, refs, entry, noted, listed, counts>>

\* checkout -B to origin's tip in a new clone, plain checkout in one that was
\* there, which git refuses in a hollow one.
Checkout(p) ==
    /\ pc[p] = "checkout"
    /\ LET w == my[p].ws IN
          \/ /\ tree[w].at = "git"
             /\ tree' = [tree EXCEPT ![w].out = TRUE]
             /\ Goto(p, "lfs") /\ UNCHANGED <<my, lock>>
          \/ End(p) /\ UNCHANGED tree
    /\ UNCHANGED <<forge, bare, refs, entry, noted, listed, counts>>

\* A mutant: only the launch that made the clone fills it.
MaterializeNew(p) ==
    /\ pc[p] = "lfs"
    /\ \/ /\ tree' = [tree EXCEPT ![my[p].ws].pointers = @ /\ ~my[p].new]
          /\ Goto(p, "note") /\ UNCHANGED <<my, lock>>
       \/ my[p].new /\ tree[my[p].ws].pointers /\ End(p) /\ UNCHANGED tree
    /\ UNCHANGED <<forge, bare, refs, entry, noted, listed, counts>>

\* materialize_lfs is gated on what the tree holds: pointers are filled from the
\* cache's store or from origin, which may refuse, unless git-lfs will not list
\* them, which reads as none.
Materialize(p) ==
    /\ pc[p] = "lfs"
    /\ LET w == my[p].ws IN
          \/ /\ tree' = [tree EXCEPT ![w].pointers = FALSE]
             /\ Goto(p, "note") /\ UNCHANGED <<my, lock>>
          \/ /\ tree[w].pointers
             /\ my' = [my EXCEPT ![p].blind = TRUE]
             /\ Goto(p, "note") /\ UNCHANGED <<tree, lock>>
          \/ tree[w].pointers /\ End(p) /\ UNCHANGED tree
    /\ UNCHANGED <<forge, bare, refs, entry, noted, listed, counts>>

\* add_worktree, whose refusal is only a notice; the scope of the lock ends.
Note(p) ==
    /\ pc[p] = "note"
    /\ \/ noted' = noted \cup {my[p].ws}
       \/ UNCHANGED noted
    /\ Goto(p, "up") /\ Unlock(p)
    /\ UNCHANGED <<forge, bare, refs, entry, tree, listed, my, counts>>

\* `devpod up` of the clone's path registers the workspace, or fails.
Up(p) ==
    /\ pc[p] = "up"
    /\ \/ tree[my[p].ws].at # "none" /\ listed' = listed \cup {my[p].ws}
       \/ UNCHANGED listed
    /\ End(p)
    /\ UNCHANGED <<forge, disk, counts>>

-----------------------------------------------------------------------------
(***************************************************************************)
(* The background sweep: lazy_fetch, if the lock is free.                  *)
(***************************************************************************)

BeginSweep(p) == Ask(p, "sweep", Untold.ws, FALSE, "try")

\* run_if_lock_free: a lock that is held is somebody else's turn.  A repository
\* that is not in the copy loaded, or not due, is left alone.
TryLock(p) ==
    /\ pc[p] = "try"
    /\ \/ /\ lock = Nobody /\ my[p].knows
          /\ lock' = p /\ Goto(p, "sweep") /\ UNCHANGED my
       \/ End(p)
    /\ UNCHANGED <<forge, disk, listed, counts>>

\* fetch_repo: every head, and --prune of those the remote has not got.
Sweep(p) ==
    /\ pc[p] = "sweep"
    /\ \/ bare = "head" /\ refs' = forge
       \/ UNCHANGED refs
    /\ End(p)
    /\ UNCHANGED <<forge, bare, entry, tree, noted, listed, counts>>

-----------------------------------------------------------------------------
(***************************************************************************)
(* dl --prune: prune_plan, the question, prune_clones.                     *)
(***************************************************************************)

BeginPrune(p) == \E force \in BOOLEAN : Ask(p, "prune", Untold.ws, force, "plan")

\* The clones on disk that no workspace of this listing holds.
Orphaned(p) == {w \in Ws : tree[w].at # "none" /\ w \notin my[p].seen}

\* A mutant: --force promotes every clone of the plan.
PlanForcingAll(p) ==
    /\ pc[p] = "plan" /\ lock = Nobody
    /\ LET plan == {w \in Orphaned(p) : Stands(w) => my[p].force} IN
          my' = [my EXCEPT ![p].plan = plan,
                           ![p].promoted = IF my[p].force THEN plan ELSE {},
                           ![p].objected = {w \in Orphaned(p) : Stands(w)},
                           ![p].forget = {w \in my[p].noted : tree[w].at = "none"}]
    /\ Goto(p, "confirm")
    /\ UNCHANGED <<forge, disk, listed, lock, counts>>

\* The scan holds the lock and changes nothing, so it is one step from a free
\* lock.  decide removes what is orphaned and collectable, and with --force what
\* stands; git may refuse to answer for any clone, which then stands.  The
\* records of absent directories are stale.
Plan(p) ==
    /\ pc[p] = "plan" /\ lock = Nobody
    /\ \E refused \in SUBSET Ws :
          LET stands == {w \in Orphaned(p) : Stands(w) \/ w \in refused}
              forced == IF my[p].force THEN stands ELSE {}
          IN my' = [my EXCEPT
                      ![p].plan = (Orphaned(p) \ stands) \cup forced,
                      ![p].promoted = forced, ![p].objected = stands,
                      ![p].forget = {w \in my[p].noted : tree[w].at = "none"}]
    /\ Goto(p, "confirm")
    /\ UNCHANGED <<forge, disk, listed, lock, counts>>

\* The plan is shown; there may be nothing to do, or the answer may be no.
Confirm(p) ==
    /\ pc[p] = "confirm"
    /\ \/ /\ my[p].plan \cup my[p].forget # {}
          /\ Goto(p, "relist") /\ UNCHANGED <<my, lock>>
       \/ End(p)
    /\ UNCHANGED <<forge, disk, listed, counts>>

\* prune_clones lists again before it takes any lock.  Only a clone that is there
\* now has its record found by its directory.
Relist(p) ==
    /\ pc[p] = "relist"
    /\ \/ /\ my' = [my EXCEPT ![p].seen = listed, ![p].old = Working,
                       ![p].noted = {w \in @ : tree[w].at # "none"}]
          /\ Goto(p, IF my[p].plan = {} THEN "forget" ELSE "relock")
          /\ UNCHANGED lock
       \/ End(p)
    /\ UNCHANGED <<forge, disk, listed, counts>>

\* One clone of the plan, classified again under the lock and removed as far as
\* it goes; the record of a clone that went whole is dropped later.  The scope
\* ends with the last one.
Remove(p) ==
    /\ pc[p] = "remove"
    /\ \E w \in my[p].plan :
          LET left(dropped) == my' = [my EXCEPT ![p].plan = @ \ {w},
                                               ![p].forget = @ \cup dropped]
          IN \/ /\ w \notin my[p].seen
                /\ Stands(w) => w \in my[p].promoted
                /\ \/ Put(w, Left("none")) /\ left({w} \cap my[p].noted)
                   \/ /\ tree[w].at # "none"
                      /\ \E part \in Parts(tree[w]) : Put(w, part)
                      /\ left({})
             \/ UNCHANGED tree /\ left({})          \* withheld, or nothing went
    /\ IF Cardinality(my[p].plan) = 1 THEN Goto(p, "forget") /\ Unlock(p)
                                       ELSE UNCHANGED <<pc, lock>>
    /\ UNCHANGED <<forge, bare, refs, entry, noted, listed, counts>>

\* forget_clone, one record at a time; a refusal is a notice.
Forget(p) ==
    /\ pc[p] = "forget"
    /\ IF my[p].forget = {} THEN End(p) /\ UNCHANGED noted
       ELSE /\ \E w \in my[p].forget :
                  /\ my' = [my EXCEPT ![p].forget = @ \ {w}]
                  /\ noted' = noted \ {w} \/ UNCHANGED noted
            /\ UNCHANGED <<pc, lock>>
    /\ UNCHANGED <<forge, bare, refs, entry, tree, listed, counts>>

-----------------------------------------------------------------------------
(***************************************************************************)
(* dl <ws> rm and dl <ws> kill: no repo lock is taken.                     *)
(***************************************************************************)

\* rm stops at what would be lost, unless --force; kill says it and goes on.
\* A workspace with no record here has no clone of ours to lose.
BeginRemove(p, w) ==
    \/ \E force \in BOOLEAN :
          /\ (w \in noted /\ Stands(w)) => force
          /\ Ask(p, "rm", w, force, "delete")
    \/ Ask(p, "kill", w, TRUE, "delete")

\* `devpod delete`, which --ignore-not-found lets pass for a workspace devpod has
\* not got.  One that failed or was stopped may have unlisted it all the same,
\* and then the clone stays.
Delete(p) ==
    /\ pc[p] = "delete"
    /\ \/ /\ my[p].ws \in listed \/ (my[p].verb = "rm" /\ my[p].force)
          /\ listed' = listed \ {my[p].ws}
          /\ Goto(p, "drop") /\ UNCHANGED <<my, lock>>
       \/ listed' = listed \ {my[p].ws} /\ End(p)
       \/ UNCHANGED listed /\ End(p)
    /\ UNCHANGED <<forge, disk, counts>>

\* A mutant: the record goes with a clone that did not.
DropRefused(p) ==
    /\ pc[p] = "drop"
    /\ LET w == my[p].ws IN
          \/ /\ \E part \in {Left("none")} \cup Parts(tree[w]) : Put(w, part)
             /\ my' = [my EXCEPT ![p].forget = {w}]
             /\ Goto(p, "forget") /\ UNCHANGED lock
          \/ UNCHANGED tree /\ End(p)
    /\ UNCHANGED <<forge, bare, refs, entry, noted, listed, counts>>

\* remove_workspace_by_id: the clone of the record loaded, then its record.  A
\* removal that was refused may have taken part of the clone.
Drop(p) ==
    /\ pc[p] = "drop"
    /\ LET w == my[p].ws
           there == w \in my[p].noted /\ tree[w].at # "none"
       IN \/ /\ there /\ Put(w, Left("none"))
             /\ my' = [my EXCEPT ![p].forget = {w}]
             /\ Goto(p, "forget") /\ UNCHANGED lock
          \/ there /\ (\E part \in Parts(tree[w]) : Put(w, part)) /\ End(p)
          \/ UNCHANGED tree /\ End(p)
    /\ UNCHANGED <<forge, bare, refs, entry, noted, listed, counts>>

-----------------------------------------------------------------------------
(***************************************************************************)
(* The world, and processes that die.                                      *)
(***************************************************************************)

\* Somebody pushes a branch to the forge.
Push(b) ==
    /\ commits < 1 + MaxPushes
    /\ commits' = commits + 1
    /\ forge' = [forge EXCEPT ![b] = commits + 1]
    /\ UNCHANGED <<disk, listed, lock, pc, my, commands, crashes>>

\* Somebody works in a clone, whether devpod still lists its workspace or not.
Edit(w) ==
    /\ tree[w].at = "git" /\ tree[w].out /\ ~tree[w].work
    /\ tree' = [tree EXCEPT ![w].work = TRUE]
    /\ UNCHANGED <<forge, bare, refs, entry, noted, listed, lock, pc, my, counts>>

\* What a git killed halfway leaves behind.  A removal killed halfway leaves what
\* one that was refused does.
Halfway(p) ==
    \/ UNCHANGED <<bare, refs, tree>>
    \/ /\ pc[p] = "clone" /\ bare = "none"
       /\ bare' \in {"noHead", "head"}
       /\ refs' = [b \in Branch |-> 0] /\ UNCHANGED tree
    \/ /\ pc[p] = "tree" /\ tree[my[p].ws].at = "none"
       /\ \/ \E at \in {"husk", "hollow"} : Put(my[p].ws, Left(at))
          \/ Put(my[p].ws, Cloned(my[p].ws))
       /\ UNCHANGED <<bare, refs>>

\* The process and its git die together, and the kernel drops the lock.
Crash(p) ==
    /\ pc[p] # "idle" /\ crashes < MaxCrashes
    /\ crashes' = crashes + 1
    /\ Halfway(p) /\ End(p)
    /\ UNCHANGED <<forge, entry, noted, listed, commits, commands>>

\* The forge has the default branch, and any of the others; dl has never run.
Init ==
    /\ forge \in {f \in [Branch -> {0, 1}] : f[Default] = 1}
    /\ bare = "none" /\ refs = [b \in Branch |-> 0] /\ entry = FALSE
    /\ tree = [w \in Ws |-> Left("none")]
    /\ noted = {} /\ listed = {}
    /\ lock = Nobody
    /\ pc = [p \in Process |-> "idle"]
    /\ my = [p \in Process |-> Untold]
    /\ commits = 1 /\ commands = 0 /\ crashes = 0

\* The scope of a launch, from the check of the cache to the record.
Launch(p) ==
    \/ Check(p) \/ Clone(p) \/ Record(p)
    \/ Fetch(p) \/ FetchBase(p) \/ Cut(p)
    \/ Look(p) \/ CloneTree(p) \/ Repoint(p) \/ Checkout(p)
    \/ Materialize(p) \/ Note(p) \/ Up(p)

Prune(p) ==
    \/ Plan(p) \/ Confirm(p) \/ Relist(p)
    \/ Acquire(p, "relock", "remove") \/ Remove(p) \/ Forget(p)

Next ==
    \/ \E p \in Process :
          \/ \E w \in Ws : BeginLaunch(p, w) \/ BeginRemove(p, w)
          \/ BeginEnsure(p) \/ BeginSweep(p) \/ BeginPrune(p)
          \/ Acquire(p, "lock", "check") \/ Launch(p)
          \/ TryLock(p) \/ Sweep(p)
          \/ Prune(p)
          \/ Delete(p) \/ Drop(p)
          \/ Crash(p)
    \/ \E b \in Branch : Push(b)
    \/ \E w \in Ws : Edit(w)

Spec == Init /\ [][Next]_vars

-----------------------------------------------------------------------------
(***************************************************************************)
(* Properties.                                                             *)
(***************************************************************************)

\* A cache that has its HEAD is never removed and never cloned over, whoever else
\* is at it and whatever was killed: clone_repo clears only what has no HEAD, and
\* what it removes after a refused clone is what it made itself, because nobody
\* else clones while it holds the repo lock.
CacheStands == [][bare = "head" => bare' = "head"]_vars

\* At the end of the lock's scope the launch has what it is about to open: a
\* clone with its branch checked out, git-lfs content filled in unless git-lfs
\* would not say what is missing, and a clone this launch made pointing at the
\* forge.  No prune, no sweep and no sibling launch takes a part of it away, and
\* what a killed launch left half done is done again.
HandedOver ==
    \A p \in Process : pc[p] = "note" =>
        LET t == tree[my[p].ws] IN
          /\ t.at = "git" /\ t.out
          /\ t.pointers => my[p].blind
          /\ my[p].new => t.origin = "forge"

\* Push, then launch: a new clone whose branch was fetched is at the tip the
\* forge had when the launch was asked for, or a later one (devlaunch#144).
PushedTip ==
    \A p \in Process : pc[p] = "note" /\ my[p].new /\ my[p].fetched =>
        tree[my[p].ws].tip >= my[p].asked

\* Work that was in a clone when it was last asked about (when rm began, or when
\* prune_clones read devpod's listing) is removed only by a rm --force or a kill
\* of that workspace, or by a prune --force that had reported that very clone.
OldWorkKept ==
    [][\A w \in Ws : tree[w].work /\ ~tree'[w].work =>
         \E p \in Process :
            /\ pc[p] \in {"remove", "drop"}
            /\ \/ w \notin my[p].old
               \/ my[p].force /\ IF my[p].verb = "prune"
                                 THEN w \in my[p].objected
                                 ELSE w = my[p].ws]_vars

\* While one command runs at a time, whatever was refused and killed before: a
\* workspace devpod lists has its clone directory, since the clone goes only after
\* devpod has let go of the workspace and devpod only ever hears of a clone that is
\* there.
ListedHasClone == \A w \in listed : tree[w].at # "none"

\* And then a workspace record is dropped only when the clone it names is gone: no
\* clone on disk becomes one no command can name.
DropsTheDead == \A w \in noted \ noted' : tree[w].at = "none"

=============================================================================
