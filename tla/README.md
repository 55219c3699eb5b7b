# A verification of devlaunch in TLA+

devlaunch (`dl`, and `aid` on top of it) opens git branches as devpod
workspaces. Every command is a short-lived process without a daemon behind it,
so all it knows between two commands is on disk: a cache directory shared by
every `dl` of the host, and devpod's own records. What is hard about it is
therefore what happens *between* processes: two launches of one workspace, an
agent's background prewarm beside a person's, a sweep beside a launch, a command
killed in the middle of what it was doing and the next one that must make sense
of what it left.

The modules here model that part of the code, check it with TLC on small
instances, and prove what matters most of it for every instance with TLAPS.

- [Inventory](#inventory)
- [Modules](#modules)
- [Runs](#runs)
- [What the violations show](#what-the-violations-show)
- [Proofs](#proofs)
- [What is not modelled](#what-is-not-modelled)
- [What is left](#what-is-left)

Paths below are relative to `src/rust/devlaunch-core/src/`; those of the other
crates begin with the crate's name, for `src/rust/<crate>/src/`.

## Inventory

| component | state it keeps | operations | hard because |
|---|---|---|---|
| lock files, `domain/locks.rs` | one file per lock; the kernel's flock on an inode | `hold_lock_watching` (queue), `run_if_lock_free` (try), `reclaim` (unlink) | a flock is on an inode and the callers mean a path; sweeps and `--purge` unlink lock files; holders die |
| metadata store, `domain/metadata.rs` | `metadata.json`, `.corrupt`, `.bak`, each process's copy | `open`, `exclusive` mutations, `commit_migration`, `save` | every copy is stale as soon as it is made; old builds, newer builds and hands write the file; saves fail |
| cache migration, `flows/migration.rs` | clone directories, record paths, the version header | `migrate_cache`, from every command that opens the records | many renames and one save; a pass may die or be refused in the middle; names collide |
| launch, `flows/launch.rs`, `flows/launch_locks.rs` | the launch lock, and what a launch read and carries down | `attach`, `up`, `restart`, `rebuild`, `code`, `dotfiles` | the state is read before the lock is taken; two launches of one workspace are an everyday event; `devpod up` takes minutes and may die half way |
| setup pass and verdict cache, `flows/provision.rs`, `flows/provision/verdict_cache.rs` | marker, Claude memo and in-flight record, each stamped with the mtime of devpod's result file | `provision`, `trusted`, `observe`, `record`, `begin_pass`, `end_pass` | the container is replaced by somebody else during a pass; `dl` is killed without unwinding |
| devpod's records, `clients/devpod_home.rs` | `workspace.json` (written on the way into an `up`), `workspace_result.json` (on the way out of a completed one) | `create_record`, `sole_workspace_result`, `repoint` | they are another program's, and lag behind the container |
| kill, `flows/kill.rs` | none: the process table | `release_the_lock`, `workspace_kill` | the table is stale when acted upon |
| signals, `devlaunch-runner/interrupt.rs`, `dl/hangup.rs` | a registry of paths, children and the foreground group | `register_*`, `cleanup_and_exit` | runs between any two instructions, on any thread |
| runner, `devlaunch-runner/lib.rs` | a child, its pipes, a thread per pipe, two deadlines | `capture`, `passthrough`, `session`, `watched` | a pipe nobody reads blocks its writer; a descendant keeps a pipe open for ever |
| repository cache, `flows/repo_manager.rs`, `flows/workspace_clone.rs`, `flows/branch_manager.rs` | bare clones, workspace clones, `last_fetched` | `ensure_repo`, `fetch_ref`, `prepare_cold`, `remove_clone` | repo lock and metadata lock nest; clones are interrupted |
| lifecycle, `flows/lifecycle/` | clones, records, launch locks, kept copies of volume names | `delete`, `prune_clones`, `purge_all_data`, `reconcile` | act on a plan made earlier; each is many steps any of which fails |
| volumes, `flows/kept_copies.rs` | copies of devpod's create results | `keep`, `sweep_volumes`, `drop` | the only name a volume has goes with the workspace |
| agent worktrees, `flows/agent_worktrees.rs`, `derivatives.rs` | none: a forest on disk, git's registrations | `weigh`, `reclaim`, `reclaim_derivatives` | agents write beside it; bytes and names go separately |
| the guard of `rm`, `domain/workspace_state.rs`, `flows/lifecycle/delete_guard.rs` | none: the clone's refs, the cache's tags | `read_clone`, `guard_removal` | five questions under no lock; a tag says nothing of where it came from |
| background refresh, `flows/lifecycle/refresh.rs`, `fetch_sweep.rs`, `flows/completion_cache.rs` | a latch, two cache files, sweep notes | the detached updater | started by any command; nothing serialises two of them |
| session manager, `flows/session_manager.rs`, `clients/herdr.rs`, `dl/pane_shell.rs` | a pane's label, a forwarded socket, files in a container | `begin_reporting`, `prepare`, `destination_for` | several panes lend to one container; a trip is cut in the middle |
| names, `flows/launch.rs`, `flows/lifecycle/state.rs`, `dl/target.rs` | none: the records' two ids, devpod's answers | `colliding_record`, `resolve_triple`, `triple`, `existing` | two triples may derive one id; older builds derived others; the records are read under no lock |
| specs, clients, listing, command line | none that lasts | reading, parsing, rendering | not concurrent |

How they interact: a launch places itself by asking devpod, prepares a clone
when it must (repository cache, under the *repo lock*, recording what it did in
the metadata store under the *metadata lock*), takes the *launch lock* of the
workspace, runs `devpod up`, which takes devpod's own flock, then the setup pass,
lets go, keeps a copy of its volumes' names, prepares the pane's reporting and
attaches. All three of dl's locks are `domain/locks.rs`; every program it runs is
a call of the runner, with what it staged in the signal registry. The migration
runs inside the metadata lock of whichever command opens the records first.
Sweeps (`prune`) reclaim launch locks; `--purge` removes the cache, lock files
included, and takes no lock at all; `rm` takes neither repo lock nor launch lock.

## Modules

| module | of | what it is |
|---|---|---|
| `LockSpec` | | a lock: at most one process is inside |
| `FileLock` | `domain/locks.rs` | paths, inodes, descriptors, flocks; implements `LockSpec` |
| `StoreSpec` | | a store that changes one record at a time, or migrates |
| `Metadata` | `domain/metadata.rs` | one file and the processes that load, edit and replace it; implements `StoreSpec` |
| `Migration` | `flows/migration.rs` | one pass after another over the clone directories |
| `Launch` | `flows/launch.rs`, `flows/provision.rs`, `verdict_cache.rs` | concurrent launches of one workspace, their passes, and devpod |
| `RepoCache` | `flows/repo_manager.rs`, `flows/workspace_clone.rs`, `flows/branch_manager.rs`, `flows/lifecycle/` | one repository's cache, the clones cut from it, and the commands that change them |
| `LockOrder` | the three locks across `launch.rs`, `workspace_clone.rs`, `prune_run.rs`, `delete.rs`, `kill.rs`, `fetch_sweep.rs` | every scope of every lock, and what is waited for inside it |
| `Kill` | `flows/kill.rs` | the sweep of a workspace's holders over three readings of the process table |
| `Runner` | `devlaunch-runner/lib.rs` | one call: child, descendant, pipes, readers, deadlines |
| `Interrupt` | `devlaunch-runner/interrupt.rs`, `dl/lib.rs`, `dl/hangup.rs` | the registry and its handler against every step of what a launch stages |
| `Refresh` | `flows/lifecycle/refresh.rs`, `flows/completion_cache.rs` | the latch, the detached updaters, the two files and their age |
| `Volumes` | `flows/kept_copies.rs`, `flows/lifecycle/` | volumes, and what names them while devpod has the workspace and after |
| `Worktrees` | `flows/agent_worktrees.rs`, `derivatives.rs` | plan, second weighing and removal in a forest others write to |
| `Reconcile` | `flows/lifecycle/reconcile.rs`, `locations.rs`, `prune_status.rs`, `state.rs` | where workspaces are among the clones, and which id a launch follows |
| `Unsaved` | `domain/workspace_state.rs`, `clients/git.rs`, `flows/lifecycle/delete_guard.rs` | whether a clone is the only place some work exists, asked question by question |
| `Addressing` | `flows/launch.rs`, `flows/lifecycle/state.rs`, `dl/target.rs`, `workspace_clone.rs` | which workspace a triple or an id leads to, for launches and removals side by side |
| `Reporting` | `flows/session_manager.rs`, `clients/herdr.rs` | label, forward, lend and install, launch after launch and side by side |
| `PaneShell` | `dl/pane_shell.rs`, `flows/session_manager.rs` | where a new pane's shell opens |
| `MC*` | | small instances for TLC |
| `*Proofs` | | theorems of the module they are named after |

Three of the `MC` modules put machines side by side: `MCProcesses` (Runner, Interrupt,
Refresh, PaneShell, Reporting), `MCEnds` (Launch, Kill, Worktrees, PaneShell,
Reporting under fairness) and `MCRemoval` (Kill, Volumes, Worktrees, Reconcile, Unsaved, Addressing).
Each behaviour there is of one machine, `part` says which, and the
variables of the others stand parked at one value: the machines share no state, so a
product of them would show nothing that each does not show alone. The constants of each
instance are checked against its module's assumptions, as `ASSUME`s of the composite;
those of the machines with theorems are `CONSTANTS` of the composite, which only its
`.cfg` gives values, so that `ProcessesProofs` and `RemovalProofs` are of every value;
its properties are conjunctions of `part = ... => M!Property`, and the comment of a
property is at its definition in the machine's module as well.

### FileLock

The path names an inode or nothing; each process has at most one descriptor;
`holder[i]` is the process whose flock is on inode `i`. A call is `hold`
(`hold_lock_watching`), `try` (`run_if_lock_free`) or `reclaim`
(`reclaim_between`), and takes the code's steps: open (creating, or not, for a
reclaim), flock without waiting, flock waiting, ask `still_named_by`, then work,
or unlink. `Validate` is the question answered yes, `LoseFile` answered no,
which retries up to `ACQUIRE_ATTEMPTS`. An inode number is reused once nothing
names it or has it open, as file systems do. `Crash` is the process dying
anywhere; `OsRefuses` any failing system call; `Purge` the unlink by a process
that holds nothing. The history variable `purged` says it has happened: until then
the path is one lock, and after it two processes may each hold an inode of their
own.

`run_if_lock_free` and `hold_lock_watching` differ in what a held lock leads to
and in nothing else, which is why they share `TakeFree`, `Validate` and
`LoseFile`.

### Metadata

`file`, `corrupt` and `bak` are the three paths, each empty, unusable or a
document; `foreign` says the bytes hold something a rewrite would drop. A
document is which records it has, what the branch lists name, which records are
still to be migrated and which carry an update. `Open` is the load without the
lock, step by step (`Exists`, `Read`, then `Quarantine` or `Backup` as steps of
their own, because they act on the path and not on what was read); `TakeLock`
goes through the same load with the lock. What a process may still ask for after
the lock is gone depends on its stale copy (`Asks`), as `clone_repo` does.
`commit_migration` is the operation `migrate`; which renames were refused is any
subset of those owed, and `Migration` models where that comes from. `Damage` is
something other than this dl writing the file: an older build, a newer one, a
hand, a full disk; `Untouched` says it has not happened. It comes in the middle of
no load and no mutation, since what it would lose there is not dl's to keep.

`harm.owed` is the kinds of originals (bytes that are no document, a document with
something foreign in it) that are owed their slot. `Forgo` takes a kind out of it, in
the two ways the code lets one go: the OS refused the rename or the copy, or an `open`,
which holds no lock, moved or copied what a mutation had saved since it read. Nothing
else may lose one, and `OriginalsKept` says so with every overlap of loads and
mutations allowed and every rename and copy refusable.

`Save` is one step because `save` writes a temporary file and renames it over
the target: no state in between is visible at the path. `SaveRefused` is any
failure before the rename.

### Migration

`dir` says which record's clone, if any, each directory holds; `Old` and `Derived` are
the directories before and after, `Rank` the order the file lists the records
in. `LeaveBehind`, `Follow`, `Rename` and `RefuseRename` are the branches of
`migrate_record`; `Save` ends the pass; `Die` is a pass that is killed, or whose
save fails. Passes are kept apart by the metadata lock, so there is one at a time.
`Stray` is a clone that no record names, as a newer scheme's made beside the old one
(migration.rs:304): any set of the paths that no record has may hold one to begin with.
A record whose derived path has one follows it, and its own clone stays where it was,
which is what the last part of `MigratedIsHome` says of it (`UncontestedOwn`).

### Launch

devpod's side is six variables: what `devpod status` says (`container`),
`workspace.json` (`record`), `workspace_result.json` (`result`, its mtime as a
number that grows with each completed `up`; 0 when absent), whether the standing
container has the tools, whether its own `up` has completed (`fresh` while not)
and who holds devpod's flock. dl's side is the launch lock, the marker, the
memo and the in-flight record, each a stamp. Everything a launch read and uses
later is in `my`: where it was placed, the stamp it observed, what its probe found.

| action | code |
|---|---|
| `BeginLaunch` | `place_existing`, `place_triple`, `place_creatable` |
| `FastPath`, `FinishTheInterruptedPass` | `run_attach`, `run_up_verb` of a running workspace |
| `BringUp`, `Restart`, `Stop`, `Dotfiles` | the other verbs down to `bring_up` |
| `WalkIn`, `Queue`, `Wake`, `LockUnavailable` | `serialize_launch` and its four arms (an unnamed workspace goes straight to `up`) |
| `Recheck` | what only a launch that waited asks in `up_under_stage` |
| `UpStarts`, `SweepOrphans`, `UpSucceeds`, `UpRefused` | `devpod::run_watching` and what follows it |
| `TopUp`, `Observe`, `BeginPass`, `Probe`, `Note`, `Lend`, `Close` | `provision` and `run_the_pass` |
| `Attach`, `Leave` | the session |
| `Crash` | a launch interrupted (its devpod is killed with it) or killed (its devpod is orphaned) |
| `ForeignUp`, `UnattendedUpEnds` | a `devpod up` that is nobody's: VS Code's, or an orphan |

The launch lock is the atomic lock of `LockSpec`, which `FileLock` implements.
In the re-check, `devpod status` and the read of the result file are one step:
the result file only ever appears, so splitting them adds no outcome. A `devpod
ssh` into a container that is not running counts as a trip that does not get
through. Two completed `up`s are assumed to leave different mtimes.

`UpRefused` may come while another holds devpod's flock: devpod refuses arguments, a
provider or a source before it takes it. But nothing says that it must, so the fairness
asks no step of a launch that is behind another's flock (`Blocked`): it gets on when the
flock is free, or an orphan's it can sweep.

Three things are coarser than the code. A verdict compares the switches it was
reached under (verdict_cache.rs:119), and here the switches are one value, so `Trusted`
compares stamps. `FinishTheInterruptedPass` leaves out the extra pass for a stage that is
missing for this launch alone (`stage_missing_for_this_launch`, launch.rs:6838). And
of the probe's three answers `Probe` has one for lendable and absent: what follows is
tried in the same order, and that a lendable container whose lend is rejected keeps its
shim (`ShimKept`) is among the ways a `Lend` that fails
(`TripsFail`) brings nothing.

### RepoCache

`bare` is the cache's directory (absent, without a `HEAD`, a clone), `refs` the
tips of its heads, `entry` whether the repository is recorded; `tree[w]` is the
clone directory of a workspace: what is there at all (`at`), where it pushes to,
its tip, whether its branch is checked out, whether git-lfs content is missing,
whether it holds work nothing else has. `noted` is the records, `listed` what
devpod lists, `forge` the remote. What a process loaded when it started (the
repository known, its records, devpod's listing), and what it decided, is in `my`.

| action | code |
|---|---|
| `BeginLaunch`, `BeginEnsure`, `Acquire` | `prepare_cold`, `prepare_cold_from`, `ensure_repo`, each through `hold_repo_lock` |
| `Check`, `Clone`, `Record` | `clone_if_missing`, `clone_repo`, `register_existing_bare` |
| `Fetch`, `FetchBase`, `Cut` | `ensure_branch`, `ensure_branch_from`: `fetch_ref`, `fetch_base_branch`, `ensure_branch_exists` |
| `Look`, `CloneTree`, `Repoint`, `Checkout`, `Materialize`, `Note` | `prepare_workspace`, step by step; the scope of the lock ends with `Note` |
| `Up` | `devpod up` of the path handed over, external |
| `BeginSweep`, `TryLock`, `Sweep` | `sweep_repo_fetches` over `run_if_lock_free`, `lazy_fetch`, `fetch_repo` |
| `BeginPrune`, `Plan`, `Confirm`, `Relist`, `Remove`, `Forget` | `prune_plan`, the question, `prune_clones`: its second listing, `clone_status` and `decide` again under the lock, `forget_clone` |
| `BeginRemove`, `Delete`, `Drop` | `workspace_remove` with its guard, `workspace_delete`, `remove_workspace_by_id` |
| `Crash`, `Halfway` | any process killed, and what the git it was running leaves |
| `Push`, `Edit` | the world |

Every step that asks git or the file system may be refused, and ends the command
as the code's error does. The repo lock is the atomic lock of `LockSpec`; the
metadata store is atomic here, as `StoreSpec` says it is, and a copy is stale as
soon as it is made. `prune_plan` holds the lock for its whole scan of a
repository and changes nothing that is modelled, so the scan is one step taken
from a free lock. A launch of a branch and its workspace are one name here: the
id's derivation is `Migration`'s. A `Crash` takes the git the process runs with it: one
that outlives its dl and goes on writing without the lock is not modelled.

### LockOrder

What each command holds when it asks for a lock: the metadata lock inside a repo
lock, both outside a launch lock, devpod's flock inside it. A command is its
scopes and nothing else; what is done in them is in the other modules. An orphan
and a foreign devpod hold the flock as dl's own do. `BlockedBy` reads who waits for
whom out of the locks, and `NoCircularWait` is that no set of commands waits only
for its own members. `Serialize` waits for the launch lock as `serialize_launch` does,
without limit; that the lock file cannot be had at all, or that nothing names the
workspace, is a step of its own (`Unserialized`), which may happen and which no fairness
asks for, so that a launch that ends has been let in. The rule of `domain/locks.rs` (metadata inside repo, launch
outermost, nothing twice) is not stated anywhere in the module: the steps are the
code's, and the property is what the rule is for.

### Kill

`proc` is the process table: each pid unborn, gone, a stranger's, or a devpod of
this workspace with a parent and a mettle (ends when asked, only when made to, or
not at all). `reading` is what `ps` said last, `since` who has changed hands after
it. `FirstLook`, `Strike`, `LookAgain` (each signal in turn), `Sum`, `SweepMarker`,
`KillContainers` and `Delete` are `sweep_holders` and `workspace_kill`;
`"release"` is the same sweep made by a launch that finds its `up` blocked, with
itself among the holders. The host moves beside it: dls die, builds end and
start, pids are recycled.

### Runner and Interrupt

A `Runner` call is a child that writes a few lines to pipes of bounded capacity,
a straggler that inherits them, a thread reading each and a caller waiting, by
the method's own order: `capture` waits first and collects after, the
line-by-line methods hand over as they read. `expired` and `graced` are the two
clocks, which may run out at any step of a call that has a limit.

`Interrupt` has the main thread of one dl step through what a launch stages (a
save's temporary, the token, the build in its own group, the bundle in its
directory, the detached forward), each step either the act or its registration,
and the handler step slot by slot. With `Threads` another thread takes the signal
and the main thread goes on beside the handler. A child's pid may be reaped and
recycled under it. What an interrupted dl leaves behind is bounded by the windows its code
has (`ResidueHasAWindow`): the one between a file's making and its registration
(gh.rs:327) is the code's own, and the property forbids everything outside it.

### Refresh

A command is a script of the latch's operations (`reads`, `picks`, `changes`,
`throwaway`, `refreshes`, `purges`), a child an updater that lists, asks the remotes and
writes two files, in that order. Each knows which others had read the list before it
(`earlier`), and so which it overtakes when it writes; `late` is history: an updater
wrote after one that had seen more. A tick of the clock ages the cache to its TTL.

### Volumes, Worktrees, Reconcile

`Volumes` has each workspace's volumes under two names devpod substituted, the
result that has them while devpod has the workspace, and dl's copy of it. `rm`,
`kill`, `prune`, `purge` and launches write, read and drop those, and no lock of
dl's is common to them.

`Worktrees` has two levels of places in a clone, git's registrations of them and
everything agents may do between a plan, its confirmation, the second weighing
and each removal: add, edit, commit, fetch, lock, collect.

`Reconcile` has the sources of devpod's records, the checkouts on disk and the
ids in dl's records. A place in the tree is a sequence of names, so a source may
be a clone, inside one, or nowhere of dl's. Two histories say what its properties leave
out. `crossed` are the workspaces a reconcile has re-pointed from another place than it
had listed: of two reconciles that overlap, the later rewrites devpod's record by its own
listing, and the id the first wrote down then leads to the clone the second chose.
`steady` are the workspaces listed, and at one place, since a prune's second listing: one
that a reconcile re-points after it may lose the clone it was given.

### Unsaved

A history of commits (each with its ancestors), a forge, the cache and one clone
with its branches, its other refs (stash, worktrees' HEADs), its tracking refs, its
tags and its tree. A tag names an object and an object a commit, so a tag retyped at
the same commit is another object. The person commits, moves refs, tags, pushes and
fetches between any two of the questions `read_clone` asks (`AskStatus`, `AskTags`,
`AskCache`, `AskUnpushed`, `AskOwed`); the forge gains, rewinds and drops branches
and tags; dl's fetches sweep them into the cache; git refuses, a cache or a clone
is half removed. `LocalTags`, `Unpushed` and `OnlyTags` are the three queries' ref
algebra. `calm` says nobody touched the clone since the first question, which is
what the guard's word can be good for; `strayed` that somebody pushed into the cache
from a clone that was never repointed. The worktrees inside the clone are judged in
`Worktrees`, and can only add reasons to refuse.

### Addressing

A triple derives an id, `Derived`, and two triples may derive one; `Old` triples
were launched under another, `Former`, by an older build. A record has the name of
the clone's directory and the id devpod was given; `clone` is what each directory
has checked out, `standing` the workspaces devpod has. Commands take the code's
steps: the guard of a launch (`Collides`, `Holds`), the two questions to devpod
(`AskDerived`, `AskRecorded`), which may go unanswered, the clone, its record and
the `up`, or the record of a removal, devpod's delete, the directory and the record.
A removal has no guard, finds its record by the directory's name in any repository,
and `kill` goes on without an answer (`GiveUpAsking`).

`NamesSafe` has three parts: a workspace stands with a record that names it
(`VouchedFor`), no launch comes into a workspace of another triple (`OneTenant`),
and none makes a second one for its triple (`OneWorkspace`). Three histories say
where the code promises less. `met` are the commands that ran beside one: two
launches side by side pass the guard together. `rough` is a command that devpod
denied a workspace it has, or that could not write its record. `lapsed` are the
workspaces that may be without a record: where such a command, or a removal that a
launch overlapped, took it (`Takes`); where a removal was asked for by another's name
or found another's directory; and what a triple has elsewhere once its launch has come
into a workspace that others opened (`Strays`), since a record speaks for one. What is
left is that nothing else loses one: no order of launches, removals and prunes that do
not overlap, whatever they leave half done.

### Reporting and PaneShell

In `Reporting` a file of the container is blocks, since a lend writes a staging
file in place and renames it while hook and settings are emptied and rewritten:
what is read after a cut or an overlap is what the blocks are. `marred` is history:
in this container two lends overlapped or one was cut. A launch goes through
`begin_reporting`'s steps and early returns; its forward is a process of its own.

In `PaneShell` the manager's panes run lists of processes, a budget of moments is
shared by the questions, and sessions start and end while it asks.

## Runs

Every run that passes explores its whole state space. "Deadlock" is whether TLC
also checks for it: off where the commands of an instance are bounded in number
and the system really stops.

| run | instance | states | properties | deadlock |
|---|---|---|---|---|
| `lock` | 2 processes, 3 inodes, 2 attempts, purges without bound | 170k | `Mutex`, `SupersededNeedsUnlinks`, `ImplementsLock`, `CallsEnd` | on |
| `store` | 2 processes, 1 repository, 2 branches; the file damaged twice; renames and copies aside may be refused | 490k | `HeaderNeverLies`, `ListedAreRecorded`, `OriginalsKept`, `ImplementsStore`, `UpdatesNeverResurrect` | on |
| `migration_collisions` | 6 records: two derive one id, one squats on another's, one derives none, one is in nobody's way; any stray clones; 2 refusals, 2 deaths | 115k | `NoSharedClone`, `MigratedIsHome`, `NoCloneLost`, `Completes` | off |
| `launch` | 3 launches of all verbs, 2 crashes, one at a time; 2 plain attaches or rebuilds and a crash where they overlap; a foreign `up`, failing trips, a lock that may not open | 2.9M | `TrustIsEarned`, `AttachedIsCompleted`, `CutShortIsFound`, `PassBringsTools` | off |
| `repo` | 4 commands of 2 workspaces one at a time, or 3 that overlap, of 1 workspace and a push; git-lfs, a crash | 3.4M | `HandedOver`, `PushedTip`, `CacheStands`, `OldWorkKept`, `NothingStranded` | off |
| `order` | 2 processes, any two commands of 1 repository and 2 workspaces, a foreign and an orphaned devpod | 670k | `NoCircularWait`, `BuildsHoldUpOnlyTheirOwn`, `EveryCommandEnds` | off |
| `processes` | calls by all four methods, 2 writes a stream through a pipe of 1; one signal at any step, 2 file slots, another thread; 2 commands of every script, then one with a fault; a new pane beside 3; 3 launches in one pane over 2 versions of the manager with a cut and 2 replacements, or 2 launches in 2 panes | 1.2M | `RunnerSafe`, `InterruptSafe`, `RefreshSafe`, `PaneSafe`, `ReportingSafe`, `CallsReturn`, `CacheCatchesUp` | off |
| `ends` | 2 launches and a crash; a release among 2 holders and 2 moves; prunes of 2 places with 2 faults; a new pane beside 2; 2 launches that report from 2 panes over 2 versions of the manager, a cut, an update | 370k | `LaunchesEnd`, `Converges`, `SessionsEnd` | off |
| `removal` | 2 holders, 3 moves, a fault; 2 workspaces' volumes and a crash, or 2 processes on one; 2 places, a move, a fault, forced or not; 2 branches in 6 names and 3 commands, or 2 and a kill; 2 commits, a branch, a stash, a tag, 4 moves and a fault; 3 triples that collide, now or with what they were once given, and 3 commands of 2 processes | 3.0M | `KillSafe`, `VolumesSafe`, `WorktreesSafe`, `ReconcileSafe`, `UnsavedSafe` | off |
| `store_lossy` | the instance of `store`, the file damaged once, every rename and copy aside granted | | `LossyPreservedFirst` is violated | on |
| `launch_torn_rebuild` | 2 launches, attach or rebuild | | `TrustedHasTools` is violated | off |
| `reconcile_resumed` | 2 reconciles, the first killed | | `NextRunRepairs` is violated | off |

Each module's `TypeOK` is a conjunct of a property of a run, or proved, or both.

Why the bounds are enough. In `lock` the revalidation matters when one process queues on
an inode and it is unlinked and another made before it wakes: two processes, since a
purge is nobody's, and an inode more than processes so that the path can always name a
file nobody has open. Attempts is two where the code has eight because what counts is
that there is a first, a last and a retry. A stale copy in `store` takes two processes,
and an operation relates at most one repository and one tree of it to the rest; two
branches let a list hold one and lack the other. Once
something else has written the file its records, and what is asked, are of the first
branch (`OneBranchOnceDamaged`): the two kinds of original are judged by whether they are
there, and not by what they record. Nothing is asked of how the processes overlap. In `migration_collisions` the
collisions the tests name are all in one cache, two refusals and two deaths let a pass
fail, be repeated, die and be repeated again, and stray clones are at every set of the
paths no record has. In `launch` a stale verdict takes a pass,
an `up` that replaces the container inside it and a reader: two launches and a foreign
`up`, the same that `slipped` takes; a verdict left by an earlier life of the workspace
is in the initial states. `AloneOrPair` gives the rest of the budget to launches that
follow each other, where all the verbs and the in-flight record matter. `repo` does the
same: three commands are what a hazard of an overlap takes, one that leaves something
half done and two that meet over it; two workspaces matter to a prune, which treats its
clones in turn, and to a removal. `order` needs two commands for a circle of two; that
no longer circle exists is proved. In `ends` launches are alike, and panes, so what is
said of one (`p1`) is said of both; and no container is replaced under the launches
that report, which `processes` has for their safety (a replacement takes what a lend
has written, and no step of a launch waits for that). A signal races one step, so one signal at any step is
every race; two file slots let the registry be full, and dl holds two at most, where the
code has sixteen. Removal's machines have two of everything that can be told apart; for
names, two triples of one repository derive one id, a third of another repository derives
what an older build gave the second and was itself given what those two derive; a record
is written, taken and missed in three commands. `kill` stands there for every removal: it
takes each step that `rm` and `rm --force` take, and more. (Instances with other ids and
all the verbs, with five and six commands of one process, and with two triples under one
former id were explored too, and what holds of names is proved for every instance.) Four
moves let a commit be tagged under a fetched tag's name and its branch moved off it, and
what holds of the guard is proved for every history. One move at any step is enough among
the agents' worktrees, since a behaviour starts with any two places and registrations.

Fairness. `FileLock`: a process takes its next step, and the kernel does not
starve a blocked flock for ever (strong fairness of `TakeQueued`); `CallsEnd` is
of calls whose work ends. `Migration`: commands that open the records keep being
run. `Launch`: a launch takes its next step and a `devpod up` ends by itself, by
completing or failing, as `dl` itself relies on; a launch behind another's flock is
asked nothing (`Blocked`). `LockOrder`: commands take their steps, waiting for what is
held, and a foreign devpod ends; a lock that cannot be had is not asked for
(`Unserialized`), and an orphan need not end, and `EveryCommandEnds` says so. `Kill`: the sweep takes its steps, a lock that is free is taken by somebody
waiting, and an attended build ends; an orphan need not. `Runner`: threads run
and clocks do; a child ends only if it is of the kind that does, a straggler
never needs to. `Refresh`: commands and updaters take their steps and the clock
moves; that somebody keeps reading is a hypothesis of `CacheCatchesUp`.
`Reporting` and `PaneShell`: a launch, a dying forward and the shell take their
next steps. `Worktrees`: a run takes its next step. Nothing is assumed of purges,
crashes, refusals, strangers, the start of commands or the end of sessions.

## What the violations show

Each of these runs expects TLC to violate its one property, which is what a doc
or a comment of the repository says.

- `store_lossy`: a dl reads, without the lock, a file that a newer build wrote; another
  loads it under the lock, copies it to `.bak` and saves its rewrite; the first then
  copies the rewrite over `.bak`, and what the newer build wrote is nowhere (metadata.rs:954;
  metadata.rs:15 says that anything lossy is preserved first, while the original bytes are
  still on disk).
- `launch_torn_rebuild`: a rebuild that dies after replacing the container leaves
  the previous `workspace_result.json`, whose stamp the previous verdict carries.
- `reconcile_resumed`: a reconcile killed between devpod's record and dl's leaves
  a workspace that is no orphan and a clone that has a holder, so no later run
  writes the id down (reconcile.rs:383 says the next run repairs it).

The models also show disagreements that no listed run is spent on, each one
change of an instance or of a property's hypothesis away. Those of a doc or a
comment with the code:

- a `--purge` and a launch fit between a sweep's check of the path and its
  unlink, so a sweep may unlink an inode it has not locked (locks.rs:366);
- the same overlap may move a sibling's good document to `.corrupt`, over the unusable
  bytes the sibling had put there (metadata.rs:935);
- with `PreserveFails = TRUE` `LossyPreservedFirst` fails without any overlap: a refused
  rename or copy aside does not stop the next save (again metadata.rs:15);
- of two records that derive one id, the first is refused its rename, the second
  takes the directory, and the pass dies before its save: the next pass points
  the first record at the clone of the second (migration.rs:295);
- with overlapping launches two passes share one in-flight record, and the one
  that ends first removes it (verdict_cache.rs:272);
- `HandedOver` fails when `rm` runs beside a launch: `remove_clone` takes no repo
  lock (the doc of `prepare_workspace` says all that mutates the clone needs it);
- `--from` is ignored for a branch an earlier launch cut and nobody pushed: the
  refusal asks the remote, and the cache only when the remote cannot be asked
  (workspace_clone.rs:797 against :773);
- a launch killed between its clone and its repoint leaves a clone whose origin
  is the cache, and the next launch takes it as it is (workspace_clone.rs:221);
- a prune forgets a record that a launch has written again since its listing, and
  a launch registers its workspace between a prune's listing and its lock, the
  window prune_plan.rs:252 leaves open;
- a launch that walks straight into the launch lock may have been placed before a
  sibling that has come and gone (launch.rs:2595 says its reads still stand);
- reconcile takes a live clone (reconcile.rs:396 against docs/cleanup.md:899) and
  one nested in another (:231 against :897), and a second run may find more to do
  (:213 against :910);
- two detached updaters race, so the last word is the slower one's
  (dl/commands.rs:1690 against :1686);
- an insisted worktree root may have grown by a stranger's since the plan
  (agent_worktrees.rs:2291 against :2130);
- a copy is dropped for a workspace devpod lists (delete.rs:343 against
  kept_copies.rs:50); a repoint or a rename changes `<basename>-pixi`, so a later
  `keep` overwrites the copy and the old volume loses its name;
- herdr.rs: two lends may interleave in the staging file (:1189 against :1177), a
  foreign file is rewritten (:1210 against :1130), and "ready" is said before the
  manager has heard anything (:1167 against :1030);
- a launch killed before it repoints the clone leaves one whose push goes into the
  cache, where the next sweep drops it while the clone's tracking ref still vouches
  for it: `OnlyCopyIsKept` without `strayed` fails (clients/git.rs:871 says nothing
  in the cache is a place work is authored);
- work moved from a branch to a new tag, or committed, between two questions of one
  reading is missed: `OnlyCopyIsKept` without `calm` fails;
- `kill` of a triple recorded under an older id, whose devpod does not answer in
  time, goes on with the derived id (dl/target.rs:208): devpod's delete of what it
  does not have succeeds, and the clone may go while the older workspace stands
  (delete.rs:228 says only once devpod has let go of it; dl/commands.rs:1049 that
  the resolution cannot disagree with `stop`'s);
- a launch refuses an id another triple holds and a removal does not ask, so `rm`
  by one triple's name can take the clone and the record of another, in another
  repository too (workspace_clone.rs:1402 against launch.rs:5758);
- the token a `gh` call leaves between its file and its registration
  (gh.rs:327 against :301).

And limits the code has without saying otherwise: `rm` of an adopted workspace
finds no record, because the lookup matches only the derived id, so its clone and
record stay; `rm` removes a clone another workspace is sourced inside; a refused
`devpod status` counts as unknown and leads to a cold launch that overwrites the
record's id; `adopting` is keyed by an id that is unique per context only; a
container stopped in the middle of an install keeps an emptied hook that later
probes accept (`ReportingSafe` is of containers that are not `marred`); two panes
whose ids sanitise alike share a socket; launches without the consent variable
never clear a label; a line-by-line call without a limit returns only when no
descendant holds its pipes; a build that starts after `kill`'s last reading can
lose its marker; a purge beside an updater re-creates the directory it removed;
the release sweep is made once a launch; a partly removed worktree reads as having
changes and stays until forced; `rm` killed between devpod's delete and the sweep,
for a workspace without a copy, leaves volumes nameless.

## Proofs

`tlapm` proves every theorem from the assumptions the modules state about their
constants, which TLC evaluates too.

*FileLock.* `TypeCorrect` and `GivingUpIsEarned` hold with purges; `LockInvariant`,
`MutualExclusion` and `ReclaimIsSafe` are of the states before one has
happened (`purged`). `LockInv` is `Mutex` made inductive: who is past its flock
holds the inode it opened, and who is inside holds the one the path names. Two
processes inside would then hold one inode. Only the holder of the path's inode
ever unlinks it, which is what keeps the last part true. `Implementation` maps
`inside` to the processes inside and shows every step enters, leaves or stutters.

*Metadata.* The invariant is a copy's relation to the file: under the lock,
before the edit it *is* the file's document, and after it is that document with
one operation applied. It needs the file to be what the last save wrote, so all
but `TypeCorrect` are of behaviours up to the first damage (`Untouched`).
`StoreImplemented` follows: the only step that changes the document is a save, and
what it writes is one operation away from what it replaces. `LossyIsPreserved` is of
every behaviour, damage, overlapping loads and refused copies included. Its invariant
`KInv` says of whoever holds the lock that what its load has yet to set aside
(`SetAside`) is still the file or already in its slot: the only other steps that touch
the file are an `open`'s quarantine, which puts the original in its slot or forgoes
what it overwrites there, and a damage, which comes in nobody's load. So a save
replaces no original that is still owed.

*Migration.* `OneOwner` needs `ClaimedInv`: during a pass every path a record
points at is claimed, so an unclaimed derived path is nobody's.
`ClonesSurvive`: the only step that moves a directory moves it onto an empty path.
`MigratedCacheIsHome` rests on `MInv`: during a pass every record come to is left
behind, moved or noted as owed (`DoneInv`), and the clone of a record whose name
nobody else wants is at one of its two names, at the old one only while the saved
record says so or a stray clone has the new one (`HomeInv`). Stray clones may be at any
path no record has.

*Launch.* `VerdictsAreEarned` rests on `EarnedInv`. Its heart: a stamp is never larger
than the result, an `up` in progress that replaced the container marks it `fresh`, and a
stamp equal to the result belongs to a pass that observed it in or after that `up`; so
if such a pass found the tools and the container has not been replaced since, they are
still there. `SessionsAreCompleted` rests on `CompletedInv`: from the moment a launch is
past the fast path's check, the re-check or its own completed `up`, there is a result
file, and no step takes it away. `PassesAreRecorded` is of behaviours in which no two
passes have overlapped, and of any number of launches besides; `CutInv` adds that a
launch which carries an older stamp down its pass has begun nothing in the standing
container. `PassesBringTheTools` is of any number of launches and passes, overlapping or
not. `LandInv` is that what a probe found of the standing container is still so when it
is noted, and that a pass about to close under the lock has the tools in front of it; an
`up` cannot take them, since one that replaces the container leaves it `fresh` until it
has completed, and then the pass's stamp is old. The history `slipped` is what the code
leaves open: an `up` without the launch lock starts, under a pass, the container the
pass found stopped, or the last trip into a running one is lost and its failure only
reported.

*RepoCache.* Nothing is assumed of the number of processes, branches, commands,
pushes or deaths. `TypeCorrect` contains the exclusion of the repo lock's scopes:
`Moves` says each step of a process takes the free lock on its way in, drops it
on its way out, or does neither. The other four theorems lean on it, since a
process without the lock changes neither the cache nor (`rm` apart) a clone.
`CacheNeverLost` needs that a process about to clone still sees what its check
saw (`CloneFree`). `LaunchHandsOver` and `LaunchSeesPush` share `LaunchInv`: what
a launch has in hand at each step of its scope, from a fetched head that is not
older than what was asked to a clone with the forge as its origin, the branch
out and its content in. They assume that nothing removes a workspace meanwhile
(`NothingRemoved`); the disagreement above shows why. `OldWorkNeverLost` assumes
nothing. Its invariant `WorkInv` says who is entitled to what is done next: a
prune's forced clones are ones it reported, under `--force`; a removal that was
not forced found no work when it asked; and a clone is made only where there was
none or files in no repository, so neither it nor its cleanup meets any work.
`OneByOneStrandsNothing` is of commands that come one at a time, refused or killed as
they may be. `SoundInv` says of each step what the one command under way has seen and
nobody can have made untrue.

*LockOrder.* `DeadlockFree` is of any number of commands, repositories and
workspaces. Its invariant, `HoldersAt`, says at which steps the holder of each lock
is. The only steps of a lock's scope that wait are those that wait for a lock
further in (metadata inside repository, devpod's inside launch), so in any set of
commands one is at a lock nobody in the set holds. `BuildsAreLocal` follows from
the same invariant: nobody holds a repository or the metadata lock while it waits
for a devpod.

`ProcessesProofs` and `RemovalProofs` have the theorems of the machines that
`MCProcesses` and `MCRemoval` put side by side: whichever machine a behaviour is of,
with whatever constants its assumptions allow, and so of the properties as the runs
check them.

*Kill.* `SweepIsSafe` is of any processes and any number of moves beside the sweep.
`KillInv` says what a reading stays true of: whoever it found is that process still,
nobody, or a stranger, since nothing comes back behind a build whose dl has died; and
whoever it did not find came after it (`since`). It supposes that `Nobody` is no pid.

*Unsaved.* `GuardIsSafe` is of any history of commits, any refs and tags and any
number of moves; it supposes only that ancestry is reflexive and transitive and that
a tag object has a commit (`Supposed`, which the composite's `ASSUME`s check).
`SourceInv` says that whatever the forge, the cache and the clone's tracking refs
name was published with all its ancestors. `LookInv` says what each answer means
while the clone is as it was: a tag that was vouched for is in the cache at its
object, so its history was published; what the tracking refs do not reach was asked
about by name; so when nothing is unpushed everything held was (`NothingElseIsHeld`).

*Volumes.* `VolumesAreSafe` is of two sets of instances, as its property is. One dl at a
time, with any workspaces, refusals, deaths and strangers: `CopiesInv` says that a copy,
like a result, names all the volumes of its workspace or none, that what a copy has once
named is named by one, and that a removal about to drop a copy has seen its volumes gone.
And any dls at once on one
workspace: `SweptInv` says that a workspace about to be swept is not among those listed
all along. With several dls a copy can be dropped behind a launch, which is the first
part's limit (above, delete.rs:343).

*Worktrees.* `WorktreesAreSafe` is of any two levels of places and any listing of them;
it supposes that a place is in one directory at most. `WorkInv` says of each unit still
to be judged that what the second weighing said of it is so (`AsWeighed`), wherever
nobody came after it, and that the run's own removals are of other places
(`UnitsApart`).

*Reconcile.* `AdoptionsLeadHome` is of any tree, any names, any set of the commands and
any number of dls, commands and deaths. It supposes that a branch's directory is of a
name that no build gave another branch's, that the sources that are no places are none,
and that there is a branch. `RcInv`: an id that may be written down leads home (`Leads`),
and no other branch derives it; what a run has still to adopt was listed under a name of
its branch (`Placed`), so a workspace that an id leads to is re-pointed only to where it
is; one workspace answers to one clone (`OneToOne`), which nobody else is in while the
run is by itself (`Vacant`). Without `crossed` the first part is false: it takes two
processes and five commands.

*Addressing.* `NamesLeadHome` is of any triples, ids, former ids, processes and commands;
it supposes that nothing recorded is `None`. `ReconcileIsSafe` joins it to
`AdoptionsLeadHome`: the property as the run checks it. Its invariant, `NaInv`, also
shows why the guard may read the records before devpod is asked anything. A record that
still says what an older build gave its triple is never written again, only lost
(`Formerly`), so what the guard saw of those stays true; any other record that comes
between is of a launch beside this one, which `met` holds (`NaLaunch`). `VouchedFor` by
itself is not inductive: a prune forgets what it planned to, without another look, so
whoever vouches for a workspace must have its clone there and be in nobody's plan
(`NaVouched`, `NaDoomed`). `NaFormer` is what following a record needs: its triple has
been in the former workspace, and where it has been in the derived one as well, one of
the two is excused and no other record has that id. `NaSettled` and `NaFound` say what
a launch about to create a workspace, and a removal that found its record, know.

The proof corrected the model twice. A launch that finds, under the id it derives, a
workspace that others opened and whose record is gone leaves its triple one record for
two workspaces, and the next removal takes it (`Strays`). And of two removals by one id
the second finds the directory gone, goes for the derived one, and takes another
triple's clone and what that is recorded by (`Takes`). The instance checked before could
meet neither; the one of `removal` now meets both.

*PaneShell.* `PaneJoinsTheLive` is of any tab and any budget. `PaneInv` is that what
is found was shown, and that what is spent and what is left make up the budget until
one call has overrun it. It supposes a finite tab and that `Nothing` is no value.

*Runner.* `CallsAreWhole` is of any capacity and any number of writes. Of each stream
`Whole` counts what was written as what is in the pipe, what the reader has and what
was handed over; `HandedOver` says at which steps a method has drained which reader.

*Interrupt.* `InterruptsCleanUp` is of any registry of two slots or more (the code's
has sixteen and dl holds two at most). In `IntInv`, `OnDisk` says which files exist at
which step and which of them are registered, and `Ahead` that whatever the handler
found registered and has not removed is in a slot it has yet to come to.

*Refresh.* `NoChangeIsLost` is of any number of commands, updaters and changes.
`InOrder` makes the updaters' reads of the list a strict order. While nothing has
failed, `Truth` says of each file that it is right, or late, and whoever might untell
it has been overtaken (`Told`), or that the truth is owed: by a command that changed
the list and has yet to ask, by an updater that has yet to read, or by one that read
it and after whom nobody read otherwise (`OwedByReader`). When a reader writes, those
it overtakes are marked and those after it know as much, so the file is told; when one
that was overtaken writes, the file is late. Once all is quiet nobody owes anything.

*Reporting.* `ReportsAreTrue` is of any versions and sizes of the manager's binary and
any number of launches, cuts, replacements and updates. That a session opens under its
own label, and that a launch says it reports only where what it needs was brought whole,
is of one pane: with several, a launch's probe can see another's install half done, which
the code leaves open. That settings the image brought are kept is of any panes. `RepInv`
says what stands at each step of a lend (`Lent`), after it (`Hooked`), and of the label
and the forward (`Labelled`), while nothing has marred the container's files.

Model-checked only: every liveness property, which is out of the prover's reach.
`CutShortIsRecorded` is false
once two passes overlap, `NothingStranded` once two commands do, and `ToolsLand` once
something has slipped.

## What is not modelled

- What external programs do inside: `git`, the container, ssh. devpod is modelled
  only as far as dl reads its records and waits for its commands.
- Text: argument vectors, output parsing, notices, listings, the command line
  (`dl/render.rs`, `dl/cli.rs`, `clients/`). They are stateless functions
  from values to sentences or argument vectors, each with its table of tests, and
  hold no decision a model would add to. With the in-file tests and the comments
  they are most of the repository's lines.
- In `Metadata`: file modes, links, `remove_repository` (nothing calls it), the
  parse of single fields, more than one kind of update.
- In `Launch`: `rm`, so a record never disappears; an unreadable devpod home or
  one id in two contexts (`CreateRecord::Unknown`); the switches of a verdict
  beyond one value; the extra pass for a missing Codex or zellij stage; tokens.
  Kept copies are in `Volumes`, the refresh latch in `Refresh`, the pane's
  reporting in `Reporting`.
- In `RepoCache`: packing and `last_fetched`; more than one repository; a
  directory the derived name does not match (`Reconcile` has those).
- In `Reporting`: the hook script's own reports and the tab's rename; two versions of the
  manager's binary with the same size, which the code, comparing sizes, would take for
  one, and a host whose manager is replaced by an older one.
- In `Addressing`: the grammar of a spec and the spelling of an id; the default
  branch a bare repository means; names of workspaces that dl never launched; caches in
  which an older build had put two triples into one clone directory.
- In `Interrupt`: the terminal's modes.
- In `FileLock`: more than one path at a time; network file systems.

## What is left

1. `Launch` composed with `rm` and with `FileLock` in place of the atomic lock.
2. The stages of the setup pass one by one, and the shell they run.
