------------------------------ MODULE Refresh -------------------------------
(***************************************************************************)
(* The completion cache and its detached updaters (flows/lifecycle/        *)
(* refresh.rs, flows/completion_cache.rs, dl's render_update_cache).       *)
(*                                                                         *)
(* A command that changes what devpod lists forces a refresh; one that     *)
(* only reads the cache asks for one when the cache is stale.  Either way  *)
(* a detached child lists the workspaces, asks every remote for its        *)
(* branches, and only then replaces the two files.  Nothing locks the      *)
(* cache: children of several commands, or of one, run side by side.       *)
(***************************************************************************)
EXTENDS Naturals, Sequences, FiniteSets, Functions

CONSTANTS
    Workspaces,   \* what devpod may list
    Slots,        \* a bound: commands under way at once
    TTL,          \* COMPLETION_CACHE_TTL, in ticks of the clock
    MaxRuns,      \* a bound: how often commands run devpod to change its list
    MaxFaults,    \* a bound: refused spawns, listings and writes, and kills
    Scripts       \* what the commands are

\* What the constants have to satisfy: the modules that take instances assume it.
BoundsAssumption == TTL \in Nat \ {0} /\ {MaxRuns, MaxFaults} \subseteq Nat

\* A command as the cache sees it.  A bare `dl` reads the cache, runs the picker
\* and then a session; `dl x --rm` and a picked batch change the list twice.
Steps == [reads     |-> <<"ifStale">>,
          picks     |-> <<"ifStale", "forced">>,
          changes   |-> <<"devpod", "forced">>,
          throwaway |-> <<"devpod", "forced", "rearm", "devpod", "forced">>,
          refreshes |-> <<"here">>,
          purges    |-> <<"devpod", "wipe">>]

ScriptsAssumption == Scripts \subseteq DOMAIN Steps

Child == Slots \X {1, 2}
None  == "none"
Idle  == [at |-> "idle", reason |-> None, seen |-> {}, overtaken |-> {}, earlier |-> {}]
Over  == [todo |-> <<>>, spawned |-> FALSE, runs |-> 0, children |-> 0]

VARIABLES
    world,       \* what devpod lists
    cmd,         \* each slot's command: the rest of its script, and its latch
    child,       \* the updaters; each knows which others had read the list before it
    json, bash,  \* what the two files say: one listing, or nothing
    age,         \* the age of json's mtime
    runs, faults,\* what has been spent of the bounds
    late         \* the files that an updater wrote after one that knew better

vars == <<world, cmd, child, json, bash, age, runs, faults, late>>

Init ==
    /\ world \in SUBSET Workspaces
    /\ cmd = [c \in Slots |-> Over]
    /\ child = [k \in Child |-> Idle]
    /\ json \in {{}, {world}} /\ bash = json
    /\ age \in IF json = {} THEN {TTL} ELSE {0, TTL}
    /\ runs = 0 /\ faults = 0 /\ late = {}

-----------------------------------------------------------------------------
(* The command.                                                            *)

\* completion_cache_is_fresh.
Fresh == json # {} /\ age < TTL

Next1(c, s) == cmd[c].todo # <<>> /\ Head(cmd[c].todo) = s
After(c)    == [cmd[c] EXCEPT !.todo = Tail(@)]

Fault == faults < MaxFaults /\ faults' = faults + 1

\* A bound: a slot is taken again when its updaters are done.
Begin(c, s) ==
    /\ cmd[c].todo = <<>> /\ child[c, 1] = Idle /\ child[c, 2] = Idle
    /\ runs' = runs + Cardinality({i \in DOMAIN Steps[s] : Steps[s][i] = "devpod"})
    /\ runs' <= MaxRuns
    /\ cmd' = [cmd EXCEPT ![c] = [Over EXCEPT !.todo = Steps[s]]]
    /\ UNCHANGED <<world, child, json, bash, age, faults, late>>

\* A workspace is made or deleted, or devpod refuses; a purge deletes them all.
RunDevpod(c) ==
    /\ Next1(c, "devpod")
    /\ world' \in IF "wipe" \in Range(cmd[c].todo) THEN {{}}
                  ELSE {world} \cup {world \cup {w} : w \in Workspaces}
                               \cup {world \ {w} : w \in Workspaces}
    /\ cmd' = [cmd EXCEPT ![c] = [After(c) EXCEPT !.runs = @ + 1]]
    /\ UNCHANGED <<child, json, bash, age, runs, faults, late>>

Spawn(c, reason) ==
    child' = [child EXCEPT ![<<c, cmd[c].children + 1>>] =
                  [Idle EXCEPT !.at = "check", !.reason = reason]]

\* Refresh::ask: nothing once the latch is set; an unforced one leaves the latch
\* alone while the cache is fresh; the latch is set before the spawn, and a
\* spawn that is refused leaves it set.
Ask(c, reason) ==
    /\ Next1(c, reason)
    /\ UNCHANGED <<world, json, bash, age, runs, late>>
    /\ \/ /\ cmd[c].spawned \/ (reason = "ifStale" /\ Fresh)
          /\ cmd' = [cmd EXCEPT ![c] = After(c)] /\ UNCHANGED <<child, faults>>
       \/ /\ ~cmd[c].spawned /\ (reason = "ifStale" => ~Fresh)
          /\ \/ /\ Spawn(c, reason) /\ UNCHANGED faults
                /\ cmd' = [cmd EXCEPT ![c] = [After(c) EXCEPT !.spawned = TRUE,
                                                              !.children = @ + 1]]
             \/ /\ Fault /\ UNCHANGED child
                /\ cmd' = [cmd EXCEPT ![c] = [After(c) EXCEPT !.spawned = TRUE]]

\* Mutant: a second change earns no second updater.
RearmNothing(c) ==
    /\ Next1(c, "rearm")
    /\ cmd' = [cmd EXCEPT ![c] = After(c)]
    /\ UNCHANGED <<world, child, json, bash, age, runs, faults, late>>

\* Refresh::rearm, between the two changes of one command.
Rearm(c) ==
    /\ Next1(c, "rearm")
    /\ cmd' = [cmd EXCEPT ![c] = [After(c) EXCEPT !.spawned = FALSE]]
    /\ UNCHANGED <<world, child, json, bash, age, runs, faults, late>>

\* `dl --refresh` and `--install`, and a `--completion-data` that found no cache:
\* the command is its own updater.
RefreshHere(c) ==
    /\ Next1(c, "here")
    /\ Spawn(c, "forced")
    /\ cmd' = [cmd EXCEPT ![c] = [After(c) EXCEPT !.children = 1]]
    /\ UNCHANGED <<world, json, bash, age, runs, faults, late>>

\* The updaters that have read the list; and one is now behind what is on disk.
Listed == {k \in Child : child[k].at \in {"json", "bash", "sweep"}}
Overtake(S, files) ==
    [k \in Child |-> IF k \in S THEN [child[k] EXCEPT !.overtaken = @ \cup files]
                               ELSE child[k]]

\* purge_all_data removes the cache directory, under the feet of any updater.
Wipe(c) ==
    /\ Next1(c, "wipe")
    /\ json' = {} /\ bash' = {} /\ age' = TTL
    /\ child' = Overtake(Listed, {"json", "bash"})
    /\ cmd' = [cmd EXCEPT ![c] = After(c)]
    /\ UNCHANGED <<world, runs, faults, late>>

\* A command that is killed asks for nothing more.
KillCommand(c) ==
    /\ cmd[c].todo # <<>> /\ Fault
    /\ cmd' = [cmd EXCEPT ![c] = Over]
    /\ UNCHANGED <<world, child, json, bash, age, runs, late>>

-----------------------------------------------------------------------------
(* The updater.                                                            *)

Go(k, at, to) == child[k].at = at /\ child' = [child EXCEPT ![k].at = to]
Done(k)       ==
    child' = [j \in Child |-> IF j = k THEN Idle
                             ELSE [child[j] EXCEPT !.earlier = @ \ {k}]]
Reads(k, what) ==
    child' = [child EXCEPT ![k] = [@ EXCEPT !.at = "json", !.seen = what,
                                            !.earlier = Listed]]

\* child_work.
Check(k) ==
    /\ child[k].at = "check"
    /\ IF child[k].reason = "ifStale" /\ Fresh
       THEN Done(k)
       ELSE Go(k, "check", "list")
    /\ UNCHANGED <<world, cmd, json, bash, age, runs, faults, late>>

\* refresh_cache and update_completion_cache ask the command's snapshot.  A list
\* that cannot be read is asked for again, and then costs the names; a devpod
\* that does not run costs the whole write.
List(k) ==
    /\ child[k].at = "list"
    /\ Reads(k, world)
    /\ UNCHANGED <<world, cmd, json, bash, age, runs, faults, late>>

ListRefused(k) ==
    /\ child[k].at = "list" /\ Fault
    /\ Reads(k, {}) \/ Done(k)
    /\ UNCHANGED <<world, cmd, json, bash, age, runs, late>>

Written(k, file, to) ==
    /\ child[k].at = file
    /\ child' = [Overtake(child[k].earlier, {file}) EXCEPT ![k].at = to]
    /\ late' = IF file \in child[k].overtaken THEN late \cup {file} ELSE late \ {file}

\* write_completion_cache: staged under the pid's own name and renamed, so the
\* mtime is that of a whole file.
WriteJson(k) ==
    /\ Written(k, "json", "bash")
    /\ json' = {child[k].seen} /\ age' = 0
    /\ UNCHANGED <<world, cmd, bash, runs, faults>>

\* Mutant: only the copy with the clock is written.
WriteBashNever(k) ==
    /\ Written(k, "bash", "sweep")
    /\ UNCHANGED <<world, cmd, json, bash, age, runs, faults>>

\* write_bash_completion_cache, whatever became of the first.
WriteBash(k) ==
    /\ Written(k, "bash", "sweep")
    /\ bash' = {child[k].seen}
    /\ UNCHANGED <<world, cmd, json, age, runs, faults>>

WriteRefused(k) ==
    /\ Fault
    /\ Go(k, "json", "bash") \/ Go(k, "bash", "sweep")
    /\ UNCHANGED <<world, cmd, json, bash, age, runs, late>>

\* The fetch sweep, which the module RepoCache takes apart.
Sweep(k) ==
    /\ child[k].at = "sweep" /\ Done(k)
    /\ UNCHANGED <<world, cmd, json, bash, age, runs, faults, late>>

KillChild(k) ==
    /\ child[k] # Idle /\ Fault /\ Done(k)
    /\ UNCHANGED <<world, cmd, json, bash, age, runs, late>>

Tick ==
    /\ age < TTL /\ age' = age + 1
    /\ UNCHANGED <<world, cmd, child, json, bash, runs, faults, late>>

Command(c) == \/ RunDevpod(c) \/ Rearm(c) \/ RefreshHere(c) \/ Wipe(c)
              \/ \E r \in {"ifStale", "forced"} : Ask(c, r)
Updater(k) == Check(k) \/ List(k) \/ WriteJson(k) \/ WriteBash(k) \/ Sweep(k)

Next ==
    \/ \E c \in Slots : Command(c) \/ KillCommand(c) \/ \E s \in Scripts : Begin(c, s)
    \/ \E k \in Child : Updater(k) \/ ListRefused(k) \/ WriteRefused(k) \/ KillChild(k)
    \/ Tick

\* Commands and updaters run to their end unless they are killed; time passes.
\* Nobody has to start a command.
Fairness ==
    /\ \A c \in Slots : WF_vars(Command(c))
    /\ \A k \in Child : WF_vars(Updater(k))
    /\ WF_vars(Tick)

Spec == Init /\ [][Next]_vars /\ Fairness

-----------------------------------------------------------------------------
(* Properties.                                                             *)

Says == {{}} \cup {{says} : says \in SUBSET Workspaces}

TypeOK ==
    /\ world \subseteq Workspaces
    /\ \A c \in Slots : /\ cmd[c].spawned \in BOOLEAN /\ cmd[c].runs \in 0..2
                        /\ cmd[c].children \in 0..2
    /\ \A k \in Child : /\ child[k].at \in {"idle", "check", "list", "json", "bash", "sweep"}
                        /\ child[k].reason \in {None, "ifStale", "forced"}
                        /\ child[k].seen \subseteq Workspaces
                        /\ child[k].earlier \subseteq Listed \ {k}
    /\ json \in Says /\ bash \in Says /\ age \in 0..TTL
    /\ runs \in 0..MaxRuns /\ faults \in 0..MaxFaults /\ late \subseteq {"json", "bash"}

Quiet == \A c \in Slots : cmd[c].todo = <<>> /\ child[c, 1] = Idle /\ child[c, 2] = Idle

Right(file) == file \in {{}, {world}}

\* When every command and updater has ended and nothing failed, a file that is
\* there says what devpod lists, unless updaters of overlapping runs wrote it out
\* of order: the latch, the re-arming and the passing on of --force lose no change
\* (Refresh::ask, rearm, refresh_child, child_work).
WrongForAReason ==
    Quiet /\ faults = 0 => /\ Right(json) \/ "json" \in late
                           /\ Right(bash) \/ "bash" \in late

\* One command, one updater, and one more for each further change it makes: the
\* "double spawn the latch exists to prevent".
OneUpdaterPerChange ==
    \A c \in Slots : cmd[c].children <= (IF cmd[c].runs > 1 THEN cmd[c].runs ELSE 1)

\* All that is said of the updaters at once.
RefreshSafe == TypeOK /\ WrongForAReason /\ OneUpdaterPerChange

\* Whatever went wrong and in whatever order updaters wrote, a cache that is read
\* again and again ends up saying what devpod lists, and stays right: a stale file
\* turns old, and the next reader's updater replaces it.
Reading == \E c \in Slots : Next1(c, "ifStale")
CacheCatchesUp == []<>Reading => <>[](json = {world} /\ bash = {world})
=============================================================================
