-------------------------------- MODULE Kill --------------------------------
(***************************************************************************)
(* The sweep of a workspace's holders (flows/kill.rs): `dl <ws> kill`, and *)
(* the release a blocked launch does of itself.                            *)
(*                                                                         *)
(* devpod holds one flock per workspace for a build.  A build whose dl has *)
(* died goes on holding it, as init's child; every later one blocks.  The  *)
(* sweep reads the process table, asks the orphans to end, reads again,    *)
(* makes them, and reads a last time.  The host does not stand still: a    *)
(* dl may die, a build end or start, and a pid be given to a stranger      *)
(* between any reading and what is done about it.                          *)
(***************************************************************************)
EXTENDS Naturals, FiniteSets

CONSTANTS
    Pids,       \* the pids of the other devpods of this workspace
    Own,        \* the pid of the sweeping launch's own `up`
    Verb,       \* "kill" or "release"
    MaxMoves,   \* a bound: what the host does beside the sweep
    MaxFaults   \* a bound: refusals of ps

\* What the constants have to satisfy: the modules that take instances assume it.
VerbAssumption == Verb \in {"kill", "release"} /\ Own \notin Pids
BoundsAssumption == MaxMoves \in Nat /\ MaxFaults \in Nat

All     == Pids \cup {Own}
Nobody  == "nobody"
NobodyAssumption == Nobody \notin All
Unborn  == [what |-> "unborn", parent |-> "none", will |-> "none"]
Gone    == [Unborn EXCEPT !.what = "gone"]
\* A recycled pid: a process that is not devpod, or not of this workspace.
Stranger == [Unborn EXCEPT !.what = "stranger"]

VARIABLES
    proc,       \* what each pid is: its subcommand, its parent, and its mettle
    flock, busy, container,  \* devpod's lock, its busy marker, the container
    deleted,    \* devpod delete was run for the workspace
    pc,         \* the sweep
    reading,    \* the holders of the last reading that succeeded
    remaining,  \* the orphans the escalation carries forward
    endings,    \* what became of those signalled
    since,      \* the pids that changed hands since the last successful reading
    struck,     \* who was signalled, with what, and what it was
    moves, faults

host  == <<proc, flock, busy, container, moves>>
vars  == <<host, deleted, pc, reading, remaining, endings, since, struck, faults>>

Devpod(p)   == proc[p].what \in {"up", "ssh"}
Attended(p) == Devpod(p) /\ proc[p].parent \in {"dl", "self"}

Init ==
    /\ proc \in [All -> {Unborn} \cup [what : {"up", "ssh"}, parent : {"dl", "init"},
                                       will : {"yields", "clings", "untouchable"}]
                        \cup {[what |-> "up", parent |-> "self", will |-> "yields"]}]
    /\ \A p \in Pids : proc[p].parent # "self"
    /\ IF Verb = "kill" THEN proc[Own] = Unborn ELSE proc[Own].parent = "self"
    /\ flock \in {Nobody} \cup {p \in Pids : proc[p].what = "up"}
    /\ Verb = "release" => flock # Nobody
    /\ busy \in BOOLEAN /\ (flock # Nobody => busy)
    /\ container \in BOOLEAN
    /\ deleted = FALSE
    /\ pc = "look1" /\ reading = {} /\ remaining = {} /\ endings = {}
    /\ since = {} /\ struck = {} /\ moves = 0 /\ faults = 0

-----------------------------------------------------------------------------
(* The host, beside the sweep.                                             *)

Aside == UNCHANGED <<deleted, pc, reading, remaining, endings, struck, faults>>
Move  == moves < MaxMoves /\ moves' = moves + 1

\* Somebody else's launch.
StartBuild(p) ==
    /\ proc[p] = Unborn /\ p # Own /\ Move
    /\ proc' = [proc EXCEPT ![p] = [what |-> "up", parent |-> "dl", will |-> "yields"]]
    /\ since' = since \cup {p}
    /\ UNCHANGED <<flock, busy, container>> /\ Aside

\* The dl behind a devpod dies.
Orphan(p) ==
    /\ Devpod(p) /\ proc[p].parent = "dl" /\ Move
    /\ proc' = [proc EXCEPT ![p].parent = "init"]
    /\ UNCHANGED <<flock, busy, container, since>> /\ Aside

\* The kernel gives a free pid to somebody else.
Recycle(p) ==
    /\ proc[p] = Gone /\ Move
    /\ proc' = [proc EXCEPT ![p] = Stranger] /\ since' = since \cup {p}
    /\ UNCHANGED <<flock, busy, container>> /\ Aside

\* devpod's initLock, blocking; then the build.
TakeLock(p) ==
    /\ proc[p].what = "up" /\ flock = Nobody
    /\ flock' = p /\ busy' = TRUE /\ container' = TRUE
    /\ UNCHANGED <<proc, moves, since>> /\ Aside

\* A build that ends, or a session: the marker goes by a defer.
Exit(p) ==
    /\ flock = p \/ proc[p].what = "ssh"
    /\ proc' = [proc EXCEPT ![p] = Gone]
    /\ flock' = IF flock = p THEN Nobody ELSE flock
    /\ busy' = (busy /\ flock # p)
    /\ UNCHANGED <<container, moves, since>> /\ Aside

-----------------------------------------------------------------------------
(* The sweep.                                                              *)

Go(a, b) == pc = a /\ pc' = b

\* holders: every devpod naming the workspace but the caller's own children, and
\* whether anything is behind it.
Holders == {[pid |-> p, what |-> proc[p].what, orphan |-> proc[p].parent = "init"] :
                p \in {q \in All : Devpod(q) /\ proc[q].parent # "self"}}

\* orphaned, still_there: those asked before that are still there, by pid and
\* by command.
Narrowed(now) == {h \in remaining : \E n \in now : n.pid = h.pid /\ n.what = h.what}

Record(gone, how) == {[pid |-> h.pid, ending |-> how] : h \in gone}

\* Mutant: whatever names the workspace is an orphan.
FirstLookAll ==
    /\ pc = "look1"
    /\ \/ /\ reading' = Holders /\ since' = {} /\ remaining' = Holders
          /\ pc' = IF remaining' = {} THEN "after" ELSE "TERM"
          /\ UNCHANGED faults
       \/ /\ faults < MaxFaults /\ faults' = faults + 1 /\ pc' = "end"
          /\ UNCHANGED <<reading, since, remaining>>
    /\ UNCHANGED <<host, deleted, endings, struck>>

\* The first reading; without one nothing is done.
FirstLook ==
    /\ pc = "look1"
    /\ \/ /\ reading' = Holders /\ since' = {}
          /\ remaining' = {h \in Holders : h.orphan}
          /\ pc' = IF remaining' = {} THEN "after" ELSE "TERM"
          /\ UNCHANGED faults
       \/ /\ faults < MaxFaults /\ faults' = faults + 1 /\ pc' = "end"
          /\ UNCHANGED <<reading, since, remaining>>
    /\ UNCHANGED <<host, deleted, endings, struck>>

Heeds(p, sig) == \/ proc[p].will = "yields"
                 \/ (proc[p].will = "clings" /\ sig = "KILL")

\* kill: one call for all the pids.  SIGKILL runs no defer, so the marker stays.
Strike(sig, next) ==
    /\ Go(sig, next)
    /\ LET S    == {h.pid : h \in remaining}
           dead == {p \in S : Devpod(p) /\ Heeds(p, sig)}
       IN  /\ proc' = [p \in All |-> IF p \in dead THEN Gone ELSE proc[p]]
           /\ flock' = IF flock \in dead THEN Nobody ELSE flock
           /\ busy' = (busy /\ ~(flock \in dead /\ sig = "TERM"))
           /\ struck' = struck \cup
                 {[pid |-> p, sig |-> sig,
                   was |-> IF ~Devpod(p) THEN proc[p].what
                           ELSE IF Attended(p) THEN "attended" ELSE "orphan"] : p \in S}
    /\ UNCHANGED <<container, moves, deleted, reading, remaining, endings, since, faults>>

\* No kill on this host, or it will not start.
StrikeRefused ==
    /\ pc \in {"TERM", "KILL"} /\ faults < MaxFaults
    /\ faults' = faults + 1 /\ pc' = "end"
    /\ UNCHANGED <<host, deleted, reading, remaining, endings, since, struck>>

\* After the grace, the table again; a reading that fails leaves the last good
\* one standing.
LookAgain(at, how, next) ==
    /\ pc = at
    /\ \/ reading' = Holders /\ since' = {} /\ UNCHANGED faults
       \/ /\ faults < MaxFaults /\ faults' = faults + 1
          /\ UNCHANGED <<reading, since>>
    /\ remaining' = Narrowed(reading')
    /\ endings' = endings \cup Record(remaining \ remaining', how)
    /\ pc' = IF remaining' = {} THEN "after" ELSE next
    /\ UNCHANGED <<host, deleted, struck>>

\* What sat through every signal; and a release ends here.
Sum ==
    /\ pc = "after" /\ pc' = IF Verb = "kill" THEN "marker" ELSE "end"
    /\ endings' = endings \cup Record(remaining, "survived")
    /\ UNCHANGED <<host, deleted, reading, remaining, since, struck, faults>>

\* sweep_marker: only when nothing holds the workspace.
SweepMarker ==
    /\ Go("marker", "containers")
    /\ busy' = IF reading = {} THEN FALSE ELSE busy
    /\ UNCHANGED <<proc, flock, container, moves, deleted, reading, remaining, endings,
                   since, struck, faults>>

\* kill_containers: not while anybody is behind a holder.
KillContainers ==
    /\ Go("containers", "delete")
    /\ container' \in IF \E h \in reading : ~h.orphan THEN {container}
                      ELSE {container, FALSE}
    /\ UNCHANGED <<proc, flock, busy, moves, deleted, reading, remaining, endings,
                   since, struck, faults>>

\* blocks_a_delete: a build, or an orphan, is in a delete's way; a session is not.
Delete ==
    /\ Go("delete", "end")
    /\ deleted' = ~\E h \in reading : h.what = "up" \/ h.orphan
    /\ UNCHANGED <<host, reading, remaining, endings, since, struck, faults>>

Sweep == \/ FirstLook
         \/ Strike("TERM", "look2") \/ LookAgain("look2", "terminated", "KILL")
         \/ Strike("KILL", "look3") \/ LookAgain("look3", "killed", "after")
         \/ Sum \/ SweepMarker \/ KillContainers \/ Delete

Next ==
    \/ Sweep \/ StrikeRefused
    \/ \E p \in All : StartBuild(p) \/ Orphan(p) \/ Recycle(p) \/ TakeLock(p) \/ Exit(p)

\* The sweep goes on; devpod polls for its lock; a build somebody is behind ends.
\* An orphan may hold its lock for ever.
Fairness == /\ WF_vars(Sweep)
            /\ \A p \in All : WF_vars(TakeLock(p)) /\ WF_vars(Attended(p) /\ Exit(p))

Spec == Init /\ [][Next]_vars /\ Fairness

-----------------------------------------------------------------------------
(* What is reported (Release::freed).                                      *)

LetGo == {e \in endings : e.ending # "survived"}

Freed == IF LetGo # {} THEN IF reading = {} THEN "entirely" ELSE "partly"
         ELSE IF reading = {} THEN "free" ELSE "nothing"

-----------------------------------------------------------------------------
(* Properties.                                                             *)

TypeOK ==
    /\ proc \in [All -> [what : {"unborn", "gone", "stranger", "up", "ssh"},
                         parent : {"none", "dl", "init", "self"},
                         will : {"none", "yields", "clings", "untouchable"}]]
    /\ flock \in All \cup {Nobody} /\ (flock # Nobody => proc[flock].what = "up")
    /\ busy \in BOOLEAN /\ container \in BOOLEAN /\ deleted \in BOOLEAN
    /\ \A h \in reading \cup remaining : h.pid \in All /\ h.what \in {"up", "ssh"}
    /\ \A h \in remaining : h.orphan
    /\ since \subseteq All /\ moves \in 0..MaxMoves /\ faults \in 0..MaxFaults

\* No signal reaches a build or a session that somebody is behind, nor the sweeping
\* launch's own `up`; and a stranger only when its pid was given out after the last
\* reading (orphaned, Ours, still_there).
SparesTheAttended ==
    \A s \in struck : s.was \in {"orphan", "gone", "stranger"}

\* "SIGTERM, then SIGKILL": whatever is killed was asked first, and given its
\* grace (sweep_holders).
AskedBeforeForced ==
    \A s \in struck : s.sig = "KILL" => \E t \in struck : t.pid = s.pid /\ t.sig = "TERM"

\* "Nothing is left" is never said of a process that is there: not of one that is
\* reported ended, and not of a workspace reported free, unless it came after the
\* last reading (look, Signalled, Freed).
ReportIsTrue ==
    pc = "end" =>
        /\ \A e \in LetGo : ~Devpod(e.pid)
        /\ Freed = "entirely" =>
               \A p \in All : Devpod(p) => p \in since \/ proc[p].parent = "self"

\* The marker, the containers and the workspace are left to whatever the last
\* reading found alive: nothing that stood then loses its build to the sweep
\* (sweep_marker, kill_containers, blocks_a_delete).
LeftForTheLiving ==
    /\ busy /\ ~busy' /\ SweepMarker => flock \in since \cup {Nobody}
    /\ container /\ ~container' => \A p \in All : Attended(p) => p \in since
    /\ deleted' /\ ~deleted => \A p \in All : proc[p].what = "up" => p \in since

\* All that is said of a sweep at once, of its states and of its steps.
SweepHolds == TypeOK /\ SparesTheAttended /\ AskedBeforeForced /\ ReportIsTrue
KillSafe   == SweepHolds /\ LeftForTheLiving

\* What holds the workspace never includes the launch that waits for it, so "nothing
\* on this host holds it" can be reached (Ours::ChildrenOf).
OwnIsNoHolder == Verb = "release" => \A h \in reading : h.pid # Own

\* A launch is blocked behind orphans that can all be stopped; and one has been
\* made since, which the sweep, made once per launch, will not clear.
CanClear   == /\ pc = "TERM" /\ proc[Own].what = "up" /\ flock # Own
              /\ \A h \in remaining : proc[h.pid].will # "untouchable"
LateOrphan == \E p \in Pids : /\ proc[p].what = "up" /\ proc[p].parent = "init"
                              /\ \A s \in struck \cup remaining : s.pid # p
=============================================================================
