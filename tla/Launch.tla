------------------------------- MODULE Launch -------------------------------
(***************************************************************************)
(* Concurrent launches of one workspace (flows/launch.rs), the setup pass  *)
(* each may run (flows/provision.rs) and the host's memory of past passes  *)
(* (flows/provision/verdict_cache.rs).                                     *)
(*                                                                         *)
(* A launch reads devpod's status once, when it is placed.  A running      *)
(* workspace is attached to without any lock; everything else goes through *)
(* the per-workspace launch lock, which covers the re-check a queued       *)
(* launch makes, `devpod up` and the pass that lends the tools.  What the  *)
(* host remembers of a pass is a file stamped with the mtime of devpod's   *)
(* workspace_result.json, read before the pass began.                      *)
(*                                                                         *)
(* The launch lock is the atomic lock of LockSpec, which FileLock is shown *)
(* to implement.  devpod is external: its records, its container and its   *)
(* own flock are modelled as launch.rs and verdict_cache.rs use them.      *)
(***************************************************************************)
EXTENDS Naturals

CONSTANTS
    Process,      \* the dl processes that launch this workspace
    Nobody,       \* the holder of a free lock
    Orphan,       \* a `devpod up` whose dl was killed
    Foreign,      \* a `devpod up` dl did not run: VS Code's, a hand-typed one
    Verbs,        \* the verbs launched with
    MaxLaunches,  \* launches begun in all
    MaxForeign,   \* ups dl did not run
    MaxCrashes,   \* launches killed or interrupted
    TripsFail,    \* whether a trip into a running container may fail
    LockFails     \* whether the lock file may be impossible to open

Verb == {"attach", "up", "restart", "rebuild", "code", "dotfiles"}

ASSUME HoldersAssumption ==
    /\ {Nobody, Orphan, Foreign} \cap Process = {}
    /\ Nobody # Orphan /\ Nobody # Foreign /\ Orphan # Foreign
ASSUME VerbsAssumption   == Verbs \subseteq Verb
ASSUME BoundsAssumption  ==
    MaxLaunches \in Nat /\ MaxForeign \in Nat /\ MaxCrashes \in Nat
ASSUME SwitchAssumption  == TripsFail \in BOOLEAN /\ LockFails \in BOOLEAN

VARIABLES
    \* devpod's side
    container,    \* what `devpod status` answers
    record,       \* whether workspace.json is there
    result,       \* the stamp of workspace_result.json, 0 when it is not there
    tools,        \* whether the standing container has the tools
    fresh,        \* the standing container's own `up` has not completed
    devpod,       \* who holds devpod's flock on the workspace
    \* the host's side
    lock,         \* who holds the launch lock
    marker,       \* the stamp of the remembered verdict, 0 when there is none
    memo,         \* the stamp of the Claude memo
    inFlight,     \* the stamp of the record of a running pass
    \* the launches
    pc, my,       \* the step each is at, and what it carries down
    \* history and bounds
    begun, ended, \* a pass over the current result began; one got through
    launches, foreigns, crashes

devpodVars == <<container, record, result, tools, fresh, devpod>>
hostVars   == <<lock, marker, memo, inFlight>>
history    == <<begun, ended>>
counts     == <<launches, foreigns, crashes>>
vars       == <<devpodVars, hostVars, pc, my, history, counts>>

Step == {"idle", "placed", "warm", "stop", "serialize", "queued", "recheck",
         "up", "upping", "topup", "observe", "begin", "probe", "note", "lend",
         "close", "attach", "session"}
Place == {"running", "notRunning", "listed", "creating"}
Found == {"none", "provisioned", "absent", "refused"}
Stamp == Nat       \* one more for each completed up: no two share an mtime
Mine  == [verb : Verb, more : BOOLEAN, place : Place, obs : Stamp, found : Found]

Untold == [verb |-> "attach", more |-> FALSE, place |-> "creating",
           obs |-> 0, found |-> "none"]

\* The steps of up_under_stage the guard of the launch lock is alive in.
Section == {"recheck", "up", "upping", "topup", "observe", "begin", "probe",
            "note", "lend", "close"}

\* Types, and the lock is only ever held by a launch that is inside.
TypeOK ==
    /\ container \in {"Absent", "Stopped", "Running"}
    /\ record \in BOOLEAN /\ tools \in BOOLEAN /\ fresh \in BOOLEAN
    /\ result \in Stamp /\ marker \in Stamp /\ memo \in Stamp /\ inFlight \in Stamp
    /\ devpod \in Process \cup {Nobody, Orphan, Foreign}
    /\ lock \in Process \cup {Nobody}
    /\ pc \in [Process -> Step]
    /\ my \in [Process -> Mine]
    /\ begun \in BOOLEAN /\ ended \in BOOLEAN
    /\ launches \in 0 .. MaxLaunches
    /\ foreigns \in 0 .. MaxForeign
    /\ crashes \in 0 .. MaxCrashes
    /\ lock # Nobody => pc[lock] \in Section

-----------------------------------------------------------------------------
(***************************************************************************)
(* What the records say.                                                   *)
(***************************************************************************)

\* create_record = NeverCompleted: a record, and no result beside it.
NeverCompleted == record /\ result = 0

\* A mutant: that there is a verdict is enough.
TrustedUnstamped == result # 0 /\ marker # 0 /\ memo # 0

\* VerdictCache::trusted and has_claude_memo: both stamps are the result's.
Trusted == result # 0 /\ marker = result /\ memo = result

\* VerdictCache::pass_never_finished.
PassNeverFinished == result # 0 /\ inFlight = result

\* run_dotfiles is the one caller that brings up a known workspace unnamed.
Anonymous(p) == my[p].verb = "dotfiles" /\ my[p].place # "creating"

\* An IDE, a rebuild, a devcontainer or a GPU is asked for.
WantsMore(p) == my[p].more \/ my[p].verb \in {"rebuild", "code"}

Attaches(p) == my[p].verb \in {"attach", "restart", "rebuild", "dotfiles"}

Goto(p, step) == pc' = [pc EXCEPT ![p] = step]

\* Dropping the Serialization, which closes the descriptor, if this launch has it.
Unlock(p) == lock' = IF lock = p THEN Nobody ELSE lock

\* The command is over: nothing it read is carried into the next one.
End(p) ==
    /\ Goto(p, "idle")
    /\ my' = [my EXCEPT ![p] = Untold]

\* The pass is over, the lock goes, and the verb attaches or is done.
AfterPass(p) ==
    /\ Unlock(p)
    /\ IF Attaches(p) THEN Goto(p, "attach") /\ UNCHANGED my ELSE End(p)

-----------------------------------------------------------------------------
(***************************************************************************)
(* devpod.                                                                 *)
(***************************************************************************)

\* An `up` begins: it writes workspace.json on its way in, and starts the
\* container, which is a new one when there was none or a rebuild was asked.
Building(owner, rebuild) ==
    LET replaced == rebuild \/ container = "Absent"
    IN  /\ devpod = Nobody
        /\ devpod' = owner
        /\ record' = TRUE
        /\ container' = "Running"
        /\ tools' = (tools /\ ~replaced)
        /\ fresh' = (fresh \/ replaced)
        /\ UNCHANGED result

\* An `up` completes: it rewrites workspace_result.json on its way out.
Built ==
    /\ devpod' = Nobody
    /\ result' = result + 1
    /\ fresh' = FALSE
    /\ begun' = FALSE
    /\ ended' = FALSE
    /\ UNCHANGED <<container, record, tools>>

\* An `up` ends without completing: a hook failed, or it was killed.
Broken(owner) ==
    /\ devpod' = owner
    /\ UNCHANGED <<container, record, result, tools, fresh, history>>

-----------------------------------------------------------------------------
(***************************************************************************)
(* A launch: from the spec to the session.                                 *)
(***************************************************************************)

\* place_existing, place_triple and place_creatable: devpod is asked for the
\* state, or lists what it cannot describe, or has not been asked at all.
BeginLaunch(p, verb, more, place) ==
    /\ pc[p] = "idle"
    /\ launches < MaxLaunches
    /\ place = "running"           => record /\ container = "Running"
    /\ place = "notRunning"        => record /\ container # "Running"
    /\ place = "listed"            => record
    /\ more                        => verb \in Verbs \ {"rebuild", "code"}
    /\ launches' = launches + 1
    /\ my' = [my EXCEPT ![p] = [verb |-> verb, more |-> more, place |-> place,
                                obs |-> 0, found |-> "none"]]
    /\ Goto(p, "placed")
    /\ UNCHANGED <<devpodVars, hostVars, history, foreigns, crashes>>

\* run_attach and run_up_verb, of a workspace placed as running whose create
\* completed or cannot be asked about: no lock.  `up` tops the tools up, an
\* attach only where a pass over this container was cut short.
FastPath(p) ==
    /\ pc[p] = "placed"
    /\ my[p].verb \in {"attach", "up"}
    /\ my[p].place = "running"
    /\ ~NeverCompleted
    /\ Goto(p, IF my[p].verb = "up" THEN "topup" ELSE "warm")
    /\ UNCHANGED <<devpodVars, hostVars, my, history, counts>>

FinishTheInterruptedPass(p) ==
    /\ pc[p] = "warm"
    /\ Goto(p, IF PassNeverFinished THEN "topup" ELSE "attach")
    /\ UNCHANGED <<devpodVars, hostVars, my, history, counts>>

\* Every other launch brings the workspace up: bring_up.
BringUp(p) ==
    /\ pc[p] = "placed"
    /\ \/ my[p].verb \in {"rebuild", "code"}
       \/ /\ my[p].verb \in {"attach", "up"}
          /\ my[p].place # "running" \/ NeverCompleted
    /\ Goto(p, "serialize")
    /\ UNCHANGED <<devpodVars, hostVars, my, history, counts>>

\* run_restart: `devpod stop` first, holding nothing of dl's.
Restart(p) ==
    /\ pc[p] = "placed"
    /\ my[p].verb = "restart"
    /\ Goto(p, "stop")
    /\ UNCHANGED <<devpodVars, hostVars, my, history, counts>>

Stop(p) ==
    /\ pc[p] = "stop"
    /\ devpod = Nobody
    /\ \/ /\ container' = IF container = "Running" THEN "Stopped" ELSE container
          /\ Goto(p, "serialize")
          /\ UNCHANGED my
       \/ End(p) /\ UNCHANGED container
    /\ UNCHANGED <<record, result, tools, fresh, devpod, hostVars, history, counts>>

\* run_dotfiles asks for the state again, and goes by nothing else.  Of a
\* workspace devpod knows its `up` names nothing, so there is no lock to take.
Dotfiles(p) ==
    /\ pc[p] = "placed"
    /\ my[p].verb = "dotfiles"
    /\ Goto(p, IF container = "Running" THEN "attach"
               ELSE IF Anonymous(p) THEN "up" ELSE "serialize")
    /\ UNCHANGED <<devpodVars, hostVars, my, history, counts>>

-----------------------------------------------------------------------------
(***************************************************************************)
(* serialize_launch and up_under_stage.                                    *)
(***************************************************************************)

\* Contention::WalkedIn: nobody had it, and what was read earlier is used.
WalkIn(p) ==
    /\ pc[p] = "serialize"
    /\ lock = Nobody
    /\ lock' = p
    /\ Goto(p, "up")
    /\ UNCHANGED <<devpodVars, marker, memo, inFlight, my, history, counts>>

\* Contention::Queued: blocked behind a sibling ...
Queue(p) ==
    /\ pc[p] = "serialize"
    /\ lock # Nobody
    /\ Goto(p, "queued")
    /\ UNCHANGED <<devpodVars, hostVars, my, history, counts>>

\* ... which has let go.
Wake(p) ==
    /\ pc[p] = "queued"
    /\ lock = Nobody
    /\ lock' = p
    /\ Goto(p, "recheck")
    /\ UNCHANGED <<devpodVars, marker, memo, inFlight, my, history, counts>>

\* Serialization::Unavailable: the lock file would not open.
LockUnavailable(p) ==
    /\ pc[p] = "serialize"
    /\ LockFails
    /\ Goto(p, "up")
    /\ UNCHANGED <<devpodVars, hostVars, my, history, counts>>

\* A mutant: the re-check goes by the status alone.
RecheckTrustsStatus(p) ==
    /\ pc[p] = "recheck"
    /\ Goto(p, IF ~WantsMore(p) /\ container = "Running" THEN "topup" ELSE "up")
    /\ UNCHANGED <<devpodVars, hostVars, my, history, counts>>

\* What only a launch that waited asks: did the sibling do it?  If it did, the
\* `up` is skipped (SkippedSiblingWon) and the tools are topped up.
Recheck(p) ==
    /\ pc[p] = "recheck"
    /\ Goto(p, IF ~WantsMore(p) /\ container = "Running" /\ ~NeverCompleted
               THEN "topup" ELSE "up")
    /\ UNCHANGED <<devpodVars, hostVars, my, history, counts>>

UpStarts(p) ==
    /\ pc[p] = "up"
    /\ Building(p, my[p].verb = "rebuild")
    /\ Goto(p, "upping")
    /\ UNCHANGED <<hostVars, my, history, counts>>

\* devpod says it is blocked: release_the_lock kills the orphans in the way.
\* A holder whose dl or editor lives is waited for.
SweepOrphans(p) ==
    /\ pc[p] = "up"
    /\ devpod = Orphan
    /\ Broken(Nobody)
    /\ UNCHANGED <<hostVars, pc, my, counts>>

\* Success: a named workspace gets its pass, PassOccasion::AfterUp, which
\* always travels; an unnamed one gets none.
UpSucceeds(p) ==
    /\ pc[p] = "upping"
    /\ Built
    /\ IF Anonymous(p)
       THEN Goto(p, "attach") /\ Unlock(p)
       ELSE Goto(p, "observe") /\ UNCHANGED lock
    /\ UNCHANGED <<marker, memo, inFlight, my, counts>>

\* A mutant: the refusal returns and the lock stays held.
UpRefusedKeepsLock(p) ==
    /\ \/ pc[p] = "up" /\ Broken(devpod)
       \/ pc[p] = "upping" /\ Broken(Nobody)
    /\ End(p)
    /\ UNCHANGED <<hostVars, counts>>

\* UpOutcome::Refused: before devpod did anything, its lock included, or with the
\* container already up and a hook that failed.  Returning drops the guard.
UpRefused(p) ==
    /\ \/ pc[p] = "up" /\ Broken(devpod)
       \/ pc[p] = "upping" /\ Broken(Nobody)
    /\ Unlock(p)
    /\ End(p)
    /\ UNCHANGED <<marker, memo, inFlight, counts>>

-----------------------------------------------------------------------------
(***************************************************************************)
(* The setup pass: provision and run_the_pass.                             *)
(***************************************************************************)

\* PassOccasion::TopUp: a verdict that still describes the container saves the
\* trip, and closes whatever a killed launch left open.
TopUp(p) ==
    /\ pc[p] = "topup"
    /\ IF Trusted
       THEN my' = [my EXCEPT ![p].obs = result] /\ Goto(p, "close")
       ELSE Goto(p, "observe") /\ UNCHANGED my
    /\ UNCHANGED <<devpodVars, hostVars, history, counts>>

\* VerdictCache::observe: which container the pass is about, before it runs.
Observe(p) ==
    /\ pc[p] = "observe"
    /\ my' = [my EXCEPT ![p].obs = result]
    /\ Goto(p, "begin")
    /\ UNCHANGED <<devpodVars, hostVars, history, counts>>

\* VerdictCache::begin_pass, where there is a container to name.
BeginPass(p) ==
    /\ pc[p] = "begin"
    /\ inFlight' = IF my[p].obs # 0 THEN my[p].obs ELSE inFlight
    /\ begun' = (begun \/ (my[p].obs # 0 /\ my[p].obs = result))
    /\ Goto(p, "probe")
    /\ UNCHANGED <<devpodVars, lock, marker, memo, my, ended, counts>>

\* setup_pass: one trip into whatever container stands now.  A trip that does
\* not get through reads as absent; one the OS will not make is a refusal.
Probe(p) ==
    /\ pc[p] = "probe"
    /\ \E found \in Found \ {"none"} :
        /\ found = "provisioned" => container = "Running" /\ tools
        /\ found = "absent" => container # "Running" \/ ~tools \/ TripsFail
        /\ found = "refused" => TripsFail
        /\ my' = [my EXCEPT ![p].found = found]
    /\ Goto(p, "note")
    /\ UNCHANGED <<devpodVars, hostVars, history, counts>>

\* A mutant: the stamp is read when the verdict is written.
NoteReadsLate(p) ==
    /\ pc[p] = "note"
    /\ memo' = IF result # 0 THEN result ELSE memo
    /\ marker' = IF my[p].found = "provisioned" THEN result ELSE marker
    /\ IF my[p].found = "refused"
       THEN AfterPass(p)
       ELSE /\ Goto(p, IF my[p].found = "provisioned" THEN "close" ELSE "lend")
            /\ UNCHANGED <<lock, my>>
    /\ UNCHANGED <<devpodVars, inFlight, history, counts>>

\* A mutant: the record of the pass is closed when the probe has answered.
NoteClosesRecord(p) ==
    /\ pc[p] = "note"
    /\ memo' = IF my[p].obs # 0 THEN my[p].obs ELSE memo
    /\ marker' = IF my[p].found = "provisioned" /\ my[p].obs # 0
                 THEN my[p].obs ELSE marker
    /\ inFlight' = 0
    /\ IF my[p].found = "refused"
       THEN AfterPass(p)
       ELSE /\ Goto(p, IF my[p].found = "provisioned" THEN "close" ELSE "lend")
            /\ UNCHANGED <<lock, my>>
    /\ UNCHANGED <<devpodVars, history, counts>>

\* remember_claude after every probe, record after one that found the tools;
\* both under the stamp observed before the pass.  A refused trip ends the
\* pass and leaves its record standing.
Note(p) ==
    /\ pc[p] = "note"
    /\ memo' = IF my[p].obs # 0 THEN my[p].obs ELSE memo
    /\ marker' = IF my[p].found = "provisioned" /\ my[p].obs # 0
                 THEN my[p].obs ELSE marker
    /\ IF my[p].found = "refused"
       THEN AfterPass(p)
       ELSE /\ Goto(p, IF my[p].found = "provisioned" THEN "close" ELSE "lend")
            /\ UNCHANGED <<lock, my>>
    /\ UNCHANGED <<devpodVars, inFlight, history, counts>>

\* The host lends its binaries or the network installs them.  Trips into a
\* container that is not running bring nothing; a refused one ends the pass.
Lend(p) ==
    /\ pc[p] = "lend"
    /\ \/ /\ container = "Running"
          /\ tools' = TRUE
          /\ Goto(p, "close")
          /\ UNCHANGED <<lock, my>>
       \/ /\ container # "Running" \/ TripsFail
          /\ Goto(p, "close")
          /\ UNCHANGED <<tools, lock, my>>
       \/ /\ TripsFail
          /\ AfterPass(p)
          /\ UNCHANGED tools
    /\ UNCHANGED <<container, record, result, fresh, devpod, marker, memo,
                   inFlight, history, counts>>

\* end_pass: the record goes, whichever pass wrote it.
Close(p) ==
    /\ pc[p] = "close"
    /\ inFlight' = 0
    /\ ended' = (ended \/ (my[p].obs # 0 /\ my[p].obs = result))
    /\ AfterPass(p)
    /\ UNCHANGED <<devpodVars, marker, memo, begun, counts>>

-----------------------------------------------------------------------------
(***************************************************************************)
(* Sessions, and what happens to launches.                                 *)
(***************************************************************************)

\* attach_workspace: the session opens, or devpod refuses it.
Attach(p) ==
    /\ pc[p] = "attach"
    /\ \/ Goto(p, "session") /\ UNCHANGED my
       \/ End(p)
    /\ UNCHANGED <<devpodVars, hostVars, history, counts>>

Leave(p) ==
    /\ pc[p] = "session"
    /\ End(p)
    /\ UNCHANGED <<devpodVars, hostVars, history, counts>>

\* An interrupted dl takes the process group of its `up` with it; a killed one
\* leaves it an orphan.  Either way the kernel closes the lock's descriptor.
Crash(p) ==
    /\ pc[p] \notin {"idle", "session"}
    /\ crashes < MaxCrashes
    /\ crashes' = crashes + 1
    /\ Unlock(p)
    /\ End(p)
    /\ \/ Broken(IF devpod = p THEN Nobody ELSE devpod)
       \/ devpod = p /\ Broken(Orphan)
    /\ UNCHANGED <<marker, memo, inFlight, launches, foreigns>>

\* An `up` dl did not run begins.
ForeignUp ==
    /\ foreigns < MaxForeign
    /\ foreigns' = foreigns + 1
    /\ \E rebuild \in BOOLEAN : Building(Foreign, rebuild)
    /\ UNCHANGED <<hostVars, pc, my, history, launches, crashes>>

\* An `up` without a dl ends, one way or the other.
UnattendedUpEnds ==
    /\ devpod \in {Orphan, Foreign}
    /\ Built \/ Broken(Nobody)
    /\ UNCHANGED <<hostVars, pc, my, counts>>

-----------------------------------------------------------------------------

\* Nothing yet, or a workspace an earlier launch brought up and provisioned,
\* with or without a memory of it.
Init ==
    /\ \/ /\ container = "Absent" /\ result = 0
          /\ record = FALSE /\ tools = FALSE
          /\ marker = 0
       \/ /\ container \in {"Stopped", "Running"} /\ result = 1
          /\ record = TRUE /\ tools = TRUE
          /\ marker \in {0, 1}
    /\ memo = marker /\ inFlight = 0
    /\ fresh = FALSE
    /\ devpod = Nobody /\ lock = Nobody
    /\ pc = [p \in Process |-> "idle"]
    /\ my = [p \in Process |-> Untold]
    /\ begun = FALSE /\ ended = FALSE
    /\ launches = 0 /\ foreigns = 0 /\ crashes = 0

\* What a launch does by itself, once begun and until its session.
Advance(p) ==
    \/ FastPath(p) \/ FinishTheInterruptedPass(p) \/ BringUp(p)
    \/ Restart(p) \/ Stop(p) \/ Dotfiles(p)
    \/ WalkIn(p) \/ Queue(p) \/ Wake(p) \/ LockUnavailable(p) \/ Recheck(p)
    \/ UpStarts(p) \/ SweepOrphans(p) \/ UpSucceeds(p) \/ UpRefused(p)
    \/ TopUp(p) \/ Observe(p) \/ BeginPass(p) \/ Probe(p) \/ Note(p)
    \/ Lend(p) \/ Close(p) \/ Attach(p)

Next ==
    \/ \E p \in Process :
        \/ \E verb \in Verbs, more \in BOOLEAN, place \in Place :
               BeginLaunch(p, verb, more, place)
        \/ Advance(p)
        \/ Leave(p)
        \/ Crash(p)
    \/ ForeignUp
    \/ UnattendedUpEnds

Spec == Init /\ [][Next]_vars

\* Behind a devpod that lives, an `up` waits: that devpod may refuse it meanwhile
\* (UpRefused) is nothing to count on.
Blocked(p) == pc[p] = "up" /\ devpod \notin {Nobody, Orphan}

\* A launch takes its next step, and devpod's `up` ends by itself.  No fairness
\* on beginning a launch, leaving a session, crashing, or a foreign `up`.
Fairness ==
    /\ \A p \in Process : WF_vars(Advance(p) /\ ~Blocked(p))
    /\ WF_vars(UnattendedUpEnds)

FairSpec == Spec /\ Fairness

-----------------------------------------------------------------------------
(***************************************************************************)
(* Properties.                                                             *)
(***************************************************************************)

\* A verdict the next top-up would trust is about a container that has the
\* tools, once that container's own `up` has completed: whatever passes,
\* rebuilds and foreign ups overlapped, a stale verdict carries a stale stamp
\* (VerdictCache::trusted against observe and record).
TrustIsEarned == Trusted /\ ~fresh => tools

\* No session opens in a container whose create never completed, though devpod
\* calls it Running and the sibling that left it so may have been waited for
\* (create_record, asked at the fast attach and again behind the lock).
AttachedIsCompleted ==
    \A p \in Process :
        pc[p] = "session" /\ my[p].verb # "dotfiles" => result # 0

\* A launch about to let go of the launch lock, after a pass over the container
\* standing now, leaves it with its tools in: whether the launch ran the `up`
\* itself or a sibling it waited for did, and whichever of them was killed.  What
\* up_under_stage holds the lock across the pass for.  A `restart` stops the
\* container under a sibling's pass without the lock, so this is more than the
\* pass's own doing.
ToolsLand ==
    \A p \in Process :
        /\ lock = p /\ pc[p] = "close" /\ my[p].obs = result
        /\ container = "Running" /\ ~fresh
        => tools

\* From the moment a pass over the container standing now begins until one gets
\* through, its record is there: wherever it is killed, the next attach finds it
\* (begin_pass, end_pass, pass_never_finished).
CutShortIsRecorded == result # 0 /\ begun /\ ~ended => inFlight = result

\* A verdict that would be trusted is about a container that has the tools,
\* whoever rebuilt it: what the docs say of a rebuilt container.
TrustedHasTools == Trusted /\ devpod = Nobody => tools

\* Every launch gets as far as its session or its end: nobody waits forever on
\* the launch lock or on devpod's.
LaunchesEnd ==
    \A p \in Process :
        pc[p] \notin {"idle", "session"} ~> pc[p] \in {"idle", "session"}
=============================================================================
