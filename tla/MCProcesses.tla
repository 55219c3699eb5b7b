----------------------------- MODULE MCProcesses ------------------------------
(***************************************************************************)
(* What runs beside a command: the runner's calls (Runner), the interrupt  *)
(* handler (Interrupt), the updaters of the completion cache (Refresh,     *)
(* twice: commands of every kind that race, and readers that keep coming   *)
(* while things fail), the shell a session manager's new pane runs         *)
(* (PaneShell), and the reporting of a session to the manager's pane       *)
(* (Reporting, twice: one pane, launch after launch, and several panes on  *)
(* one workspace). The machines share no state: each behaviour is of one   *)
(* of them, and the variables of the others stand parked. The machines'    *)
(* constants are this module's; the .cfg gives them their values.          *)
(***************************************************************************)
EXTENDS TLC

CONSTANTS
    Methods, Capacity, MaxLines,                               \* Runner
    FileSlots, Threads, Verbs,                                 \* Interrupt
    Workspaces, Slots, TTL, MaxRuns, MaxFaults, Scripts,       \* Refresh
    Sibling, Tab, Workspace, Profile, Nothing, Within, Grace,
    MaxChanges,                                                \* PaneShell
    Lone, Panes, Versions, Size, Logins, Nameless, Absent, Hole,
    MaxLaunches, MaxBeside, MaxCuts, MaxReplaced, MaxSwaps     \* Reporting

VARIABLES
    part,    \* the machine this behaviour is of
    call, plan, child, straggler, said, pipe, reader, got, heard, expired,
    graced, foreground, pc, outcome, diedAt, verb, inherited, disposition,
    disk, files, dirs, pids, group, up, forward, reused, handler, at,
    threaded, found, signalledAt, by, struck, world, cmd, json, bash, age,
    runs, faults, late, focused, devpod, step, asking, left, spent, shown,
    changes, host, label, final, stage, hook, settings, socket, my, marred,
    calm, leftover, launches, cuts, replaced

Rn == INSTANCE Runner
In == INSTANCE Interrupt
Rf == INSTANCE Refresh
Rd == INSTANCE Refresh WITH
    MaxRuns <- 1,
    MaxFaults <- 1,
    Scripts <- {"reads", "changes"}
Pn == INSTANCE PaneShell
Ra == INSTANCE Reporting WITH
    Pane <- {Lone},
    Profile <- Logins
Rb == INSTANCE Reporting WITH
    Pane <- Panes,
    Profile <- Logins,
    MaxLaunches <- MaxBeside,
    MaxReplaced <- MaxSwaps

ASSUME RnMethodsAssumption == Rn!MethodsAssumption
ASSUME RnBoundsAssumption == Rn!BoundsAssumption
ASSUME InSlotsAssumption == In!SlotsAssumption
ASSUME InVerbsAssumption == In!VerbsAssumption
ASSUME RfBoundsAssumption == Rf!BoundsAssumption
ASSUME RfScriptsAssumption == Rf!ScriptsAssumption
ASSUME RdBoundsAssumption == Rd!BoundsAssumption
ASSUME RdScriptsAssumption == Rd!ScriptsAssumption
ASSUME PnTabAssumption == Pn!TabAssumption
ASSUME PnNothingAssumption == Pn!NothingAssumption
ASSUME PnBoundsAssumption == Pn!BoundsAssumption
ASSUME RaSizeAssumption == Ra!SizeAssumption
ASSUME RaBoundsAssumption == Ra!BoundsAssumption
ASSUME RbBoundsAssumption == Rb!BoundsAssumption

\* The blocks of the manager's two versions.
TwoSizes == <<1, 2>>

ofRunner ==
    <<call, plan, straggler, said, pipe, reader, got, heard, expired,
      graced, foreground, outcome, diedAt>>
ofRunnerRefresh ==
    <<child>>
ofRunnerInterruptReporting ==
    <<pc>>
ofInterrupt ==
    <<verb, inherited, disposition, disk, files, dirs, pids, group, up,
      reused, handler, at, threaded, signalledAt, by, struck>>
ofInterruptReporting ==
    <<forward>>
ofInterruptPaneShell ==
    <<found>>
ofRefresh ==
    <<world, cmd, json, bash, age, faults, late>>
ofRefreshPaneShell ==
    <<runs>>
ofPaneShell ==
    <<focused, devpod, step, asking, left, spent, shown, changes>>
ofReporting ==
    <<host, label, final, stage, hook, settings, socket, my, marred, calm,
      leftover, launches, cuts, replaced>>
vars == <<part, ofRunner, ofRunnerRefresh, ofRunnerInterruptReporting, ofInterrupt,
          ofInterruptReporting, ofInterruptPaneShell, ofRefresh,
          ofRefreshPaneShell, ofPaneShell, ofReporting>>

\* The variables of the machines a behaviour is not of.
Parked == "parked"
ParkRunner ==
    /\ call = Parked /\ plan = Parked /\ straggler = Parked /\ said = Parked
    /\ pipe = Parked /\ reader = Parked /\ got = Parked /\ heard = Parked
    /\ expired = Parked /\ graced = Parked /\ foreground = Parked
    /\ outcome = Parked /\ diedAt = Parked
ParkRunnerRefresh ==
    /\ child = Parked
ParkRunnerInterruptReporting ==
    /\ pc = Parked
ParkInterrupt ==
    /\ verb = Parked /\ inherited = Parked /\ disposition = Parked
    /\ disk = Parked /\ files = Parked /\ dirs = Parked /\ pids = Parked
    /\ group = Parked /\ up = Parked /\ reused = Parked
    /\ handler = Parked /\ at = Parked /\ threaded = Parked
    /\ signalledAt = Parked /\ by = Parked /\ struck = Parked
ParkInterruptReporting ==
    /\ forward = Parked
ParkInterruptPaneShell ==
    /\ found = Parked
ParkRefresh ==
    /\ world = Parked /\ cmd = Parked /\ json = Parked /\ bash = Parked
    /\ age = Parked /\ faults = Parked /\ late = Parked
ParkRefreshPaneShell ==
    /\ runs = Parked
ParkPaneShell ==
    /\ focused = Parked /\ devpod = Parked /\ step = Parked
    /\ asking = Parked /\ left = Parked /\ spent = Parked /\ shown = Parked
    /\ changes = Parked
ParkReporting ==
    /\ host = Parked /\ label = Parked /\ final = Parked /\ stage = Parked
    /\ hook = Parked /\ settings = Parked /\ socket = Parked /\ my = Parked
    /\ marred = Parked /\ calm = Parked /\ leftover = Parked
    /\ launches = Parked /\ cuts = Parked /\ replaced = Parked
ParkButReporting ==
    /\ ParkRunner /\ ParkRunnerRefresh /\ ParkInterrupt /\ ParkInterruptPaneShell
    /\ ParkRefresh /\ ParkRefreshPaneShell /\ ParkPaneShell

InitRn ==
    /\ part = "runner" /\ Rn!Init
    /\ ParkInterrupt /\ ParkInterruptReporting /\ ParkInterruptPaneShell
    /\ ParkRefresh /\ ParkRefreshPaneShell /\ ParkPaneShell /\ ParkReporting

InitIn ==
    /\ part = "interrupt" /\ In!Init
    /\ ParkRunner /\ ParkRunnerRefresh /\ ParkRefresh /\ ParkRefreshPaneShell
    /\ ParkPaneShell /\ ParkReporting

InitRf ==
    /\ part = "refresh" /\ Rf!Init
    /\ ParkRunner /\ ParkRunnerInterruptReporting /\ ParkInterrupt
    /\ ParkInterruptReporting /\ ParkInterruptPaneShell /\ ParkPaneShell
    /\ ParkReporting

InitRd ==
    /\ part = "readers" /\ Rd!Init
    /\ ParkRunner /\ ParkRunnerInterruptReporting /\ ParkInterrupt
    /\ ParkInterruptReporting /\ ParkInterruptPaneShell /\ ParkPaneShell
    /\ ParkReporting

InitPn ==
    /\ part = "pane" /\ Pn!Init
    /\ ParkRunner /\ ParkRunnerRefresh /\ ParkRunnerInterruptReporting
    /\ ParkInterrupt /\ ParkInterruptReporting /\ ParkRefresh /\ ParkReporting

InitRa ==
    /\ part = "alone" /\ Ra!Init /\ ParkButReporting

InitRb ==
    /\ part = "beside" /\ Rb!Init /\ ParkButReporting

StepRn ==
    /\ part = "runner" /\ Rn!Next
    /\ UNCHANGED <<part, ofInterrupt, ofInterruptReporting, ofInterruptPaneShell,
                   ofRefresh, ofRefreshPaneShell, ofPaneShell, ofReporting>>
StepIn ==
    /\ part = "interrupt" /\ In!Next
    /\ UNCHANGED <<part, ofRunner, ofRunnerRefresh, ofRefresh,
                   ofRefreshPaneShell, ofPaneShell, ofReporting>>
StepRf ==
    /\ part = "refresh" /\ Rf!Next
    /\ UNCHANGED <<part, ofRunner, ofRunnerInterruptReporting, ofInterrupt,
                   ofInterruptReporting, ofInterruptPaneShell, ofPaneShell,
                   ofReporting>>
StepRd ==
    /\ part = "readers" /\ Rd!Next
    /\ UNCHANGED <<part, ofRunner, ofRunnerInterruptReporting, ofInterrupt,
                   ofInterruptReporting, ofInterruptPaneShell, ofPaneShell,
                   ofReporting>>
StepPn ==
    /\ part = "pane" /\ Pn!Next
    /\ UNCHANGED <<part, ofRunner, ofRunnerRefresh, ofRunnerInterruptReporting,
                   ofInterrupt, ofInterruptReporting, ofRefresh, ofReporting>>
StepRa ==
    /\ part = "alone" /\ Ra!Next
    /\ UNCHANGED <<part, ofRunner, ofRunnerRefresh, ofInterrupt,
                   ofInterruptPaneShell, ofRefresh, ofRefreshPaneShell, ofPaneShell>>
StepRb ==
    /\ part = "beside" /\ Rb!Next
    /\ UNCHANGED <<part, ofRunner, ofRunnerRefresh, ofInterrupt,
                   ofInterruptPaneShell, ofRefresh, ofRefreshPaneShell, ofPaneShell>>

Init == InitRn \/ InitIn \/ InitRf \/ InitRd \/ InitPn \/ InitRa \/ InitRb
Next == StepRn \/ StepIn \/ StepRf \/ StepRd \/ StepPn \/ StepRa \/ StepRb

Spec ==
    /\ Init /\ [][Next]_vars
    /\ WF_(Rn!vars)(part = "runner" /\ Rn!MainStep)
    /\ WF_(Rn!vars)(part = "runner" /\ Rn!ClockStep)
    /\ \A s \in Rn!Stream : WF_(Rn!vars)(part = "runner" /\ (Rn!Read(s) \/ Rn!Eof(s)))
    /\ WF_(Rn!vars)(part = "runner" /\ Rn!ChildStep /\ call.ends)
    /\ \A c \in Slots : WF_(Rd!vars)(part = "readers" /\ Rd!Command(c))
    /\ \A k \in Rd!Child : WF_(Rd!vars)(part = "readers" /\ Rd!Updater(k))
    /\ WF_(Rd!vars)(part = "readers" /\ Rd!Tick)

-----------------------------------------------------------------------------
\* A call that reports the child's own ending hands over all the child wrote; no
\* call leaves a child, a group or a thread behind but where it gave up; and a dl
\* that is interrupted takes the build with it (the four calls of runner.rs).
RunnerSafe ==
    part = "runner" => Rn!RunnerSafe

\* A call with a limit returns whatever its child does; one without does when the
\* child ends and nothing keeps a line-by-line method's pipes open (capture's
\* grace, watched's limit).
CallsReturn ==
    \/ part = "runner" /\ (call.limit \/ (call.ends /\ ~Rn!Streamed))
    \/ part = "runner" /\ call.ends /\ <>[](part = "runner" /\ straggler # "running")
    => <>(part = "runner" /\ pc \in {"done", "dead"})

\* Whatever step the signal comes at, what was registered is removed, the
\* plaintext token above all, the build and the detached forward go with dl, a
\* stranger's process is struck only in the windows the code leaves, and a signal
\* that arrived ignored ends nothing (cleanup_and_exit, drain, ignore_hangup).
InterruptSafe ==
    part = "interrupt" => In!InterruptSafe

\* One command, one updater, and one more for each further change; and when all
\* have ended without a fault a cache file is right, unless updaters of overlapping
\* runs wrote it out of order (Refresh::ask, rearm, child_work).
RefreshSafe ==
    part = "refresh" => Rf!RefreshSafe

\* Whatever failed and in whatever order updaters wrote, a cache that is read again
\* and again ends up saying what devpod lists (the TTL, child_work).
CacheCatchesUp ==
    []<>(part = "readers" /\ Rd!Reading)
        => <>[](part = "readers" /\ json = {world} /\ bash = {world})

\* A new pane joins a session that one pane of its tab has run since it began to
\* ask, with that session's own login, and its questions take the budget, and once
\* what a killed call overran by (destination_for, Budget).
PaneSafe ==
    part = "pane" => Pn!PaneSafe

\* What a pane and a container are told of a session, whatever launches, updates of
\* the manager, replacements and lost connections came before. No session opens
\* under the label of an earlier launch in its pane, whichever of begin_reporting's
\* early returns it took; a launch that says it is reporting, in a container that no
\* other pane reports from, has the manager's whole binary, the hook and the settings
\* that call it in the container it probed, unless that was stopped in the middle of
\* a lend (prepare); and settings the image brought are there for as long as the
\* container is, however many panes install beside each other (install_command).
ReportingSafe ==
    [][/\ part = "alone" => Ra!TypeOK' /\ Ra!LabelFollows' /\ Ra!SaysPrepared
       /\ part = "beside" => Rb!KeepsForeign]_vars
=============================================================================
