-------------------------------- MODULE MCEnds --------------------------------
(***************************************************************************)
(* What must come to an end, under fairness: launches that queue for each  *)
(* other (Launch), a blocked launch that sweeps what holds its lock        *)
(* (Kill), prunes of the agent worktrees, again and again (Worktrees), a   *)
(* new pane that joins the session beside it (PaneShell), and launches     *)
(* that report from two panes (Reporting). Each behaviour is of one of the *)
(* machines; the variables of the others stand parked.                     *)
(***************************************************************************)
EXTENDS TLC

CONSTANTS p1, p2, own, nobody, orphan, Foreign, out, in, rOut, rIn, w1, w2,
          work, q1, q2, Nothing, Nameless, Absent, Hole, MaxReplaced

VARIABLES
    part,    \* the machine this behaviour is of
    container, record, result, tools, fresh, devpod, lock, marker, memo,
    inFlight, pc, my, begun, ended, launches, foreigns, crashes, proc,
    flock, busy, deleted, reading, remaining, endings, since, struck, moves,
    faults, at, reg, plan, todo, names, sinceWeigh, gone, runs, focused,
    step, asking, left, found, spent, shown, changes, host, label, final,
    stage, hook, settings, socket, forward, marred, calm, leftover, cuts,
    replaced

Two == {p1, p2}

La == INSTANCE Launch WITH
    Process <- Two,
    Nobody <- nobody,
    Orphan <- orphan,
    Foreign <- Foreign,
    Verbs <- {"attach", "restart", "rebuild"},
    MaxLaunches <- 2,
    MaxForeign <- 0,
    MaxCrashes <- 1,
    TripsFail <- FALSE,
    LockFails <- FALSE
Re == INSTANCE Kill WITH
    Pids <- Two,
    Own <- own,
    Verb <- "release",
    MaxMoves <- 2,
    MaxFaults <- 0
Wt == INSTANCE Worktrees WITH
    Sites <- {out, in},
    Inner <- {<<out, in>>},
    Regs <- {rOut, rIn},
    Place <- (rOut :> out) @@ (rIn :> in),
    Forces <- {FALSE},
    MaxMoves <- 1,
    MaxFaults <- 2
Pn == INSTANCE PaneShell WITH
    Sibling <- {q1, q2},
    Tab <- {q1, q2},
    Workspace <- {w1, w2},
    Profile <- {work},
    Nothing <- Nothing,
    Within <- 3,
    Grace <- 1,
    MaxChanges <- 1
Ss == INSTANCE Reporting WITH
    Pane <- Two,
    Versions <- 2,
    Size <- <<1, 2>>,
    Profile <- {work},
    MaxLaunches <- 2,
    MaxCuts <- 1

ASSUME LaHoldersAssumption == La!HoldersAssumption
ASSUME LaVerbsAssumption == La!VerbsAssumption
ASSUME LaBoundsAssumption == La!BoundsAssumption
ASSUME LaSwitchAssumption == La!SwitchAssumption
ASSUME ReVerbAssumption == Re!VerbAssumption
ASSUME ReBoundsAssumption == Re!BoundsAssumption
ASSUME ReNobodyAssumption == Re!NobodyAssumption
ASSUME WtPlacesAssumption == Wt!PlacesAssumption
ASSUME WtBoundsAssumption == Wt!BoundsAssumption
ASSUME PnTabAssumption == Pn!TabAssumption
ASSUME PnNothingAssumption == Pn!NothingAssumption
ASSUME PnBoundsAssumption == Pn!BoundsAssumption
ASSUME SsSizeAssumption == Ss!SizeAssumption
ASSUME SsBoundsAssumption == Ss!BoundsAssumption

ofLaunchKill ==
    <<container>>
ofLaunch ==
    <<record, result, tools, lock, marker, memo, inFlight, begun, ended,
      foreigns, crashes>>
ofLaunchReporting ==
    <<my, launches>>
ofLaunchWorktrees ==
    <<fresh>>
ofLaunchPaneShell ==
    <<devpod>>
ofAllButPaneShell ==
    <<pc>>
ofKill ==
    <<proc, flock, busy, deleted, reading, remaining, endings, since,
      struck>>
ofKillWorktrees ==
    <<moves, faults>>
ofWorktrees ==
    <<at, reg, plan, todo, names, sinceWeigh, gone>>
ofPaneShell ==
    <<runs, focused, step, asking, left, found, spent, shown, changes>>
ofReporting ==
    <<host, label, final, stage, hook, settings, socket, forward, marred,
      calm, leftover, cuts, replaced>>
vars == <<part, ofLaunchKill, ofLaunch, ofLaunchReporting, ofLaunchWorktrees,
          ofLaunchPaneShell, ofAllButPaneShell, ofKill, ofKillWorktrees,
          ofWorktrees, ofPaneShell, ofReporting>>

\* The variables of the machines a behaviour is not of.
Parked == "parked"
ParkLaunchKill ==
    /\ container = Parked
ParkLaunch ==
    /\ record = Parked /\ result = Parked /\ tools = Parked /\ lock = Parked
    /\ marker = Parked /\ memo = Parked /\ inFlight = Parked
    /\ begun = Parked /\ ended = Parked /\ foreigns = Parked
    /\ crashes = Parked
ParkLaunchReporting ==
    /\ my = Parked /\ launches = Parked
ParkLaunchWorktrees ==
    /\ fresh = Parked
ParkLaunchPaneShell ==
    /\ devpod = Parked
ParkAllButPaneShell ==
    /\ pc = Parked
ParkKill ==
    /\ proc = Parked /\ flock = Parked /\ busy = Parked /\ deleted = Parked
    /\ reading = Parked /\ remaining = Parked /\ endings = Parked
    /\ since = Parked /\ struck = Parked
ParkKillWorktrees ==
    /\ moves = Parked /\ faults = Parked
ParkWorktrees ==
    /\ at = Parked /\ reg = Parked /\ plan = Parked /\ todo = Parked
    /\ names = Parked /\ sinceWeigh = Parked /\ gone = Parked
ParkPaneShell ==
    /\ runs = Parked /\ focused = Parked /\ step = Parked /\ asking = Parked
    /\ left = Parked /\ found = Parked /\ spent = Parked /\ shown = Parked
    /\ changes = Parked
ParkReporting ==
    /\ host = Parked /\ label = Parked /\ final = Parked /\ stage = Parked
    /\ hook = Parked /\ settings = Parked /\ socket = Parked
    /\ forward = Parked /\ marred = Parked /\ calm = Parked
    /\ leftover = Parked /\ cuts = Parked /\ replaced = Parked

InitLa ==
    /\ part = "launch" /\ La!Init
    /\ ParkKill /\ ParkKillWorktrees /\ ParkWorktrees /\ ParkPaneShell
    /\ ParkReporting

InitRe ==
    /\ part = "release" /\ Re!Init
    /\ ParkLaunch /\ ParkLaunchReporting /\ ParkLaunchWorktrees
    /\ ParkLaunchPaneShell /\ ParkWorktrees /\ ParkPaneShell /\ ParkReporting

InitWt ==
    /\ part = "worktrees" /\ Wt!Init
    /\ ParkLaunchKill /\ ParkLaunch /\ ParkLaunchReporting
    /\ ParkLaunchPaneShell /\ ParkKill /\ ParkPaneShell /\ ParkReporting

InitPn ==
    /\ part = "pane" /\ Pn!Init
    /\ ParkLaunchKill /\ ParkLaunch /\ ParkLaunchReporting
    /\ ParkLaunchWorktrees /\ ParkAllButPaneShell /\ ParkKill
    /\ ParkKillWorktrees /\ ParkWorktrees /\ ParkReporting

InitSs ==
    /\ part = "sessions" /\ Ss!Init
    /\ ParkLaunchKill /\ ParkLaunch /\ ParkLaunchWorktrees
    /\ ParkLaunchPaneShell /\ ParkKill /\ ParkKillWorktrees
    /\ ParkWorktrees /\ ParkPaneShell

StepLa ==
    /\ part = "launch" /\ La!Next
    /\ UNCHANGED <<part, ofKill, ofKillWorktrees, ofWorktrees, ofPaneShell,
                   ofReporting>>
StepRe ==
    /\ part = "release" /\ Re!Next
    /\ UNCHANGED <<part, ofLaunch, ofLaunchReporting, ofLaunchWorktrees,
                   ofLaunchPaneShell, ofWorktrees, ofPaneShell, ofReporting>>
StepWt ==
    /\ part = "worktrees" /\ Wt!Next
    /\ UNCHANGED <<part, ofLaunchKill, ofLaunch, ofLaunchReporting,
                   ofLaunchPaneShell, ofKill, ofPaneShell, ofReporting>>
StepPn ==
    /\ part = "pane" /\ Pn!Next
    /\ UNCHANGED <<part, ofLaunchKill, ofLaunch, ofLaunchReporting,
                   ofLaunchWorktrees, ofAllButPaneShell, ofKill,
                   ofKillWorktrees, ofWorktrees, ofReporting>>
StepSs ==
    /\ part = "sessions" /\ Ss!Next
    /\ UNCHANGED <<part, ofLaunchKill, ofLaunch, ofLaunchWorktrees,
                   ofLaunchPaneShell, ofKill, ofKillWorktrees, ofWorktrees,
                   ofPaneShell>>

Init == InitLa \/ InitRe \/ InitWt \/ InitPn \/ InitSs
Next == StepLa \/ StepRe \/ StepWt \/ StepPn \/ StepSs

Spec ==
    /\ Init /\ [][Next]_vars
    /\ \A p \in Two :
           WF_(La!vars)(part = "launch" /\ La!Advance(p) /\ ~La!Blocked(p))
    /\ WF_(La!vars)(part = "launch" /\ La!UnattendedUpEnds)
    /\ WF_(Re!vars)(part = "release" /\ Re!Sweep)
    /\ \A p \in Re!All : WF_(Re!vars)(part = "release" /\ Re!TakeLock(p))
    /\ \A p \in Re!All : WF_(Re!vars)(part = "release" /\ Re!Attended(p) /\ Re!Exit(p))
    /\ WF_(Wt!vars)(part = "worktrees" /\ Wt!Go)
    /\ WF_(Pn!vars)(part = "pane" /\ Pn!Goes)
    /\ \A p \in Two : WF_(Ss!vars)(part = "sessions" /\ Ss!Goes(p))
    /\ \A n \in Ss!Launch : WF_(Ss!vars)(part = "sessions" /\ Ss!Dies(n))

-----------------------------------------------------------------------------
\* What waits, in the part each behaviour is of, and what it waits for. Launches are
\* alike, and so are panes: one stands for both.
Waits ==
    \/ part = "launch" /\ pc[p1] \notin {"idle", "session"}
    \/ part = "release" /\ Re!CanClear
    \/ part = "pane" /\ step = "list"
Comes ==
    \/ part = "launch" /\ pc[p1] \in {"idle", "session"}
    \/ part = "release" /\ (flock = own \/ Re!LateOrphan)
    \/ part = "pane" /\ step \in {"session", "shell"}

\* Every launch gets as far as its session or its end: nobody waits forever on the
\* launch lock, and one that is blocked behind orphans that can be stopped gets
\* devpod's: the release clears them, counting its own build out, and the blocked
\* `up` takes the flock of itself.  The sweep is made once per launch, so a build
\* whose dl dies after it is not cleared (release_a_blocked_launch, Ours::ChildrenOf).
\* And a new pane comes to a shell, in the workspace or on the host, whatever the
\* manager answers and whatever has become of the workspace it named.
LaunchesEnd ==
    /\ [](part = "release" => Re!OwnIsNoHolder)
    /\ Waits ~> Comes

\* Every interruption leaves something the next prune reads right: once the others
\* are still, what can be proved safe to go is gone, bytes and names
\* (SiteKind::OursGone).
Converges == <>[](part = "worktrees" => Wt!AllCollected)

\* A forward outlives its launch by nothing, however that launch ended: refused,
\* returned, or interrupted once it was registered (Forward::stop).
ForwardsEnd ==
    \A n \in Ss!Launch :
        part = "sessions" /\ Ss!Abandoned(n)
            ~> part = "sessions" /\ forward[n] = "ended"

\* Whatever fails on the way, the session opens, when nothing takes dl itself down
\* (begin_reporting).
SessionOpens ==
    part = "sessions" /\ pc[p1] = "label" /\ cuts = 1
        ~> part = "sessions" /\ pc[p1] = "session"

\* What a session waits for comes, and what waits on a session's end goes.
SessionsEnd == ForwardsEnd /\ SessionOpens
=============================================================================
