------------------------------ MODULE Reporting ------------------------------
(***************************************************************************)
(* Launches in the panes of a session manager, on one workspace: the label *)
(* of the pane, the forward of the manager's socket into the container, the *)
(* probe, the lend of the manager's binary and the install of the agent    *)
(* hook, and the session (flows/session_manager.rs, clients/herdr.rs,      *)
(* begin_reporting and workspace_ssh of flows/launch.rs).                  *)
(*                                                                         *)
(* A file of the container is what its blocks hold.  The lend writes one   *)
(* staging file, whoever lends, and renames it; the hook and the settings  *)
(* are written in place, emptied first.  A socket's file outlives the      *)
(* forward that made it, as devlaunch#549 measured.  A pane has one launch *)
(* at a time.                                                              *)
(***************************************************************************)
EXTENDS Naturals

CONSTANTS
    Pane,         \* the panes, each with the launch it is running
    Versions,     \* how many versions of the manager's binary there are
    Size,         \* the blocks of each
    Profile,      \* what a launch's login may be called
    Nameless,     \* and a login without a name
    Absent,       \* a file that is not there
    Hole,         \* a block nobody wrote
    MaxLaunches,  \* launches begun in all
    MaxCuts,      \* ends of dl, of a trip or of the container that come too soon
    MaxReplaced   \* times the container is replaced, or the manager updated

Version == 1..Versions

\* What the constants have to satisfy: the modules that take instances assume it.
SizeAssumption ==
    /\ Versions \in Nat \ {0} /\ Size \in [Version -> Nat \ {0}]
    /\ \A v, w \in Version : v < w => Size[v] < Size[w]
BoundsAssumption == {MaxLaunches, MaxCuts, MaxReplaced} \subseteq Nat

VARIABLES
    host,      \* the version this host has
    label,     \* the profile each pane's label claims
    final, stage,     \* the binary, and the file it is lent through
    hook, settings,   \* the agent hook, and the settings that call it
    socket,    \* the forward whose listen path each pane's socket is, or 0
    forward,   \* what became of the forward of each launch
    pc, my,    \* the step each launch is at, and what it carries
    marred,    \* history: a write in this container overlapped another or was cut
    calm,      \* history: the container is the one the launch probed
    leftover,  \* history: launches that left their forward unregistered
    launches, cuts, replaced

container == <<final, stage, hook, settings>>
history   == <<marred, calm, leftover>>
counts    == <<launches, cuts, replaced>>
vars == <<host, label, container, socket, forward, pc, my, history, counts>>

Largest == Size[Versions]
Launch  == 1..MaxLaunches
File    == [1..Largest -> Version \cup {Hole}] \X (0..Largest)
Empty   == <<[b \in 1..Largest |-> Hole], 0>>
IsWhole(file) == \E v \in Version :
    file[2] = Size[v] /\ \A b \in 1..Size[v] : file[1][b] = v

Step == {"idle", "label", "alias", "detach", "register", "probe", "lend", "write",
         "place", "install", "hook", "fill", "settings", "session"}
Trip == {"write", "place", "hook", "fill", "settings"}
Untold == [n |-> 0, len |-> 0, ver |-> 1, pos |-> 0, at |-> "stage", profile |-> Nameless,
           relay |-> FALSE, registered |-> FALSE, policy |-> FALSE]

TypeOK ==
    /\ host \in Version /\ label \in [Pane -> Profile \cup {Nameless}]
    /\ {final, stage} \subseteq File \cup {Absent}
    /\ hook \in {"none", "bare", "emptied", "ready"}
    /\ settings \in {"none", "foreign", "emptied", "ours"}
    /\ socket \in [Pane -> {0} \cup Launch]
    /\ forward \in [Launch -> {"none", "starting", "bound", "told", "ended"}]
    /\ pc \in [Pane -> Step]
    /\ my \in [Pane -> [n : {0} \cup Launch, len : 0..Largest, ver : Version, pos : 0..Largest,
                        at : {"stage", "final", "gone"}, profile : Profile \cup {Nameless},
                        relay : BOOLEAN, registered : BOOLEAN, policy : BOOLEAN]]

Init ==
    /\ host = 1 /\ label = [p \in Pane |-> Nameless]
    /\ final = Absent /\ stage = Absent /\ hook = "none"
    /\ settings \in {"none", "foreign"}
    /\ socket = [p \in Pane |-> 0] /\ forward = [n \in Launch |-> "none"]
    /\ pc = [p \in Pane |-> "idle"] /\ my = [p \in Pane |-> Untold]
    /\ marred = FALSE /\ calm = [p \in Pane |-> TRUE] /\ leftover = {}
    /\ launches = 0 /\ cuts = 0 /\ replaced = 0

Goto(p, step) == pc' = [pc EXCEPT ![p] = step]
\* SIGTERM, to a forward that is still there.
Told(n) == IF forward[n] = "ended" THEN forward ELSE [forward EXCEPT ![n] = "told"]

-----------------------------------------------------------------------------
(***************************************************************************)
(* begin_reporting, up to the forward.                                     *)
(***************************************************************************)
Begin(p) ==
    /\ pc[p] = "idle" /\ launches < MaxLaunches
    /\ \E profile \in Profile \cup {Nameless} :
          my' = [my EXCEPT ![p] = [Untold EXCEPT !.n = launches + 1, !.profile = profile]]
    /\ launches' = launches + 1
    /\ calm' = [calm EXCEPT ![p] = TRUE]
    /\ Goto(p, "label")
    /\ UNCHANGED <<host, label, container, socket, forward, marred, leftover, cuts, replaced>>

\* report_profile, a name or its clearing; what the manager answers is dropped.
Label(p) ==
    /\ pc[p] = "label"
    /\ label' = [label EXCEPT ![p] = my[p].profile]
    /\ Goto(p, "alias")
    /\ UNCHANGED <<host, container, socket, forward, my, history, counts>>

Alias(p) ==
    /\ pc[p] = "alias"
    /\ Goto(p, "detach") \/ Goto(p, "session")
    /\ UNCHANGED <<host, label, container, socket, forward, my, history, counts>>

\* start_forward: a child in a session of its own, which nothing waits for.
Detach(p) ==
    /\ pc[p] = "detach"
    /\ \/ forward' = [forward EXCEPT ![my[p].n] = "starting"] /\ Goto(p, "register")
       \/ Goto(p, "session") /\ UNCHANGED forward
    /\ UNCHANGED <<host, label, container, socket, my, history, counts>>

\* Mutant: the forward is left to the ordinary return path.
RegisterNot(p) ==
    /\ pc[p] = "register"
    /\ my' = [my EXCEPT ![p].relay = TRUE, ![p].len = Size[host]]
    /\ Goto(p, "probe")
    /\ UNCHANGED <<host, label, container, socket, forward, history, counts>>

\* Forward's registration, and the size the probe compares.
Register(p) ==
    /\ pc[p] = "register"
    /\ my' = [my EXCEPT ![p].relay = TRUE, ![p].registered = TRUE, ![p].len = Size[host]]
    /\ Goto(p, "probe")
    /\ UNCHANGED <<host, label, container, socket, forward, history, counts>>

\* The listen path, a file that was there or not; ExitOnForwardFailure.
Bind(p) ==
    /\ my[p].n # 0 /\ forward[my[p].n] = "starting"
    /\ \/ /\ socket' = [socket EXCEPT ![p] = my[p].n]
          /\ forward' = [forward EXCEPT ![my[p].n] = "bound"]
       \/ forward' = [forward EXCEPT ![my[p].n] = "ended"] /\ UNCHANGED socket
    /\ UNCHANGED <<host, label, container, pc, my, history, counts>>

Dies(n) ==
    /\ forward[n] = "told"
    /\ forward' = [forward EXCEPT ![n] = "ended"]
    /\ UNCHANGED <<host, label, container, socket, pc, my, history, counts>>

-----------------------------------------------------------------------------
(***************************************************************************)
(* prepare: the probe, and two errands.                                    *)
(***************************************************************************)
Ready(p) == Goto(p, "session") /\ UNCHANGED <<my, forward>>

Refuse(p) ==
    /\ forward' = Told(my[p].n)
    /\ my' = [my EXCEPT ![p].relay = FALSE] /\ Goto(p, "session")

\* Mutant: the binary is looked for and not measured.
PreparedRoughly(p) ==
    /\ final # Absent
    /\ hook \in {"emptied", "ready"} /\ settings = "ours"

\* probe_command, after its socket: the size, the hook's mode, the settings' text.
Prepared(p) ==
    /\ final # Absent /\ final[2] = my[p].len
    /\ hook \in {"emptied", "ready"} /\ settings = "ours"

Probe(p) ==
    /\ pc[p] = "probe"
    /\ \/ socket[p] = 0 /\ Refuse(p)
       \/ socket[p] # 0 /\ Prepared(p) /\ Ready(p)
       \/ socket[p] # 0 /\ ~Prepared(p) /\ Goto(p, "lend") /\ UNCHANGED <<my, forward>>
       \/ Refuse(p)
    /\ UNCHANGED <<host, label, container, socket, history, counts>>

\* tee opens what is there, and empties it.
Lend(p) ==
    /\ pc[p] = "lend"
    /\ \/ /\ stage' = Empty
          /\ my' = [my EXCEPT ![p].ver = host, ![p].pos = 0, ![p].at = "stage"]
          /\ marred' = (marred \/ \E q \in Pane : pc[q] = "write" /\ my[q].at # "gone")
          /\ Goto(p, "write") /\ UNCHANGED forward
       \/ Refuse(p) /\ UNCHANGED <<stage, marred>>
    /\ UNCHANGED <<host, label, final, hook, settings, socket, calm, leftover, counts>>

Put(file, b, v) ==
    <<[file[1] EXCEPT ![b] = v], IF b > file[2] THEN b ELSE file[2]>>

Write(p) ==
    LET b == my[p].pos + 1 IN
    /\ pc[p] = "write" /\ b <= Size[my[p].ver]
    /\ my' = [my EXCEPT ![p].pos = b]
    /\ stage' = IF my[p].at = "stage" THEN Put(stage, b, my[p].ver) ELSE stage
    /\ final' = IF my[p].at = "final" THEN Put(final, b, my[p].ver) ELSE final
    /\ Goto(p, IF b = Size[my[p].ver] THEN "place" ELSE "write")
    /\ UNCHANGED <<host, label, hook, settings, socket, forward, history, counts>>

\* The rename, and where every writer's open file is after it.
Renamed == [q \in Pane |->
    [my[q] EXCEPT !.at = IF my[q].at = "stage" THEN "final" ELSE "gone"]]

\* chmod and mv; a staging file that another moved away is a failed errand.
Place(p) ==
    /\ pc[p] = "place"
    /\ \/ /\ stage # Absent
          /\ final' = stage /\ stage' = Absent
          /\ my' = Renamed
          /\ marred' = (marred \/ \E q \in Pane \ {p} : pc[q] = "write" /\ my[q].at = "stage")
          /\ Goto(p, "install") /\ UNCHANGED forward
       \/ stage = Absent /\ Refuse(p) /\ UNCHANGED <<final, stage, marred>>
    /\ UNCHANGED <<host, label, hook, settings, socket, calm, leftover, counts>>

\* install_command: settings without dl's hook in them are left, and the hook
\* is emptied, keeping its mode.
Install(p) ==
    /\ pc[p] = "install"
    /\ \/ /\ settings \in {"foreign", "emptied"}
          /\ forward' = Told(my[p].n)
          /\ my' = [my EXCEPT ![p].relay = FALSE, ![p].policy = TRUE]
          /\ Goto(p, "session") /\ UNCHANGED hook
       \/ /\ settings \notin {"foreign", "emptied"}
          /\ hook' = IF hook \in {"none", "bare"} THEN "bare" ELSE "emptied"
          /\ Goto(p, "hook") /\ UNCHANGED <<my, forward>>
       \/ Refuse(p) /\ UNCHANGED hook
    /\ UNCHANGED <<host, label, final, stage, settings, socket, history, counts>>

FillHook(p) ==
    /\ pc[p] = "hook"
    /\ hook' = "ready"
    /\ Goto(p, "fill")
    /\ UNCHANGED <<host, label, final, stage, settings, socket, forward, my, history, counts>>

EmptySettings(p) ==
    /\ pc[p] = "fill"
    /\ settings' = "emptied"
    /\ Goto(p, "settings")
    /\ UNCHANGED <<host, label, final, stage, hook, socket, forward, my, history, counts>>

FillSettings(p) ==
    /\ pc[p] = "settings"
    /\ settings' = "ours"
    /\ Ready(p)
    /\ UNCHANGED <<host, label, final, stage, hook, socket, history, counts>>

-----------------------------------------------------------------------------
Over(p) == Goto(p, "idle") /\ my' = [my EXCEPT ![p] = Untold]

\* workspace_ssh: the session's end, and the forward's with it.
SessionEnds(p) ==
    /\ pc[p] = "session"
    /\ forward' = IF my[p].relay THEN Told(my[p].n) ELSE forward
    /\ Over(p)
    /\ UNCHANGED <<host, label, container, socket, history, counts>>

\* A lost connection: the lend takes what arrived for the whole of it, and the
\* install, whose text came with the command, runs on.
Lost(p) ==
    /\ pc[p] \in {"write", "hook", "settings"} /\ cuts < MaxCuts
    /\ \/ /\ pc[p] = "write" /\ stage # Absent
          /\ final' = stage /\ stage' = Absent
          /\ my' = [Renamed EXCEPT ![p] = [Renamed[p] EXCEPT !.relay = FALSE]]
          /\ UNCHANGED <<hook, settings>>
       \/ /\ pc[p] = "write" /\ stage = Absent
          /\ my' = [my EXCEPT ![p].relay = FALSE]
          /\ UNCHANGED container
       \/ /\ pc[p] # "write" /\ hook' = "ready" /\ settings' = "ours"
          /\ my' = [my EXCEPT ![p].relay = FALSE]
          /\ UNCHANGED <<final, stage>>
    /\ forward' = Told(my[p].n) /\ Goto(p, "session")
    /\ marred' = (marred \/ \E q \in Pane \ {p} : pc[q] = "write")
    /\ cuts' = cuts + 1
    /\ UNCHANGED <<host, label, socket, calm, leftover, launches, replaced>>

\* The interrupt handler terminates what is registered; a kill of dl does not.
Dead(p) ==
    /\ pc[p] # "idle" /\ pc[p] \notin Trip /\ cuts < MaxCuts
    /\ \/ /\ pc[p] # "register"
          /\ forward' = IF my[p].registered THEN Told(my[p].n) ELSE forward
          /\ UNCHANGED leftover
       \/ leftover' = leftover \cup {my[p].n} /\ UNCHANGED forward
    /\ Over(p)
    /\ cuts' = cuts + 1
    /\ UNCHANGED <<host, label, container, socket, marred, calm, launches, replaced>>

Disconnected ==
    [n \in Launch |-> IF forward[n] \in {"starting", "bound"} THEN "ended" ELSE forward[n]]

\* The container stopped, and started again: its files stay as they are.
Stop ==
    /\ cuts < MaxCuts /\ \E p \in Pane : pc[p] \in Trip
    /\ my' = [p \in Pane |-> IF pc[p] \in Trip THEN [my[p] EXCEPT !.relay = FALSE] ELSE my[p]]
    /\ forward' = Disconnected
    /\ pc' = [p \in Pane |-> IF pc[p] \in Trip THEN "session" ELSE pc[p]]
    /\ marred' = TRUE
    /\ cuts' = cuts + 1
    /\ UNCHANGED <<host, label, container, socket, calm, leftover, launches, replaced>>

\* recreate, reset, or a rebuilt image: what was running in it is cut first (Stop).
Replace ==
    /\ replaced < MaxReplaced /\ \A p \in Pane : pc[p] \notin Trip
    /\ final' = Absent /\ stage' = Absent /\ hook' = "none"
    /\ settings' \in {"none", "foreign"}
    /\ socket' = [p \in Pane |-> 0]
    /\ forward' = Disconnected
    /\ marred' = FALSE /\ calm' = [p \in Pane |-> FALSE]
    /\ replaced' = replaced + 1
    /\ UNCHANGED <<host, label, pc, my, leftover, launches, cuts>>

Update ==
    /\ replaced < MaxReplaced /\ host + 1 \in Version
    /\ host' = host + 1
    /\ replaced' = replaced + 1
    /\ UNCHANGED <<label, container, socket, forward, pc, my, history, launches, cuts>>

\* What dl and its trips do; a session lasts as long as it lasts.
Goes(p) ==
    \/ Label(p) \/ Alias(p) \/ Detach(p) \/ Register(p) \/ Probe(p)
    \/ Lend(p) \/ Write(p) \/ Place(p)
    \/ Install(p) \/ FillHook(p) \/ EmptySettings(p) \/ FillSettings(p)

Next ==
    \/ \E p \in Pane : Begin(p) \/ Goes(p) \/ Bind(p) \/ SessionEnds(p) \/ Lost(p) \/ Dead(p)
    \/ \E n \in Launch : Dies(n)
    \/ Stop \/ Replace \/ Update

Fairness ==
    /\ \A p \in Pane : WF_vars(Goes(p))
    /\ \A n \in Launch : WF_vars(Dies(n))

Spec == Init /\ [][Next]_vars /\ Fairness

-----------------------------------------------------------------------------
\* The step after which a session reports.
Says(p) == pc[p] \in {"probe", "settings"} /\ pc'[p] = "session" /\ my'[p].relay

\* A launch that says it is reporting has the manager's whole binary, the hook and
\* the settings that call it in the container it probed, whatever launches, updates
\* of the manager and lost connections came before: unless two lends overlapped in
\* that container, or it was stopped in the middle of one (prepare).
SaysPrepared ==
    \A p \in Pane : Says(p) /\ calm[p] /\ ~marred =>
        final # Absent /\ IsWhole(final) /\ hook' = "ready" /\ settings' = "ours"

\* Settings the image brought are there for as long as the container is, however
\* many launches and replacements meet (install_command).
KeepsForeign == settings = "foreign" /\ replaced' = replaced => settings' = "foreign"

\* No session opens under the label of an earlier launch in its pane, whichever of
\* begin_reporting's early returns it took.
LabelFollows == \A p \in Pane : pc[p] = "session" => label[p] = my[p].profile

\* A forward nobody needs any more: its launch was refused or has returned, or was
\* interrupted once the forward was registered (Forward::stop).
Abandoned(n) ==
    /\ forward[n] \in {"starting", "bound"} /\ n \notin leftover
    /\ \A p \in Pane : my[p].n = n => pc[p] = "session" /\ ~my[p].relay
=============================================================================
