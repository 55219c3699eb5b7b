------------------------------ MODULE PaneShell ------------------------------
(***************************************************************************)
(* The shell of a new pane: `dl --herdr-shell` asks the session manager    *)
(* which panes its tab holds and what each is running, and opens in the    *)
(* workspace one of them is in, or as the host's shell                     *)
(* (flows/session_manager.rs, pane_shell.rs and commands.rs of dl).        *)
(*                                                                         *)
(* A pane runs a list of processes, and a process is what its line names:  *)
(* a workspace (dl's two transports), a profile (dl itself), or nothing.   *)
(* Sessions start, end and lose their workspace while the shell asks.      *)
(***************************************************************************)
EXTENDS Naturals, Sequences, SequencesExt, FiniteSetsExt

CONSTANTS
    Sibling,     \* the other panes of the manager
    Tab,         \* those in the shell's own tab
    Workspace, Profile,
    Nothing,     \* what a line that names none of these names
    Within,      \* ANSWER_WITHIN, in moments
    Grace,       \* what a call may take past its limit
    MaxChanges   \* sessions begun and ended beside it

\* What the constants have to satisfy: the modules that take instances assume it.
TabAssumption == Tab \subseteq Sibling /\ Tab # {} /\ IsFiniteSet(Tab)
NothingAssumption == Nothing \notin Workspace
BoundsAssumption == Within \in Nat \ {0} /\ {Grace, MaxChanges} \subseteq Nat

VARIABLES
    runs,     \* the processes in the foreground of each pane, dl before its transport
    focused,  \* the pane the person was last in
    devpod,   \* the workspaces there are
    step, asking, left, found,  \* the shell: its step, the panes to ask, its budget
    spent,    \* history: the moments it has taken
    shown,    \* history: what the panes of the tab have run since it began
    changes

shell == <<step, asking, left, found>>
vars  == <<runs, focused, devpod, shell, spent, shown, changes>>

Idle == [workspace |-> Nothing, profile |-> Nothing]
Sessions == [workspace : Workspace, profile : Profile \cup {Nothing}]

\* The line of dl, and of the transport it runs.
Line(session) ==
    IF session = Idle THEN <<>>
    ELSE <<[Idle EXCEPT !.profile = session.profile],
           [Idle EXCEPT !.workspace = session.workspace]>>

TypeOK ==
    /\ \A q \in Sibling : \E s \in Sessions \cup {Idle} : runs[q] = Line(s)
    /\ focused \in Sibling /\ devpod \subseteq Workspace
    /\ step \in {"list", "ask", "launch", "session", "over", "shell"}
    /\ asking \in Seq(Tab) /\ left \in 0..Within
    /\ found \in Sessions \cup {Idle}

Init ==
    /\ runs \in [Sibling -> {Line(s) : s \in Sessions \cup {Idle}}]
    /\ focused \in Sibling /\ devpod = Workspace
    /\ step = "list" /\ asking = <<>> /\ left = Within /\ found = Idle
    /\ spent = 0 /\ shown = {runs[q] : q \in Tab} /\ changes = 0

-----------------------------------------------------------------------------
\* in_tab: the focused pane first, and otherwise in the manager's order, whatever
\* that is.
InTab == {order \in SetToSeqs(Tab) : focused \in Tab => Head(order) = focused}

\* What the first process of a line to set a variable has it set to.
FirstNamed(line, variable) ==
    LET some == {i \in DOMAIN line : line[i][variable] # Nothing}
    IN  IF some = {} THEN Idle[variable] ELSE line[Min(some)][variable]

\* Mutant: the profile of whatever pane is focused.
NamedByFocus(line) ==
    [workspace |-> FirstNamed(line, "workspace"),
     profile |-> FirstNamed(runs[focused], "profile")]

\* workspace_among and profile_among, of one pane's processes.
Named(line) ==
    [workspace |-> FirstNamed(line, "workspace"),
     profile |-> FirstNamed(line, "profile")]

\* Budget::spend, saturating.
Spend(taken) ==
    /\ spent' = spent + taken
    /\ left' = IF taken > left THEN 0 ELSE left - taken

\* ask: not at all without a budget, and what a call takes that is killed at its
\* limit is a little more.
Takes == IF left = 0 THEN {} ELSE 1..(left + Grace)

HostShell == step' = "shell" /\ UNCHANGED <<asking, found>>

List ==
    /\ step = "list"
    /\ \E taken \in Takes :
          /\ Spend(taken)
          /\ \/ /\ taken <= left
                /\ asking' \in InTab
                /\ step' = "ask" /\ UNCHANGED found
             \/ HostShell
    /\ UNCHANGED <<runs, focused, devpod, shown, changes>>

\* One pane after the other; a pane that will not answer is stepped over.
Ask ==
    /\ step = "ask" /\ asking # <<>>
    /\ \/ /\ left = 0
          /\ asking' = Tail(asking) /\ UNCHANGED <<left, spent, step, found>>
       \/ \E taken \in Takes :
             /\ Spend(taken)
             /\ LET named == Named(runs[Head(asking)]) IN
                \/ /\ taken <= left /\ named.workspace # Nothing
                   /\ found' = named /\ step' = "launch" /\ UNCHANGED asking
                \/ /\ taken > left \/ named.workspace = Nothing
                   /\ asking' = Tail(asking) /\ UNCHANGED <<step, found>>
    /\ UNCHANGED <<runs, focused, devpod, shown, changes>>

Unheld ==
    /\ step = "ask" /\ asking = <<>>
    /\ HostShell
    /\ UNCHANGED <<runs, focused, devpod, left, spent, shown, changes>>

\* The re-entered dispatch, and no_session_ran: a launch dl refuses leaves the
\* host's shell, and a session's own end the pane's.
Launch ==
    /\ step = "launch"
    /\ step' = IF found.workspace \in devpod THEN "session" ELSE "shell"
    /\ UNCHANGED <<runs, focused, devpod, asking, left, found, spent, shown, changes>>

SessionEnds ==
    /\ step = "session"
    /\ step' = "over"
    /\ UNCHANGED <<runs, focused, devpod, asking, left, found, spent, shown, changes>>

-----------------------------------------------------------------------------
\* Another pane's session begins or ends, or the person goes elsewhere.
Changes ==
    /\ changes < MaxChanges /\ changes' = changes + 1
    /\ \/ /\ \E q \in Sibling, s \in Sessions \cup {Idle} :
                runs' = [runs EXCEPT ![q] = Line(s)]
          /\ UNCHANGED <<focused, devpod>>
       \/ focused' \in Sibling /\ UNCHANGED <<runs, devpod>>
       \/ \E w \in devpod : devpod' = devpod \ {w} /\ UNCHANGED <<runs, focused>>
    /\ shown' = shown \cup {runs'[q] : q \in Tab}
    /\ UNCHANGED <<shell, spent>>

Goes == List \/ Ask \/ Unheld \/ Launch
Next == Goes \/ SessionEnds \/ Changes
Spec == Init /\ [][Next]_vars /\ WF_vars(Goes)

-----------------------------------------------------------------------------
\* The pane joins a session that one pane of its tab has run since it began to
\* ask, with that session's own login, whatever sessions came and went meanwhile
\* (destination_for asks the same pane both questions).
JoinsTheLive == step \in {"launch", "session"} => Line(found) \in shown

\* However many panes the tab holds and however slow the manager, the questions
\* take the budget, and once what a killed call overran by.
WithinBudget == spent <= Within + Grace

\* All that is said of a new pane at once.
PaneSafe == TypeOK /\ JoinsTheLive /\ WithinBudget
=============================================================================
