--------------------------- MODULE ProcessesProofs ---------------------------
(***************************************************************************)
(* Theorems about the machines of MCProcesses, each for every value of its *)
(* constants: the shells that share a container (PaneShell), the runner's  *)
(* calls (Runner), what a signal finds and leaves (Interrupt), the         *)
(* updaters of the completion cache (Refresh), and what a pane and its     *)
(* container are told of a session (Reporting).  Each has an inductive     *)
(* invariant of its own, kept by its own steps; the machines share no      *)
(* state, so that a behaviour of the composition keeps the invariant of    *)
(* the machine it is of.                                                   *)
(***************************************************************************)
EXTENDS Naturals, Sequences, MCProcesses, FiniteSetTheorems, TLAPS

(***************************************************************************)
(* A behaviour is of one machine, and its steps are that machine's.        *)
(***************************************************************************)
LEMMA StartsAsOne ==
    Init => /\ part = "runner"    => Rn!Init
            /\ part = "interrupt" => In!Init
            /\ part = "refresh"   => Rf!Init
            /\ part = "pane"      => Pn!Init
            /\ part = "alone"     => Ra!Init
            /\ part = "beside"    => Rb!Init
  BY Zenon DEF Init, InitRn, InitIn, InitRf, InitRd, InitPn, InitRa, InitRb

LEMMA StepsAsOne ==
    [Next]_vars => /\ part' = part
                   /\ part = "runner"    => [Rn!Next]_Rn!vars
                   /\ part = "interrupt" => [In!Next]_In!vars
                   /\ part = "refresh"   => [Rf!Next]_Rf!vars
                   /\ part = "pane"      => [Pn!Next]_Pn!vars
                   /\ part = "alone"     => [Ra!Next]_Ra!vars
                   /\ part = "beside"    => [Rb!Next]_Rb!vars
  <1>1. CASE Next
    BY <1>1, Zenon DEF Next, StepRn, StepIn, StepRf, StepRd, StepPn, StepRa, StepRb
  <1>2. CASE UNCHANGED vars
    BY <1>2 DEF vars, ofRunner, ofRunnerRefresh, ofRunnerInterruptReporting, ofInterrupt,
       ofInterruptReporting, ofInterruptPaneShell, ofRefresh, ofRefreshPaneShell, ofPaneShell,
       ofReporting, Ra!vars, Ra!container, Ra!history, Ra!counts,
       Rb!vars, Rb!container, Rb!history, Rb!counts,
       Rn!vars, Rn!world, Rn!reads, Rn!clocks, Rn!main, In!vars, In!env, In!registry,
       In!children, In!handling, Rf!vars, Pn!vars, Pn!shell
  <1> QED
    BY <1>1, <1>2

(***************************************************************************)
(* The shell of a new pane.  What is left of the budget and what has been  *)
(* spent make up the budget until a call overruns it, after which nothing  *)
(* is asked; and what one pane of the tab runs is what the tab has shown.  *)
(***************************************************************************)
PaneSupposed == Pn!TabAssumption /\ Pn!BoundsAssumption /\ Pn!NothingAssumption

LEMMA PaneGiven == PaneSupposed
  BY PnTabAssumption, PnBoundsAssumption, PnNothingAssumption DEF PaneSupposed

PaneTypes ==
    /\ runs \in [Sibling -> {Pn!Line(s) : s \in Pn!Sessions \cup {Pn!Idle}}]
    /\ focused \in Sibling /\ devpod \subseteq Workspace
    /\ step \in {"list", "ask", "launch", "session", "over", "shell"}
    /\ asking \in Seq(Tab) /\ left \in 0..Within
    /\ found \in Pn!Sessions \cup {Pn!Idle}

Spending ==
    /\ spent \in Nat
    /\ IF left = 0 THEN spent <= Within + Grace ELSE spent + left = Within

Showing ==
    /\ \A q \in Tab : runs[q] \in shown
    /\ step \in {"launch", "session"} => Pn!Line(found) \in shown

PaneInv == PaneTypes /\ Spending /\ Showing

LEMMA OneNames ==
    ASSUME NEW line, NEW variable, NEW n \in Nat,
           {i \in DOMAIN line : line[i][variable] # Nothing} = {n}
    PROVE  Pn!FirstNamed(line, variable) = line[n][variable]
  <1>1. Pn!Min({n}) = n
    BY DEF Pn!Min
  <1> QED
    BY <1>1, Zenon DEF Pn!FirstNamed

\* A line names what its session is, or nothing (workspace_among, profile_among).
LEMMA LineNames ==
    ASSUME PaneSupposed, NEW s \in Pn!Sessions \cup {Pn!Idle},
           Pn!Named(Pn!Line(s)).workspace # Nothing
    PROVE  s \in Pn!Sessions /\ Pn!Named(Pn!Line(s)) = s
  <1>1. s \in Pn!Sessions
    <2> SUFFICES ASSUME s = Pn!Idle PROVE FALSE
      OBVIOUS
    <2>1. Pn!FirstNamed(<<>>, "workspace") = Nothing
      <3>1. {i \in DOMAIN <<>> : <<>>[i]["workspace"] # Nothing} = {}
        OBVIOUS
      <3> QED
        BY <3>1 DEF Pn!FirstNamed, Pn!Idle
    <2> QED
      BY <2>1 DEF Pn!Line, Pn!Named
  <1> DEFINE line == <<[workspace |-> Nothing, profile |-> s.profile],
                       [workspace |-> s.workspace, profile |-> Nothing]>>
  <1>2. s.workspace \in Workspace /\ s.workspace # Nothing
    BY <1>1 DEF Pn!Sessions, PaneSupposed, Pn!NothingAssumption
  <1>3. s # Pn!Idle
    BY <1>2 DEF Pn!Idle
  <1>4. Pn!Line(s) = line
    BY <1>1, <1>3 DEF Pn!Line, Pn!Idle, Pn!Sessions
  <1>5. Pn!FirstNamed(line, "workspace") = s.workspace
    <2>1. {i \in DOMAIN line : line[i]["workspace"] # Nothing} = {2}
      BY <1>2
    <2>2. Pn!FirstNamed(line, "workspace") = line[2]["workspace"]
      BY <2>1, OneNames
    <2> QED
      BY <2>2
  <1>6. Pn!FirstNamed(line, "profile") = s.profile
    <2>1. CASE s.profile = Nothing
      <3>1. {i \in DOMAIN line : line[i]["profile"] # Nothing} = {}
        BY <2>1
      <3> QED
        BY <2>1, <3>1 DEF Pn!FirstNamed, Pn!Idle
    <2>2. CASE s.profile # Nothing
      <3>1. {i \in DOMAIN line : line[i]["profile"] # Nothing} = {1}
        BY <2>2
      <3>2. Pn!FirstNamed(line, "profile") = line[1]["profile"]
        BY <3>1, OneNames
      <3> QED
        BY <3>2
    <2> QED
      BY <2>1, <2>2
  <1> QED
    BY <1>1, <1>4, <1>5, <1>6 DEF Pn!Named, Pn!Sessions

\* The panes that are asked are the tab's (in_tab).
LEMMA AsksTheTab == ASSUME PaneSupposed PROVE Pn!InTab \subseteq Seq(Tab)
  <1>1. Pn!Cardinality(Tab) \in Nat
    <2>1. IsFiniteSet(Tab)
      BY Zenon DEF PaneSupposed, Pn!TabAssumption, Pn!IsFiniteSet, IsFiniteSet
    <2>2. Pn!Cardinality(Tab) = Cardinality(Tab)
      BY Zenon DEF Pn!Cardinality, Cardinality
    <2> QED
      BY <2>1, <2>2, FS_CardinalityType
  <1>2. ASSUME NEW order \in Pn!InTab PROVE order \in [1..Pn!Cardinality(Tab) -> Tab]
    BY <1>2, Zenon DEF Pn!InTab, Pn!SetToSeqs
  <1> QED
    BY <1>1, <1>2

LEMMA PaneInit == ASSUME PaneSupposed PROVE Pn!Init => PaneInv
  <1> SUFFICES ASSUME Pn!Init PROVE PaneInv
    OBVIOUS
  <1>1. Within \in Nat \ {0} /\ Grace \in Nat /\ Tab \subseteq Sibling
    BY DEF PaneSupposed, Pn!BoundsAssumption, Pn!TabAssumption
  <1>2. PaneTypes
    BY <1>1 DEF Pn!Init, PaneTypes
  <1>3. Spending
    BY <1>1 DEF Pn!Init, Spending
  <1>4. Showing
    BY DEF Pn!Init, Showing
  <1> QED
    BY <1>2, <1>3, <1>4 DEF PaneInv

\* What a question takes (Budget::spend).
LEMMA Spends ==
    ASSUME PaneSupposed, PaneInv, NEW taken \in Pn!Takes, Pn!Spend(taken)
    PROVE  Spending' /\ left' \in 0..Within
  <1>1. /\ left \in 1..Within /\ taken \in 1..(left + Grace)
        /\ Within \in Nat /\ Grace \in Nat /\ spent \in Nat /\ spent + left = Within
    BY DEF Pn!Takes, PaneInv, PaneTypes, Spending, PaneSupposed, Pn!BoundsAssumption
  <1> QED
    BY <1>1 DEF Pn!Spend, Spending

LEMMA PaneStep == ASSUME PaneSupposed PROVE PaneInv /\ [Pn!Next]_Pn!vars => PaneInv'
  <1> SUFFICES ASSUME PaneInv, [Pn!Next]_Pn!vars PROVE PaneInv'
    OBVIOUS
  <1>1. CASE Pn!List
    <2>1. PICK taken \in Pn!Takes : Pn!Spend(taken)
      BY <1>1 DEF Pn!List
    <2>2. asking' \in Seq(Tab) /\ step' \in {"ask", "shell"} /\ found' = found
      BY <1>1, AsksTheTab DEF Pn!List, Pn!HostShell, PaneInv, PaneTypes
    <2> QED
      BY <1>1, <2>1, <2>2, Spends DEF Pn!List, PaneInv, PaneTypes, Showing
  <1>2. CASE Pn!Ask
    <2>1. /\ Spending' /\ left' \in 0..Within
      BY <1>2, Spends DEF Pn!Ask, PaneInv, PaneTypes, Spending
    <2>2. /\ asking' \in Seq(Tab) /\ UNCHANGED <<runs, focused, devpod, shown>>
          /\ Head(asking) \in Tab
      BY <1>2 DEF Pn!Ask, PaneInv, PaneTypes
    <2>3. \/ step' = "ask" /\ found' = found
          \/ /\ step' = "launch" /\ found' = Pn!Named(runs[Head(asking)])
             /\ found'.workspace # Nothing
      BY <1>2 DEF Pn!Ask
    <2>4. PICK s \in Pn!Sessions \cup {Pn!Idle} : runs[Head(asking)] = Pn!Line(s)
      BY <2>2 DEF PaneInv, PaneTypes, PaneSupposed, Pn!TabAssumption
    <2>5. step' = "launch" => found' = s /\ s \in Pn!Sessions
      BY <2>3, <2>4, LineNames
    <2>6. PaneTypes'
      BY <2>1, <2>2, <2>3, <2>5 DEF PaneInv, PaneTypes
    <2>7. Showing'
      BY <2>2, <2>3, <2>4, <2>5 DEF PaneInv, Showing
    <2> QED
      BY <2>1, <2>6, <2>7 DEF PaneInv
  <1>3. CASE Pn!Unheld
    BY <1>3 DEF Pn!Unheld, Pn!HostShell, PaneInv, PaneTypes, Spending, Showing
  <1>4. CASE Pn!Launch
    BY <1>4 DEF Pn!Launch, PaneInv, PaneTypes, Spending, Showing
  <1>5. CASE Pn!SessionEnds
    BY <1>5 DEF Pn!SessionEnds, PaneInv, PaneTypes, Spending, Showing
  <1>6. CASE Pn!Changes
    <2>1. /\ UNCHANGED <<step, asking, left, found, spent>>
          /\ \A q \in Tab : runs'[q] \in shown'
          /\ shown \subseteq shown'
      BY <1>6 DEF Pn!Changes, Pn!shell
    <2>2. /\ runs' \in [Sibling -> {Pn!Line(s) : s \in Pn!Sessions \cup {Pn!Idle}}]
          /\ focused' \in Sibling /\ devpod' \subseteq Workspace
      BY <1>6 DEF Pn!Changes, PaneInv, PaneTypes
    <2> QED
      BY <2>1, <2>2 DEF PaneInv, PaneTypes, Spending, Showing
  <1>7. CASE UNCHANGED Pn!vars
    BY <1>7 DEF Pn!vars, Pn!shell, PaneInv, PaneTypes, Spending, Showing
  <1> QED
    BY <1>1, <1>2, <1>3, <1>4, <1>5, <1>6, <1>7 DEF Pn!Next, Pn!Goes

LEMMA PaneMeans == ASSUME PaneSupposed, PaneInv PROVE Pn!PaneSafe
  <1>1. Pn!TypeOK
    BY DEF PaneInv, PaneTypes, Pn!TypeOK
  <1>2. Pn!JoinsTheLive
    BY DEF PaneInv, Showing, Pn!JoinsTheLive
  <1>3. Pn!WithinBudget
    BY DEF PaneInv, PaneTypes, Spending, Pn!WithinBudget, PaneSupposed,
       Pn!BoundsAssumption
  <1> QED
    BY <1>1, <1>2, <1>3 DEF Pn!PaneSafe

\* Whatever sessions begin, end or lose their workspace while it asks, and however
\* slow the manager, a new pane joins a session that one pane of its tab has run since
\* it began to ask, with that session's own login, and its questions take the budget
\* and once what a killed call overran by (destination_for, Budget).
THEOREM PaneJoinsTheLive == Spec => []PaneSafe
  <1> DEFINE OwnInv == part = "pane" => PaneInv
  <1>1. Init => OwnInv
    BY StartsAsOne, PaneInit, PaneGiven
  <1>2. OwnInv /\ [Next]_vars => OwnInv'
    BY StepsAsOne, PaneStep, PaneGiven
  <1>3. OwnInv => PaneSafe
    BY PaneMeans, PaneGiven DEF PaneSafe
  <1> QED
    BY <1>1, <1>2, <1>3, PTL DEF Spec

(***************************************************************************)
(* One call of the runner. A stream's writes are in the pipe, with its     *)
(* thread, or with the caller, until a line-by-line method gives up on     *)
(* them; a thread that has ended has seen the end of its pipe, after which *)
(* nobody writes; and the caller has taken from a thread what it had by    *)
(* the time it goes on.                                                    *)
(***************************************************************************)
RunSupposed == Rn!MethodsAssumption /\ Rn!BoundsAssumption

LEMMA RunGiven == RunSupposed
  BY RnMethodsAssumption, RnBoundsAssumption DEF RunSupposed

RunTypes ==
    /\ Rn!TypeOK
    /\ \A s \in Rn!Stream : said[s] <= plan[s]
    /\ \A s \in Rn!Stream : ~Rn!Piped(s) => plan[s] = 0
    /\ child = "none" => \A s \in Rn!Stream : said[s] = 0

\* What the caller's step comes after.
Placed ==
    /\ pc \in {"start", "spawned", "done"} => ~foreground
    /\ call.own => foreground \/ pc \in {"start", "spawned", "done", "dead"}
    /\ pc = "start" => child = "none"
    /\ child = "none" => pc \in {"start", "done", "dead"}
    /\ pc = "done" => child \in {"none", "reaped"}
    /\ pc \in {"collectStdout", "collectStderr", "join", "clear"} => child = "reaped"
    /\ pc = "dead" /\ call.own /\ child \in {"running", "closed"} => diedAt = "spawned"
    /\ pc \in {"stream", "join"} => Rn!Streamed
    /\ pc \in {"collectStdout", "collectStderr"} =>
          call.method = "capture" /\ outcome = "ran"
    /\ pc \in {"start", "spawned", "stream", "waiting"} => outcome = "none"
    /\ outcome = "ran" => child = "reaped"
    /\ pc \in {"join", "clear"} => outcome \in {"ran", "timedOut"}
    /\ pc = "done" => outcome \in {"ran", "timedOut"} \/ child = "none"

\* The threads there are.
Threaded ==
    /\ \A s \in Rn!Stream : child = "none" \/ ~Rn!Piped(s) => reader[s] = "none"
    /\ pc # "dead" /\ child # "none" =>
          \A s \in Rn!Stream : Rn!Piped(s) => reader[s] # "none"

\* What the child wrote is under way or heard, and all of it once a thread has ended,
\* but for a line-by-line method that gave up.
Whole ==
    pc # "dead" =>
        /\ child \in {"closed", "zombie"} \/ outcome = "ran" => said = plan
        /\ ~(Rn!Streamed /\ outcome = "timedOut") =>
              \A s \in Rn!Stream :
                  /\ Rn!Piped(s) => heard[s] + got[s] + pipe[s] = said[s]
                  /\ reader[s] = "ended" => pipe[s] = 0 /\ ~Rn!Open

\* What has been handed over.
HandedOver ==
    /\ call.method = "capture" =>
          /\ heard["stdout"] = 0 \/ pc \in {"collectStderr", "clear", "done", "dead"}
          /\ heard["stderr"] = 0 \/ pc \in {"clear", "done", "dead"}
    /\ call.method = "capture" /\ outcome = "ran" /\ ~graced =>
          /\ pc \in {"collectStderr", "clear", "done"} =>
                reader["stdout"] = "ended" /\ got["stdout"] = 0
          /\ pc \in {"clear", "done"} => reader["stderr"] = "ended" /\ got["stderr"] = 0
    /\ Rn!Streamed /\ outcome # "timedOut"
          /\ pc \in {"waiting", "killing", "join", "clear", "done"} =>
          Rn!Silent /\ Rn!AllEnded

RunInv == RunTypes /\ Placed /\ Threaded /\ Whole /\ HandedOver

LEMMA RunWrite == ASSUME RunSupposed, RunInv, NEW s \in Rn!Stream, Rn!Write(s) PROVE RunInv'
  <1> USE DEF RunSupposed, Rn!BoundsAssumption, Rn!Stream, Rn!Write, Rn!world, Rn!reads,
              Rn!clocks, Rn!main, Rn!Open, Rn!Streamed, Rn!Piped, Rn!AllEnded, Rn!Silent
  <1>1. RunTypes'
    BY DEF RunInv, RunTypes, Rn!TypeOK
  <1>2. Placed'
    BY DEF RunInv, RunTypes, Rn!TypeOK, Placed
  <1>3. Threaded'
    BY DEF RunInv, RunTypes, Rn!TypeOK, Placed, Threaded
  <1>4. Whole'
    BY DEF RunInv, RunTypes, Rn!TypeOK, Placed, Threaded, Whole
  <1>5. HandedOver'
    BY DEF RunInv, RunTypes, Rn!TypeOK, Placed, Threaded, Whole, HandedOver
  <1> QED
    BY <1>1, <1>2, <1>3, <1>4, <1>5 DEF RunInv

LEMMA RunCloseStreams == ASSUME RunSupposed, RunInv, Rn!CloseStreams PROVE RunInv'
  <1> USE DEF RunSupposed, Rn!BoundsAssumption, Rn!Stream, Rn!CloseStreams, Rn!world, Rn!reads,
              Rn!clocks, Rn!main, Rn!Open, Rn!Streamed, Rn!Piped, Rn!AllEnded, Rn!Silent
  <1>1. RunTypes'
    BY DEF RunInv, RunTypes, Rn!TypeOK
  <1>2. Placed'
    BY DEF RunInv, RunTypes, Rn!TypeOK, Placed
  <1>3. Threaded'
    BY DEF RunInv, RunTypes, Rn!TypeOK, Placed, Threaded
  <1>4. Whole'
    BY DEF RunInv, RunTypes, Rn!TypeOK, Placed, Threaded, Whole
  <1>5. HandedOver'
    BY DEF RunInv, RunTypes, Rn!TypeOK, Placed, Threaded, Whole, HandedOver
  <1> QED
    BY <1>1, <1>2, <1>3, <1>4, <1>5 DEF RunInv

LEMMA RunExit == ASSUME RunSupposed, RunInv, Rn!Exit PROVE RunInv'
  <1> USE DEF RunSupposed, Rn!BoundsAssumption, Rn!Stream, Rn!Exit, Rn!world, Rn!reads,
              Rn!clocks, Rn!main, Rn!Open, Rn!Streamed, Rn!Piped, Rn!AllEnded, Rn!Silent
  <1>1. RunTypes'
    BY DEF RunInv, RunTypes, Rn!TypeOK
  <1>2. Placed'
    BY DEF RunInv, RunTypes, Rn!TypeOK, Placed
  <1>3. Threaded'
    BY DEF RunInv, RunTypes, Rn!TypeOK, Placed, Threaded
  <1>4. Whole'
    BY DEF RunInv, RunTypes, Rn!TypeOK, Placed, Threaded, Whole
  <1>5. HandedOver'
    BY DEF RunInv, RunTypes, Rn!TypeOK, Placed, Threaded, Whole, HandedOver
  <1> QED
    BY <1>1, <1>2, <1>3, <1>4, <1>5 DEF RunInv

LEMMA RunFork == ASSUME RunSupposed, RunInv, Rn!Fork PROVE RunInv'
  <1> USE DEF RunSupposed, Rn!BoundsAssumption, Rn!Stream, Rn!Fork, Rn!world, Rn!reads,
              Rn!clocks, Rn!main, Rn!Open, Rn!Streamed, Rn!Piped, Rn!AllEnded, Rn!Silent
  <1>1. RunTypes'
    BY DEF RunInv, RunTypes, Rn!TypeOK
  <1>2. Placed'
    BY DEF RunInv, RunTypes, Rn!TypeOK, Placed
  <1>3. Threaded'
    BY DEF RunInv, RunTypes, Rn!TypeOK, Placed, Threaded
  <1>4. Whole'
    BY DEF RunInv, RunTypes, Rn!TypeOK, Placed, Threaded, Whole
  <1>5. HandedOver'
    BY DEF RunInv, RunTypes, Rn!TypeOK, Placed, Threaded, Whole, HandedOver
  <1> QED
    BY <1>1, <1>2, <1>3, <1>4, <1>5 DEF RunInv

LEMMA RunStragglerEnds == ASSUME RunSupposed, RunInv, Rn!StragglerEnds PROVE RunInv'
  <1> USE DEF RunSupposed, Rn!BoundsAssumption, Rn!Stream, Rn!StragglerEnds, Rn!world, Rn!reads,
              Rn!clocks, Rn!main, Rn!Open, Rn!Streamed, Rn!Piped, Rn!AllEnded, Rn!Silent
  <1>1. RunTypes'
    BY DEF RunInv, RunTypes, Rn!TypeOK
  <1>2. Placed'
    BY DEF RunInv, RunTypes, Rn!TypeOK, Placed
  <1>3. Threaded'
    BY DEF RunInv, RunTypes, Rn!TypeOK, Placed, Threaded
  <1>4. Whole'
    BY DEF RunInv, RunTypes, Rn!TypeOK, Placed, Threaded, Whole
  <1>5. HandedOver'
    BY DEF RunInv, RunTypes, Rn!TypeOK, Placed, Threaded, Whole, HandedOver
  <1> QED
    BY <1>1, <1>2, <1>3, <1>4, <1>5 DEF RunInv

LEMMA RunRead == ASSUME RunSupposed, RunInv, NEW s \in Rn!Stream, Rn!Read(s) PROVE RunInv'
  <1> USE DEF RunSupposed, Rn!BoundsAssumption, Rn!Stream, Rn!Read, Rn!world, Rn!reads,
              Rn!clocks, Rn!main, Rn!Open, Rn!Streamed, Rn!Piped, Rn!AllEnded, Rn!Silent
  <1>1. RunTypes'
    BY DEF RunInv, RunTypes, Rn!TypeOK
  <1>2. Placed'
    BY DEF RunInv, RunTypes, Rn!TypeOK, Placed
  <1>3. Threaded'
    BY DEF RunInv, RunTypes, Rn!TypeOK, Placed, Threaded
  <1>4. Whole'
    <2>1. CASE Rn!Listening
      BY <2>1 DEF RunInv, RunTypes, Rn!TypeOK, Placed, Threaded, Whole
    <2>2. CASE ~Rn!Listening
      <3>1. pc = "dead" \/ (Rn!Streamed /\ outcome = "timedOut")
        BY <2>2 DEF RunInv, RunTypes, Rn!TypeOK, Placed, Threaded, HandedOver, Rn!Listening
      <3> QED
        BY <3>1 DEF RunInv, Whole
    <2> QED
      BY <2>1, <2>2
  <1>5. HandedOver'
    BY DEF RunInv, RunTypes, Rn!TypeOK, Placed, Threaded, Whole, HandedOver
  <1> QED
    BY <1>1, <1>2, <1>3, <1>4, <1>5 DEF RunInv

LEMMA RunEof == ASSUME RunSupposed, RunInv, NEW s \in Rn!Stream, Rn!Eof(s) PROVE RunInv'
  <1> USE DEF RunSupposed, Rn!BoundsAssumption, Rn!Stream, Rn!Eof, Rn!world, Rn!reads,
              Rn!clocks, Rn!main, Rn!Open, Rn!Streamed, Rn!Piped, Rn!AllEnded, Rn!Silent
  <1>1. RunTypes'
    BY DEF RunInv, RunTypes, Rn!TypeOK
  <1>2. Placed'
    BY DEF RunInv, RunTypes, Rn!TypeOK, Placed
  <1>3. Threaded'
    BY DEF RunInv, RunTypes, Rn!TypeOK, Placed, Threaded
  <1>4. Whole'
    BY DEF RunInv, RunTypes, Rn!TypeOK, Placed, Threaded, Whole
  <1>5. HandedOver'
    BY DEF RunInv, RunTypes, Rn!TypeOK, Placed, Threaded, Whole, HandedOver
  <1> QED
    BY <1>1, <1>2, <1>3, <1>4, <1>5 DEF RunInv

LEMMA RunLimitPasses == ASSUME RunSupposed, RunInv, Rn!LimitPasses PROVE RunInv'
  <1> USE DEF RunSupposed, Rn!BoundsAssumption, Rn!Stream, Rn!LimitPasses, Rn!world, Rn!reads,
              Rn!clocks, Rn!main, Rn!Open, Rn!Streamed, Rn!Piped, Rn!AllEnded, Rn!Silent
  <1>1. RunTypes'
    BY DEF RunInv, RunTypes, Rn!TypeOK
  <1>2. Placed'
    BY DEF RunInv, RunTypes, Rn!TypeOK, Placed
  <1>3. Threaded'
    BY DEF RunInv, RunTypes, Rn!TypeOK, Placed, Threaded
  <1>4. Whole'
    BY DEF RunInv, RunTypes, Rn!TypeOK, Placed, Threaded, Whole
  <1>5. HandedOver'
    BY DEF RunInv, RunTypes, Rn!TypeOK, Placed, Threaded, Whole, HandedOver
  <1> QED
    BY <1>1, <1>2, <1>3, <1>4, <1>5 DEF RunInv

LEMMA RunGracePasses == ASSUME RunSupposed, RunInv, Rn!GracePasses PROVE RunInv'
  <1> USE DEF RunSupposed, Rn!BoundsAssumption, Rn!Stream, Rn!GracePasses, Rn!world, Rn!reads,
              Rn!clocks, Rn!main, Rn!Open, Rn!Streamed, Rn!Piped, Rn!AllEnded, Rn!Silent
  <1>1. RunTypes'
    BY DEF RunInv, RunTypes, Rn!TypeOK
  <1>2. Placed'
    BY DEF RunInv, RunTypes, Rn!TypeOK, Placed
  <1>3. Threaded'
    BY DEF RunInv, RunTypes, Rn!TypeOK, Placed, Threaded
  <1>4. Whole'
    BY DEF RunInv, RunTypes, Rn!TypeOK, Placed, Threaded, Whole
  <1>5. HandedOver'
    BY DEF RunInv, RunTypes, Rn!TypeOK, Placed, Threaded, Whole, HandedOver
  <1> QED
    BY <1>1, <1>2, <1>3, <1>4, <1>5 DEF RunInv

LEMMA RunStart == ASSUME RunSupposed, RunInv, Rn!Start PROVE RunInv'
  <1> USE DEF RunSupposed, Rn!BoundsAssumption, Rn!Stream, Rn!Start, Rn!world, Rn!reads,
              Rn!clocks, Rn!main, Rn!Open, Rn!Streamed, Rn!Piped, Rn!AllEnded, Rn!Silent
  <1>1. RunTypes'
    BY DEF RunInv, RunTypes, Rn!TypeOK
  <1>2. Placed'
    BY DEF RunInv, RunTypes, Rn!TypeOK, Placed
  <1>3. Threaded'
    BY DEF RunInv, RunTypes, Rn!TypeOK, Placed, Threaded
  <1>4. Whole'
    BY DEF RunInv, RunTypes, Rn!TypeOK, Placed, Threaded, Whole
  <1>5. HandedOver'
    BY DEF RunInv, RunTypes, Rn!TypeOK, Placed, Threaded, Whole, HandedOver
  <1> QED
    BY <1>1, <1>2, <1>3, <1>4, <1>5 DEF RunInv

LEMMA RunStartRefused == ASSUME RunSupposed, RunInv, Rn!StartRefused PROVE RunInv'
  <1> USE DEF RunSupposed, Rn!BoundsAssumption, Rn!Stream, Rn!StartRefused, Rn!world, Rn!reads,
              Rn!clocks, Rn!main, Rn!Open, Rn!Streamed, Rn!Piped, Rn!AllEnded, Rn!Silent
  <1>1. RunTypes'
    BY DEF RunInv, RunTypes, Rn!TypeOK
  <1>2. Placed'
    BY DEF RunInv, RunTypes, Rn!TypeOK, Placed
  <1>3. Threaded'
    BY DEF RunInv, RunTypes, Rn!TypeOK, Placed, Threaded
  <1>4. Whole'
    BY DEF RunInv, RunTypes, Rn!TypeOK, Placed, Threaded, Whole
  <1>5. HandedOver'
    BY DEF RunInv, RunTypes, Rn!TypeOK, Placed, Threaded, HandedOver
  <1> QED
    BY <1>1, <1>2, <1>3, <1>4, <1>5 DEF RunInv

LEMMA RunNoteGroup == ASSUME RunSupposed, RunInv, Rn!NoteGroup PROVE RunInv'
  <1> USE DEF RunSupposed, Rn!BoundsAssumption, Rn!Stream, Rn!NoteGroup, Rn!world, Rn!reads,
              Rn!clocks, Rn!main, Rn!Open, Rn!Streamed, Rn!Piped, Rn!AllEnded, Rn!Silent
  <1>1. RunTypes'
    BY DEF RunInv, RunTypes, Rn!TypeOK, Rn!Call
  <1>2. Placed'
    BY DEF RunInv, RunTypes, Rn!TypeOK, Placed
  <1>3. Threaded'
    BY DEF RunInv, RunTypes, Rn!TypeOK, Placed, Threaded
  <1>4. Whole'
    BY DEF RunInv, RunTypes, Rn!TypeOK, Placed, Threaded, Whole
  <1>5. HandedOver'
    BY DEF RunInv, RunTypes, Rn!TypeOK, Placed, Threaded, Whole, HandedOver
  <1> QED
    BY <1>1, <1>2, <1>3, <1>4, <1>5 DEF RunInv

LEMMA RunHear == ASSUME RunSupposed, RunInv, NEW s \in Rn!Stream, Rn!Hear(s) PROVE RunInv'
  <1> USE DEF RunSupposed, Rn!BoundsAssumption, Rn!Stream, Rn!Hear, Rn!world, Rn!reads,
              Rn!clocks, Rn!main, Rn!Open, Rn!Streamed, Rn!Piped, Rn!AllEnded, Rn!Silent
  <1>1. RunTypes'
    BY DEF RunInv, RunTypes, Rn!TypeOK
  <1>2. Placed'
    BY DEF RunInv, RunTypes, Rn!TypeOK, Placed
  <1>3. Threaded'
    BY DEF RunInv, RunTypes, Rn!TypeOK, Placed, Threaded
  <1>4. Whole'
    <2>1. \A r \in Rn!Stream : heard'[r] + got'[r] = heard[r] + got[r]
      BY DEF RunInv, RunTypes, Rn!TypeOK
    <2>2. \A r \in Rn!Stream : /\ heard[r] \in Nat /\ got[r] \in Nat /\ pipe[r] \in Nat
                               /\ heard'[r] \in Nat /\ got'[r] \in Nat
      BY <1>1 DEF RunInv, RunTypes, Rn!TypeOK
    <2>3. \A r \in Rn!Stream : heard'[r] + got'[r] + pipe[r] = heard[r] + got[r] + pipe[r]
      BY <2>1, <2>2
    <2> QED
      BY <2>3 DEF RunInv, Whole
  <1>5. HandedOver'
    BY DEF RunInv, RunTypes, Rn!TypeOK, Placed, Threaded, Whole, HandedOver
  <1> QED
    BY <1>1, <1>2, <1>3, <1>4, <1>5 DEF RunInv

LEMMA RunClosed == ASSUME RunSupposed, RunInv, Rn!Closed PROVE RunInv'
  <1> USE DEF RunSupposed, Rn!BoundsAssumption, Rn!Stream, Rn!Closed, Rn!world, Rn!reads,
              Rn!clocks, Rn!main, Rn!Open, Rn!Streamed, Rn!Piped, Rn!AllEnded, Rn!Silent
  <1>1. RunTypes'
    BY DEF RunInv, RunTypes, Rn!TypeOK
  <1>2. Placed'
    BY DEF RunInv, RunTypes, Rn!TypeOK, Placed
  <1>3. Threaded'
    BY DEF RunInv, RunTypes, Rn!TypeOK, Placed, Threaded
  <1>4. Whole'
    BY DEF RunInv, RunTypes, Rn!TypeOK, Placed, Threaded, Whole
  <1>5. HandedOver'
    BY DEF RunInv, RunTypes, Rn!TypeOK, Placed, Threaded, Whole, HandedOver
  <1> QED
    BY <1>1, <1>2, <1>3, <1>4, <1>5 DEF RunInv

LEMMA RunElapsed == ASSUME RunSupposed, RunInv, Rn!Elapsed PROVE RunInv'
  <1> USE DEF RunSupposed, Rn!BoundsAssumption, Rn!Stream, Rn!Elapsed, Rn!world, Rn!reads,
              Rn!clocks, Rn!main, Rn!Open, Rn!Streamed, Rn!Piped, Rn!AllEnded, Rn!Silent
  <1>1. RunTypes'
    BY DEF RunInv, RunTypes, Rn!TypeOK
  <1>2. Placed'
    BY DEF RunInv, RunTypes, Rn!TypeOK, Placed
  <1>3. Threaded'
    BY DEF RunInv, RunTypes, Rn!TypeOK, Placed, Threaded
  <1>4. Whole'
    BY DEF RunInv, RunTypes, Rn!TypeOK, Placed, Threaded, Whole
  <1>5. HandedOver'
    BY DEF RunInv, RunTypes, Rn!TypeOK, Placed, Threaded, Whole, HandedOver
  <1> QED
    BY <1>1, <1>2, <1>3, <1>4, <1>5 DEF RunInv

LEMMA RunReap == ASSUME RunSupposed, RunInv, Rn!Reap PROVE RunInv'
  <1> USE DEF RunSupposed, Rn!BoundsAssumption, Rn!Stream, Rn!Reap, Rn!world, Rn!reads,
              Rn!clocks, Rn!main, Rn!Open, Rn!Streamed, Rn!Piped, Rn!AllEnded, Rn!Silent
  <1>0. pc' = IF call.method = "capture" THEN "collectStdout"
              ELSE IF Rn!Streamed /\ outcome # "timedOut" THEN "join" ELSE "clear"
    BY DEF Rn!After, Rn!Streamed
  <1>1. RunTypes'
    BY <1>0 DEF RunInv, RunTypes, Rn!TypeOK
  <1>2. Placed'
    BY <1>0 DEF RunInv, RunTypes, Rn!TypeOK, Placed
  <1>3. Threaded'
    BY <1>0 DEF RunInv, RunTypes, Rn!TypeOK, Placed, Threaded
  <1>4. Whole'
    BY <1>0 DEF RunInv, RunTypes, Rn!TypeOK, Placed, Threaded, Whole
  <1>5. HandedOver'
    BY <1>0 DEF RunInv, RunTypes, Rn!TypeOK, Placed, Threaded, Whole, HandedOver
  <1> QED
    BY <1>1, <1>2, <1>3, <1>4, <1>5 DEF RunInv

LEMMA RunGiveUp == ASSUME RunSupposed, RunInv, Rn!GiveUp PROVE RunInv'
  <1> USE DEF RunSupposed, Rn!BoundsAssumption, Rn!Stream, Rn!GiveUp, Rn!world, Rn!reads,
              Rn!clocks, Rn!main, Rn!Open, Rn!Streamed, Rn!Piped, Rn!AllEnded, Rn!Silent
  <1>1. RunTypes'
    BY DEF RunInv, RunTypes, Rn!TypeOK
  <1>2. Placed'
    BY DEF RunInv, RunTypes, Rn!TypeOK, Placed
  <1>3. Threaded'
    BY DEF RunInv, RunTypes, Rn!TypeOK, Placed, Threaded
  <1>4. Whole'
    BY DEF RunInv, RunTypes, Rn!TypeOK, Placed, Threaded, Whole
  <1>5. HandedOver'
    BY DEF RunInv, RunTypes, Rn!TypeOK, Placed, Threaded, Whole, HandedOver
  <1> QED
    BY <1>1, <1>2, <1>3, <1>4, <1>5 DEF RunInv

LEMMA RunKill == ASSUME RunSupposed, RunInv, Rn!Kill PROVE RunInv'
  <1> USE DEF RunSupposed, Rn!BoundsAssumption, Rn!Stream, Rn!Kill, Rn!world, Rn!reads,
              Rn!clocks, Rn!main, Rn!Open, Rn!Streamed, Rn!Piped, Rn!AllEnded, Rn!Silent
  <1>0. pc' = IF Rn!Streamed /\ outcome # "timedOut" THEN "join" ELSE "clear"
    BY DEF Rn!After, Rn!Streamed
  <1>1. RunTypes'
    BY <1>0 DEF RunInv, RunTypes, Rn!TypeOK
  <1>2. Placed'
    BY <1>0 DEF RunInv, RunTypes, Rn!TypeOK, Placed
  <1>3. Threaded'
    BY <1>0 DEF RunInv, RunTypes, Rn!TypeOK, Placed, Threaded
  <1>4. Whole'
    BY <1>0 DEF RunInv, RunTypes, Rn!TypeOK, Placed, Threaded, Whole
  <1>5. HandedOver'
    BY <1>0 DEF RunInv, RunTypes, Rn!TypeOK, Placed, Threaded, Whole, HandedOver
  <1> QED
    BY <1>1, <1>2, <1>3, <1>4, <1>5 DEF RunInv

LEMMA RunCollect == ASSUME RunSupposed, RunInv, NEW s \in Rn!Stream, Rn!Collect(s) PROVE RunInv'
  <1> USE DEF RunSupposed, Rn!BoundsAssumption, Rn!Stream, Rn!Collect, Rn!world, Rn!reads,
              Rn!clocks, Rn!main, Rn!Open, Rn!Streamed, Rn!Piped, Rn!AllEnded, Rn!Silent
  <1>0. \/ s = "stdout" /\ pc = "collectStdout" /\ pc' = "collectStderr"
        \/ s = "stderr" /\ pc = "collectStderr" /\ pc' = "clear"
    BY DEF Rn!Collecting
  <1>1. RunTypes'
    BY <1>0 DEF RunInv, RunTypes, Rn!TypeOK
  <1>2. Placed'
    BY <1>0 DEF RunInv, RunTypes, Rn!TypeOK, Placed
  <1>3. Threaded'
    BY <1>0 DEF RunInv, RunTypes, Rn!TypeOK, Placed, Threaded
  <1>4. Whole'
    BY <1>0 DEF RunInv, RunTypes, Rn!TypeOK, Placed, Threaded, Whole, HandedOver
  <1>5. HandedOver'
    BY <1>0 DEF RunInv, RunTypes, Rn!TypeOK, Placed, Threaded, Whole, HandedOver
  <1> QED
    BY <1>1, <1>2, <1>3, <1>4, <1>5 DEF RunInv

LEMMA RunJoin == ASSUME RunSupposed, RunInv, Rn!Join PROVE RunInv'
  <1> USE DEF RunSupposed, Rn!BoundsAssumption, Rn!Stream, Rn!Join, Rn!world, Rn!reads,
              Rn!clocks, Rn!main, Rn!Open, Rn!Streamed, Rn!Piped, Rn!AllEnded, Rn!Silent
  <1>1. RunTypes'
    BY DEF RunInv, RunTypes, Rn!TypeOK
  <1>2. Placed'
    BY DEF RunInv, RunTypes, Rn!TypeOK, Placed
  <1>3. Threaded'
    BY DEF RunInv, RunTypes, Rn!TypeOK, Placed, Threaded
  <1>4. Whole'
    BY DEF RunInv, RunTypes, Rn!TypeOK, Placed, Threaded, Whole
  <1>5. HandedOver'
    BY DEF RunInv, RunTypes, Rn!TypeOK, Placed, Threaded, Whole, HandedOver
  <1> QED
    BY <1>1, <1>2, <1>3, <1>4, <1>5 DEF RunInv

LEMMA RunReturn == ASSUME RunSupposed, RunInv, Rn!Return PROVE RunInv'
  <1> USE DEF RunSupposed, Rn!BoundsAssumption, Rn!Stream, Rn!Return, Rn!world, Rn!reads,
              Rn!clocks, Rn!main, Rn!Open, Rn!Streamed, Rn!Piped, Rn!AllEnded, Rn!Silent
  <1>1. RunTypes'
    BY DEF RunInv, RunTypes, Rn!TypeOK
  <1>2. Placed'
    BY DEF RunInv, RunTypes, Rn!TypeOK, Placed
  <1>3. Threaded'
    BY DEF RunInv, RunTypes, Rn!TypeOK, Placed, Threaded
  <1>4. Whole'
    BY DEF RunInv, RunTypes, Rn!TypeOK, Placed, Threaded, Whole
  <1>5. HandedOver'
    BY DEF RunInv, RunTypes, Rn!TypeOK, Placed, Threaded, Whole, HandedOver
  <1> QED
    BY <1>1, <1>2, <1>3, <1>4, <1>5 DEF RunInv

LEMMA RunSignal == ASSUME RunSupposed, RunInv, Rn!Signal PROVE RunInv'
  <1> USE DEF RunSupposed, Rn!BoundsAssumption, Rn!Stream, Rn!Signal, Rn!world, Rn!reads,
              Rn!clocks, Rn!main, Rn!Open, Rn!Streamed, Rn!Piped, Rn!AllEnded, Rn!Silent
  <1>1. RunTypes'
    BY DEF RunInv, RunTypes, Rn!TypeOK
  <1>2. Placed'
    BY DEF RunInv, RunTypes, Rn!TypeOK, Placed
  <1>3. Threaded'
    BY DEF RunInv, RunTypes, Rn!TypeOK, Placed, Threaded
  <1>4. Whole'
    BY DEF RunInv, RunTypes, Rn!TypeOK, Placed, Threaded, Whole
  <1>5. HandedOver'
    BY DEF RunInv, RunTypes, Rn!TypeOK, Placed, Threaded, Whole, HandedOver
  <1> QED
    BY <1>1, <1>2, <1>3, <1>4, <1>5 DEF RunInv

LEMMA RunInit == ASSUME RunSupposed PROVE Rn!Init => RunInv
  <1> SUFFICES ASSUME Rn!Init PROVE RunInv
    OBVIOUS
  <1>1. Capacity \in Nat /\ MaxLines \in Nat /\ Methods \subseteq Rn!Method
    BY DEF RunSupposed, Rn!MethodsAssumption, Rn!BoundsAssumption
  <1>2. RunTypes
    <2>1. call \in Rn!Call
      BY <1>1 DEF Rn!Init, Rn!Call
    <2>2. \A s \in Rn!Stream :
             heard[s] = 0 /\ got[s] = 0 /\ pipe[s] = 0 /\ said[s] = 0 /\ plan[s] \in Nat
      BY <1>1 DEF Rn!Init
    <2>3. Rn!TypeOK
      <3>1. /\ plan \in [Rn!Stream -> 0..MaxLines] /\ said \in [Rn!Stream -> 0..MaxLines]
            /\ pipe \in [Rn!Stream -> 0..Capacity] /\ got \in [Rn!Stream -> 0..MaxLines]
            /\ heard \in [Rn!Stream -> 0..MaxLines]
        BY <1>1 DEF Rn!Init
      <3>2. \A s \in Rn!Stream : heard[s] + got[s] + pipe[s] <= said[s]
        BY <2>2
      <3>3. reader \in [Rn!Stream -> {"none", "reading", "ended"}]
        BY DEF Rn!Init
      <3>4. /\ child = "none" /\ straggler = "none" /\ expired = FALSE /\ graced = FALSE
            /\ foreground = FALSE /\ pc = "start" /\ outcome = "none"
        BY DEF Rn!Init
      <3> QED
        BY <2>1, <3>1, <3>2, <3>3, <3>4 DEF Rn!TypeOK
    <2> QED
      BY <2>2, <2>3 DEF Rn!Init, RunTypes
  <1>3. Placed /\ Threaded /\ Whole /\ HandedOver
    BY <1>1 DEF Rn!Init, Placed, Threaded, Whole, HandedOver, Rn!Stream
  <1> QED
    BY <1>2, <1>3 DEF RunInv

LEMMA RunStep == ASSUME RunSupposed PROVE RunInv /\ [Rn!Next]_Rn!vars => RunInv'
  <1> SUFFICES ASSUME RunInv, [Rn!Next]_Rn!vars PROVE RunInv'
    OBVIOUS
  <1>1. CASE UNCHANGED Rn!vars
    BY <1>1 DEF Rn!vars, Rn!world, Rn!reads, Rn!clocks, Rn!main, RunInv, RunTypes,
       Rn!TypeOK, Placed, Threaded, Whole, HandedOver, Rn!Streamed, Rn!Piped, Rn!Open,
       Rn!Silent, Rn!AllEnded
  <1>2. CASE Rn!ChildStep \/ Rn!CloseStreams \/ Rn!Fork \/ Rn!StragglerEnds
    BY <1>2, RunWrite, RunExit, RunCloseStreams, RunFork, RunStragglerEnds
       DEF Rn!ChildStep
  <1>3. CASE Rn!ThreadStep \/ Rn!ClockStep
    BY <1>3, RunRead, RunEof, RunLimitPasses, RunGracePasses
       DEF Rn!ThreadStep, Rn!ClockStep
  <1>4. CASE Rn!MainStep
    BY <1>4, RunStart, RunStartRefused, RunNoteGroup, RunClosed, RunElapsed, RunReap,
       RunGiveUp, RunKill, RunJoin, RunReturn, RunHear, RunCollect DEF Rn!MainStep
  <1> QED
    BY <1>1, <1>2, <1>3, <1>4, RunSignal DEF Rn!Next

LEMMA RunMeans == ASSUME RunSupposed, RunInv PROVE Rn!RunnerSafe
  <1>1. Rn!TypeOK /\ Rn!InterruptTakesTheBuild
    BY DEF RunInv, RunTypes, Placed, Rn!InterruptTakesTheBuild
  <1>2. Rn!NothingTruncated
    <2> SUFFICES ASSUME pc = "done", outcome = "ran", ~graced PROVE heard = plan
      BY DEF Rn!NothingTruncated
    <2>1. said = plan /\ child = "reaped"
      BY DEF RunInv, Whole, Placed
    <2>2. ASSUME NEW s \in Rn!Stream PROVE heard[s] = plan[s]
      <3>1. /\ heard[s] \in Nat /\ got[s] \in Nat /\ pipe[s] \in Nat
            /\ plan[s] \in Nat /\ heard[s] + got[s] + pipe[s] <= said[s]
        BY DEF RunInv, RunTypes, Rn!TypeOK, RunSupposed, Rn!BoundsAssumption
      <3>2. CASE ~Rn!Piped(s)
        BY <2>1, <3>1, <3>2 DEF RunInv, RunTypes
      <3>3. CASE Rn!Piped(s)
        <4>1. reader[s] = "ended" /\ got[s] = 0
          <5>1. CASE call.method = "capture"
            BY <5>1 DEF RunInv, HandedOver, Rn!Stream
          <5>2. CASE Rn!Streamed
            BY <2>1, <3>3, <5>2 DEF RunInv, RunTypes, Rn!TypeOK, Threaded, HandedOver,
               Rn!Silent, Rn!AllEnded
          <5> QED
            BY <3>3, <5>1, <5>2 DEF Rn!Piped, Rn!Streamed
        <4>2. heard[s] + got[s] + pipe[s] = said[s] /\ pipe[s] = 0
          BY <3>3, <4>1 DEF RunInv, Whole
        <4> QED
          BY <2>1, <3>1, <4>1, <4>2
      <3> QED
        BY <3>2, <3>3
    <2> QED
      BY <2>2 DEF RunInv, RunTypes, Rn!TypeOK
  <1>3. Rn!LeavesNothingBehind
    <2> SUFFICES ASSUME pc = "done", outcome # "timedOut", ~graced PROVE Rn!AllEnded
      BY DEF Rn!LeavesNothingBehind, RunInv, Placed
    <2>1. CASE child = "none"
      BY <2>1 DEF RunInv, Threaded, Rn!AllEnded
    <2>2. CASE outcome = "ran" /\ call.method = "capture"
      BY <2>2 DEF RunInv, HandedOver, Rn!AllEnded, Rn!Stream
    <2>3. CASE Rn!Streamed
      BY <2>3 DEF RunInv, HandedOver
    <2>4. CASE call.method = "passthrough"
      BY <2>4 DEF RunInv, Threaded, Rn!AllEnded, Rn!Piped
    <2>5. outcome = "ran" \/ child = "none"
      BY DEF RunInv, Placed
    <2> QED
      BY <2>1, <2>2, <2>3, <2>4, <2>5 DEF RunInv, RunTypes, Rn!TypeOK, Rn!Call,
         Rn!Method, Rn!Streamed
  <1> QED
    BY <1>1, <1>2, <1>3 DEF Rn!RunnerSafe

\* Whatever the child writes, forks or outlives, and whenever a clock runs out or a
\* signal comes: a call that reports the child's own ending hands over all it wrote,
\* unless the grace of a capture ran out; none leaves an unreaped child, a noted group,
\* or a thread it did not give up on; and a dl that is interrupted takes the build with
\* it (collect, streamed, kill, note_own_group, clear_foreground_child).
THEOREM CallsAreWhole == Spec => []RunnerSafe
  <1> DEFINE OwnInv == part = "runner" => RunInv
  <1>1. Init => OwnInv
    BY StartsAsOne, RunInit, RunGiven
  <1>2. OwnInv /\ [Next]_vars => OwnInv'
    BY StepsAsOne, RunStep, RunGiven
  <1>3. OwnInv => RunnerSafe
    BY RunMeans, RunGiven DEF RunnerSafe
  <1> QED
    BY <1>1, <1>2, <1>3, PTL DEF Spec

(***************************************************************************)
(* The interrupt handler. Where the main thread is says what is registered *)
(* and what may be on disk; and what was registered when the signal came   *)
(* and is still there is in a slot the handler has yet to come to, for the *)
(* main thread, where it goes on, moves no file from slot to slot and      *)
(* stages nothing twice.                                                   *)
(***************************************************************************)
IntSupposed == In!SlotsAssumption /\ In!VerbsAssumption

LEMMA IntGiven == IntSupposed
  BY InSlotsAssumption, InVerbsAssumption DEF IntSupposed

Early     == {"begin", "saving", "saved", "renamed", "ready", "staged", "tokened"}
Tokened   == {"tokened", "building", "built", "reaped", "lending", "lendDir", "lendFile",
              "lendTar", "lendTrip", "lent", "lentFile", "provisioned", "unstaged"}
Lending   == {"lendDir", "lendFile", "lendTar", "lendTrip", "lent", "lentFile"}
Held(p)   == \E i \in 1..FileSlots : files[i] = p

IntTypes ==
    /\ In!TypeOK
    /\ \A s \in In!Signal : disposition[s] # "default"
    /\ forward # "reaped"

\* What is registered, of which children, and what is on disk, step by step.
Listed ==
    /\ Held("temp") <=> pc \in {"saved", "renamed"}
    /\ Held("token") <=> pc \in Tokened
    /\ Held("bundle") <=> pc \in {"lendFile", "lendTar", "lendTrip", "lent"}
    /\ dirs = IF pc \in {"lendTar", "lendTrip"} THEN "staging" ELSE In!Free
    /\ group <=> pc \in {"built", "reaped"}
    /\ pids <=> pc \in {"inside", "stopped"}
Running ==
    /\ up = "running" => pc \in {"building", "built"}
    /\ up = "reaped" => pc \notin Early \cup {"building", "built"}
    /\ pc \in Early => up = "none"
    /\ reused => up = "reaped"
    /\ forward = "running" => pc \in {"forwarding", "inside"}
OnDisk ==
    /\ "temp" \in disk => pc \in {"saving", "saved"}
    /\ "token" \in disk => pc \in {"staged"} \cup (Tokened \ {"unstaged"})
    /\ "staging" \in disk => pc \in Lending
    /\ "bundle" \in disk => pc \in {"lendTrip", "lent", "lentFile"}

\* What the handler was called for, and has done.
Answered ==
    /\ \A s \in inherited \ {"INT"} : disposition[s] = "ignore"
    /\ pc = "hungUp" => disposition["HUP"] = "ignore"
    /\ IF handler = "armed" THEN ~struck /\ ~threaded /\ found = {}
       ELSE /\ by \in In!Signal /\ (by \in inherited => by = "INT")
            /\ ~(signalledAt = "hungUp" /\ by = "HUP")
    /\ struck => signalledAt = "reaped" \/ threaded
    /\ handler \in {"armed", "group", "pids"} => at = 1
    /\ handler # "armed" /\ ~threaded =>
          /\ pc = signalledAt /\ found = In!Registered
          /\ up = "running" => pc = "building" \/ handler = "group"
          /\ forward = "running" => pc = "forwarding" \/ handler \in {"group", "pids"}

\* What is registered and still there is in a slot the handler has yet to come to.
Owed == IF threaded THEN {"temp", "token"} ELSE In!Path
Ahead ==
    /\ "temp" \in found => pc \notin {"begin", "saving"}
    /\ "token" \in found => pc \notin Early \ {"tokened"}
    /\ \A p \in found \cap disk \cap Owed :
          /\ handler \in {"group", "pids", "files"}
          /\ \E i \in at..FileSlots : files[i] = p
    /\ "staging" \in found \cap disk /\ handler = "exited" => threaded

IntInv == IntTypes /\ Listed /\ Running /\ OnDisk /\ Answered /\ Ahead

Entries == 1..FileSlots

LEMMA RegisteredStays == UNCHANGED <<files, dirs>> => UNCHANGED In!Registered
  BY DEF In!Registered

\* What a registration changes: one slot that was free (register_in).
LEMMA Registers ==
    ASSUME IntSupposed, IntTypes, NEW p \in In!Path, ~Held(p), In!RegisterFile(p),
           files[1] = In!Free \/ files[2] = In!Free
    PROVE  /\ files' \in [Entries -> In!Path \cup {In!Free}]
           /\ \A i, j \in Entries : files'[i] = files'[j] /\ files'[i] # In!Free => i = j
           /\ \E i \in Entries : files'[i] = p
           /\ \A q \in In!Path \ {p} : \A i \in Entries : (files'[i] = q) <=> (files[i] = q)
  <1> DEFINE free == {i \in Entries : files[i] = In!Free}
  <1>1. FileSlots \in Nat /\ 1 \in Entries /\ 2 \in Entries
    BY DEF IntSupposed, In!SlotsAssumption, Entries
  <1>2. PICK n \in free : \A j \in free : n <= j
    <2>1. CASE files[1] = In!Free
      BY <1>1, <2>1 DEF Entries
    <2>2. CASE files[1] # In!Free
      BY <1>1, <2>2 DEF Entries
    <2> QED
      BY <2>1, <2>2
  <1> DEFINE m == CHOOSE i \in free : \A j \in free : i <= j
  <1>3. m \in free
    BY <1>2
  <1>4. free # {} /\ files' = [files EXCEPT ![m] = p]
    BY <1>2 DEF In!RegisterFile, Entries
  <1> HIDE DEF m
  <1>5. files \in [Entries -> In!Path \cup {In!Free}] /\ m \in Entries /\ files[m] = In!Free
    BY <1>3 DEF IntTypes, In!TypeOK, Entries
  <1>6. In!Free \notin In!Path
    BY DEF In!Free, In!Path
  <1> QED
    BY <1>4, <1>5, <1>6 DEF IntTypes, In!TypeOK, Entries, Held

\* What a release changes (Drop for Registration).
LEMMA Releases ==
    ASSUME IntSupposed, IntTypes, NEW p \in In!Path, In!Release(p)
    PROVE  /\ files' \in [Entries -> In!Path \cup {In!Free}]
           /\ \A i, j \in Entries : files'[i] = files'[j] /\ files'[i] # In!Free => i = j
           /\ \A i \in Entries : files'[i] # p
           /\ \A q \in In!Path \ {p} : \A i \in Entries : (files'[i] = q) <=> (files[i] = q)
  BY DEF IntTypes, In!TypeOK, In!Release, In!Free, In!Path, Entries

LEMMA IntInit == ASSUME IntSupposed PROVE In!Init => IntInv
  <1> SUFFICES ASSUME In!Init PROVE IntInv
    OBVIOUS
  <1>1. FileSlots \in Nat /\ 1 \in 1..FileSlots
    BY DEF IntSupposed, In!SlotsAssumption
  <1>2. IntTypes
    BY <1>1 DEF In!Init, In!Installed, IntTypes, In!TypeOK, In!Free, In!Signal
  <1>3. Listed /\ Running /\ OnDisk
    BY DEF In!Init, Listed, Running, OnDisk, Held, In!Free, Early, Tokened, Lending
  <1>4. Answered /\ Ahead
    BY DEF In!Init, In!Installed, Answered, Ahead, In!Signal
  <1> QED
    BY <1>2, <1>3, <1>4 DEF IntInv

Filed ==
    /\ files \in [Entries -> In!Path \cup {In!Free}]
    /\ \A i, j \in Entries : files[i] = files[j] /\ files[i] # In!Free => i = j
Took(p) ==
    /\ Filed' /\ Held(p)'
    /\ \A q \in In!Path \ {p} : \A i \in Entries : (files'[i] = q) <=> (files[i] = q)
LetGo(p) ==
    /\ Filed' /\ ~Held(p)'
    /\ \A q \in In!Path \ {p} : \A i \in Entries : (files'[i] = q) <=> (files[i] = q)

\* Whatever is registered is: no more than one other file is at a time.
LEMMA Takes ==
    ASSUME IntSupposed, IntInv, NEW p \in In!Path, In!RegisterFile(p), ~Held(p),
           pc \in {"saving", "staged", "lendDir"}
    PROVE  Took(p)
  <1>1. 1 \in Entries /\ 2 \in Entries /\ files \in [Entries -> In!Path \cup {In!Free}]
    BY DEF IntSupposed, In!SlotsAssumption, Entries, IntInv, IntTypes, In!TypeOK
  <1>2. \A q \in In!Path \ {"token"} : ~Held(q)
    BY DEF IntInv, Listed, In!Path, Tokened
  <1>3. files[1] = In!Free \/ files[2] = In!Free
    BY <1>1, <1>2 DEF IntInv, IntTypes, In!TypeOK, Held, Entries, In!Path, In!Free
  <1> QED
    BY <1>3, Registers DEF Took, Filed, Held, Entries, IntInv

LEMMA LetsGo ==
    ASSUME IntSupposed, IntInv, NEW p \in In!Path, In!Release(p)
    PROVE  LetGo(p)
  BY Releases DEF LetGo, Filed, Held, Entries, IntInv

LEMMA IntSkip == ASSUME IntSupposed, IntInv, In!Skip PROVE IntInv'
  <1> USE DEF In!Skip, In!Go, In!Running, In!Same, In!env, In!registry, In!children,
              In!handling, In!Path, In!Signal, In!Free, Early, Tokened, Lending
  <1>1. IntTypes'
    BY DEF IntInv, IntTypes, In!TypeOK, Entries
  <1>2. Listed'
    BY DEF IntInv, Listed, Held, Entries
  <1>3. Running'
    BY DEF IntInv, Running
  <1>4. OnDisk'
    BY DEF IntInv, OnDisk
  <1>5. Answered'
    BY DEF IntInv, Answered
  <1>6. Ahead'
    BY DEF IntInv, IntTypes, In!TypeOK, Listed, OnDisk, Answered, Ahead, Owed, Held, Entries
  <1> QED
    BY <1>1, <1>2, <1>3, <1>4, <1>5, <1>6 DEF IntInv

LEMMA IntBuild == ASSUME IntSupposed, IntInv, In!Build PROVE IntInv'
  <1> USE DEF In!Build, In!Go, In!Running, In!Same, In!env, In!registry, In!children,
              In!handling, In!Path, In!Signal, In!Free, Early, Tokened, Lending
  <1>1. IntTypes'
    BY DEF IntInv, IntTypes, In!TypeOK, Entries
  <1>2. Listed'
    BY DEF IntInv, Listed, Held, Entries
  <1>3. Running'
    BY DEF IntInv, Running
  <1>4. OnDisk'
    BY DEF IntInv, OnDisk
  <1>5. Answered'
    BY DEF IntInv, Answered
  <1>6. Ahead'
    BY DEF IntInv, IntTypes, In!TypeOK, Listed, OnDisk, Answered, Ahead, Owed, Held, Entries
  <1> QED
    BY <1>1, <1>2, <1>3, <1>4, <1>5, <1>6 DEF IntInv

LEMMA IntNothingToLend == ASSUME IntSupposed, IntInv, In!NothingToLend PROVE IntInv'
  <1> USE DEF In!NothingToLend, In!Go, In!Running, In!Same, In!env, In!registry, In!children,
              In!handling, In!Path, In!Signal, In!Free, Early, Tokened, Lending
  <1>1. IntTypes'
    BY DEF IntInv, IntTypes, In!TypeOK, Entries
  <1>2. Listed'
    BY DEF IntInv, Listed, Held, Entries
  <1>3. Running'
    BY DEF IntInv, Running
  <1>4. OnDisk'
    BY DEF IntInv, OnDisk
  <1>5. Answered'
    BY DEF IntInv, Answered
  <1>6. Ahead'
    BY DEF IntInv, IntTypes, In!TypeOK, Listed, OnDisk, Answered, Ahead, Owed, Held, Entries
  <1> QED
    BY <1>1, <1>2, <1>3, <1>4, <1>5, <1>6 DEF IntInv

LEMMA IntForward == ASSUME IntSupposed, IntInv, In!Forward PROVE IntInv'
  <1> USE DEF In!Forward, In!Go, In!Running, In!Same, In!env, In!registry, In!children,
              In!handling, In!Path, In!Signal, In!Free, Early, Tokened, Lending
  <1>1. IntTypes'
    BY DEF IntInv, IntTypes, In!TypeOK, Entries
  <1>2. Listed'
    BY DEF IntInv, Listed, Held, Entries
  <1>3. Running'
    BY DEF IntInv, Running
  <1>4. OnDisk'
    BY DEF IntInv, OnDisk
  <1>5. Answered'
    BY DEF IntInv, Answered
  <1>6. Ahead'
    BY DEF IntInv, IntTypes, In!TypeOK, Listed, OnDisk, Answered, Ahead, Owed, Held, Entries
  <1> QED
    BY <1>1, <1>2, <1>3, <1>4, <1>5, <1>6 DEF IntInv

LEMMA IntNoForward == ASSUME IntSupposed, IntInv, In!NoForward PROVE IntInv'
  <1> USE DEF In!NoForward, In!Go, In!Running, In!Same, In!env, In!registry, In!children,
              In!handling, In!Path, In!Signal, In!Free, Early, Tokened, Lending
  <1>1. IntTypes'
    BY DEF IntInv, IntTypes, In!TypeOK, Entries
  <1>2. Listed'
    BY DEF IntInv, Listed, Held, Entries
  <1>3. Running'
    BY DEF IntInv, Running
  <1>4. OnDisk'
    BY DEF IntInv, OnDisk
  <1>5. Answered'
    BY DEF IntInv, Answered
  <1>6. Ahead'
    BY DEF IntInv, IntTypes, In!TypeOK, Listed, OnDisk, Answered, Ahead, Owed, Held, Entries
  <1> QED
    BY <1>1, <1>2, <1>3, <1>4, <1>5, <1>6 DEF IntInv

LEMMA IntHangUp == ASSUME IntSupposed, IntInv, In!HangUp PROVE IntInv'
  <1> USE DEF In!HangUp, In!Go, In!Running, In!Same, In!env, In!registry, In!children,
              In!handling, In!Path, In!Signal, In!Free, Early, Tokened, Lending
  <1>1. IntTypes'
    BY DEF IntInv, IntTypes, In!TypeOK, Entries
  <1>2. Listed'
    BY DEF IntInv, Listed, Held, Entries
  <1>3. Running'
    BY DEF IntInv, Running
  <1>4. OnDisk'
    BY DEF IntInv, OnDisk
  <1>5. Answered'
    BY RegisteredStays DEF IntInv, IntTypes, In!TypeOK, Listed, Running, Answered
  <1>6. Ahead'
    BY DEF IntInv, IntTypes, In!TypeOK, Listed, OnDisk, Answered, Ahead, Owed, Held, Entries
  <1> QED
    BY <1>1, <1>2, <1>3, <1>4, <1>5, <1>6 DEF IntInv

LEMMA IntHangUpDeclined == ASSUME IntSupposed, IntInv, In!HangUpDeclined PROVE IntInv'
  <1> USE DEF In!HangUpDeclined, In!Go, In!Running, In!Same, In!env, In!registry, In!children,
              In!handling, In!Path, In!Signal, In!Free, Early, Tokened, Lending
  <1>1. IntTypes'
    BY DEF IntInv, IntTypes, In!TypeOK, Entries
  <1>2. Listed'
    BY DEF IntInv, Listed, Held, Entries
  <1>3. Running'
    BY DEF IntInv, Running
  <1>4. OnDisk'
    BY DEF IntInv, OnDisk
  <1>5. Answered'
    BY DEF IntInv, Answered
  <1>6. Ahead'
    BY DEF IntInv, IntTypes, In!TypeOK, Listed, OnDisk, Answered, Ahead, Owed, Held, Entries
  <1> QED
    BY <1>1, <1>2, <1>3, <1>4, <1>5, <1>6 DEF IntInv

LEMMA IntHungUp == ASSUME IntSupposed, IntInv, In!HungUp PROVE IntInv'
  <1> USE DEF In!HungUp, In!Go, In!Running, In!Same, In!env, In!registry, In!children,
              In!handling, In!Path, In!Signal, In!Free, Early, Tokened, Lending
  <1>1. IntTypes'
    BY DEF IntInv, IntTypes, In!TypeOK, Entries
  <1>2. Listed'
    BY DEF IntInv, Listed, Held, Entries
  <1>3. Running'
    BY DEF IntInv, Running
  <1>4. OnDisk'
    BY DEF IntInv, OnDisk
  <1>5. Answered'
    BY DEF IntInv, Answered
  <1>6. Ahead'
    BY DEF IntInv, IntTypes, In!TypeOK, Listed, OnDisk, Answered, Ahead, Owed, Held, Entries
  <1> QED
    BY <1>1, <1>2, <1>3, <1>4, <1>5, <1>6 DEF IntInv

LEMMA IntSave == ASSUME IntSupposed, IntInv, In!Save PROVE IntInv'
  <1> USE DEF In!Save, In!Go, In!Running, In!Same, In!env, In!registry, In!children,
              In!handling, In!Path, In!Signal, In!Free, Early, Tokened, Lending
  <1>1. \/ pc = "saving" /\ Took("temp")
        \/ pc = "renamed" /\ LetGo("temp")
        \/ pc \in {"begin", "saved"} /\ UNCHANGED files
    BY Takes, LetsGo DEF IntInv, Listed
  <1>2. IntTypes'
    <2>1. Filed'
      BY <1>1 DEF IntInv, IntTypes, In!TypeOK, Entries, Took, LetGo, Filed
    <2>2. disk' \subseteq In!Path \cup {"staging"} /\ dirs' \in {In!Free, "staging"}
      BY DEF IntInv, IntTypes, In!TypeOK
    <2> QED
      BY <2>1, <2>2 DEF IntInv, IntTypes, In!TypeOK, Filed, Entries
  <1>3. Listed'
    BY <1>1 DEF IntInv, Listed, Held, Entries, Took, LetGo
  <1>4. Running'
    BY <1>1 DEF IntInv, Running
  <1>5. OnDisk'
    BY <1>1 DEF IntInv, OnDisk
  <1>6. Answered'
    BY <1>1 DEF IntInv, Answered
  <1>7. Ahead'
    BY <1>1 DEF IntInv, IntTypes, In!TypeOK, Listed, OnDisk, Answered, Ahead, Owed, Held, Entries,
       Took, LetGo
  <1> QED
    BY <1>2, <1>3, <1>4, <1>5, <1>6, <1>7 DEF IntInv

LEMMA IntStageToken == ASSUME IntSupposed, IntInv, In!StageToken PROVE IntInv'
  <1> USE DEF In!StageToken, In!Go, In!Running, In!Same, In!env, In!registry, In!children,
              In!handling, In!Path, In!Signal, In!Free, Early, Tokened, Lending
  <1>1. \/ pc = "staged" /\ Took("token")
        \/ pc = "ready" /\ UNCHANGED files
    BY Takes DEF IntInv, Listed
  <1>2. IntTypes'
    <2>1. Filed'
      BY <1>1 DEF IntInv, IntTypes, In!TypeOK, Entries, Took, LetGo, Filed
    <2>2. disk' \subseteq In!Path \cup {"staging"} /\ dirs' \in {In!Free, "staging"}
      BY DEF IntInv, IntTypes, In!TypeOK
    <2> QED
      BY <2>1, <2>2 DEF IntInv, IntTypes, In!TypeOK, Filed, Entries
  <1>3. Listed'
    BY <1>1 DEF IntInv, Listed, Held, Entries, Took, LetGo
  <1>4. Running'
    BY <1>1 DEF IntInv, Running
  <1>5. OnDisk'
    BY <1>1 DEF IntInv, OnDisk
  <1>6. Answered'
    BY <1>1 DEF IntInv, Answered
  <1>7. Ahead'
    BY <1>1 DEF IntInv, IntTypes, In!TypeOK, Listed, OnDisk, Answered, Ahead, Owed, Held, Entries,
       Took, LetGo
  <1> QED
    BY <1>2, <1>3, <1>4, <1>5, <1>6, <1>7 DEF IntInv

LEMMA IntTransfer == ASSUME IntSupposed, IntInv, In!Transfer PROVE IntInv'
  <1> USE DEF In!Transfer, In!Go, In!Running, In!Same, In!env, In!registry, In!children,
              In!handling, In!Path, In!Signal, In!Free, Early, Tokened, Lending
  <1>1. \/ pc = "lendDir" /\ Took("bundle")
        \/ pc = "lent" /\ LetGo("bundle")
        \/ pc \notin {"lendDir", "lent"} /\ UNCHANGED files
    BY Takes, LetsGo DEF IntInv, Listed
  <1>2. IntTypes'
    <2>1. Filed'
      BY <1>1 DEF IntInv, IntTypes, In!TypeOK, Entries, Took, LetGo, Filed
    <2>2. disk' \subseteq In!Path \cup {"staging"} /\ dirs' \in {In!Free, "staging"}
      BY DEF IntInv, IntTypes, In!TypeOK
    <2> QED
      BY <2>1, <2>2 DEF IntInv, IntTypes, In!TypeOK, Filed, Entries
  <1>3. Listed'
    BY <1>1 DEF IntInv, Listed, Held, Entries, Took, LetGo
  <1>4. Running'
    BY <1>1 DEF IntInv, Running
  <1>5. OnDisk'
    BY <1>1 DEF IntInv, OnDisk
  <1>6. Answered'
    BY <1>1 DEF IntInv, Answered
  <1>7. Ahead'
    <2>1. CASE ~threaded
      BY <2>1 DEF IntInv, Answered, Ahead
    <2>2. CASE threaded
      <3>1. \A q \in Owed : \A i \in Entries : (files'[i] = q) <=> (files[i] = q)
        BY <1>1, <2>2 DEF Owed, Took, LetGo
      <3>2. \A q \in found \cap disk' \cap Owed : q \in disk
        BY <2>2 DEF Owed
      <3>3. at \in Entries /\ at..FileSlots \subseteq Entries
        BY DEF IntInv, IntTypes, In!TypeOK, Entries, IntSupposed, In!SlotsAssumption
      <3> QED
        BY <2>2, <3>1, <3>2, <3>3 DEF IntInv, Ahead, Owed
    <2> QED
      BY <2>1, <2>2
  <1> QED
    BY <1>2, <1>3, <1>4, <1>5, <1>6, <1>7 DEF IntInv

LEMMA IntDropToken == ASSUME IntSupposed, IntInv, In!DropToken PROVE IntInv'
  <1> USE DEF In!DropToken, In!Go, In!Running, In!Same, In!env, In!registry, In!children,
              In!handling, In!Path, In!Signal, In!Free, Early, Tokened, Lending
  <1>1. \/ pc = "unstaged" /\ LetGo("token")
        \/ pc = "provisioned" /\ UNCHANGED files
    BY LetsGo
  <1>2. IntTypes'
    <2>1. Filed'
      BY <1>1 DEF IntInv, IntTypes, In!TypeOK, Entries, Took, LetGo, Filed
    <2>2. disk' \subseteq In!Path \cup {"staging"} /\ dirs' \in {In!Free, "staging"}
      BY DEF IntInv, IntTypes, In!TypeOK
    <2> QED
      BY <2>1, <2>2 DEF IntInv, IntTypes, In!TypeOK, Filed, Entries
  <1>3. Listed'
    BY <1>1 DEF IntInv, Listed, Held, Entries, Took, LetGo
  <1>4. Running'
    BY <1>1 DEF IntInv, Running
  <1>5. OnDisk'
    BY <1>1 DEF IntInv, OnDisk
  <1>6. Answered'
    BY <1>1 DEF IntInv, Answered
  <1>7. Ahead'
    BY <1>1 DEF IntInv, IntTypes, In!TypeOK, Listed, OnDisk, Answered, Ahead, Owed, Held, Entries,
       Took, LetGo
  <1> QED
    BY <1>2, <1>3, <1>4, <1>5, <1>6, <1>7 DEF IntInv

LEMMA IntRecycle == ASSUME IntSupposed, IntInv, In!Recycle PROVE IntInv'
  <1> USE DEF In!Recycle, In!Go, In!Running, In!Same, In!env, In!registry, In!children,
              In!handling, In!Path, In!Signal, In!Free, Early, Tokened, Lending
  <1>1. IntTypes'
    BY DEF IntInv, IntTypes, In!TypeOK, Entries
  <1>2. Listed'
    BY DEF IntInv, Listed, Held, Entries
  <1>3. Running'
    BY DEF IntInv, Running
  <1>4. OnDisk'
    BY DEF IntInv, OnDisk
  <1>5. Answered'
    BY RegisteredStays DEF IntInv, IntTypes, In!TypeOK, Listed, Running, Answered
  <1>6. Ahead'
    BY DEF IntInv, IntTypes, In!TypeOK, Listed, OnDisk, Answered, Ahead, Owed, Held, Entries
  <1> QED
    BY <1>1, <1>2, <1>3, <1>4, <1>5, <1>6 DEF IntInv

LEMMA IntKillGroup == ASSUME IntSupposed, IntInv, In!KillGroup PROVE IntInv'
  <1> USE DEF In!KillGroup, In!Go, In!Running, In!Same, In!env, In!registry, In!children,
              In!handling, In!Path, In!Signal, In!Free, Early, Tokened, Lending
  <1>1. IntTypes'
    BY DEF IntInv, IntTypes, In!TypeOK, Entries
  <1>2. Listed'
    BY DEF IntInv, Listed, Held, Entries
  <1>3. Running'
    BY DEF IntInv, Running
  <1>4. OnDisk'
    BY DEF IntInv, OnDisk
  <1>5. Answered'
    BY RegisteredStays DEF IntInv, IntTypes, In!TypeOK, Listed, Running, Answered
  <1>6. Ahead'
    BY DEF IntInv, IntTypes, In!TypeOK, Listed, OnDisk, Answered, Ahead, Owed, Held, Entries
  <1> QED
    BY <1>1, <1>2, <1>3, <1>4, <1>5, <1>6 DEF IntInv

LEMMA IntSignalDetached == ASSUME IntSupposed, IntInv, In!SignalDetached PROVE IntInv'
  <1> USE DEF In!SignalDetached, In!Go, In!Running, In!Same, In!env, In!registry, In!children,
              In!handling, In!Path, In!Signal, In!Free, Early, Tokened, Lending
  <1>1. IntTypes'
    BY DEF IntInv, IntTypes, In!TypeOK, Entries
  <1>2. Listed'
    BY DEF IntInv, Listed, Held, Entries
  <1>3. Running'
    BY DEF IntInv, Running
  <1>4. OnDisk'
    BY DEF IntInv, OnDisk
  <1>5. Answered'
    BY RegisteredStays DEF IntInv, IntTypes, In!TypeOK, Listed, Running, Answered
  <1>6. Ahead'
    BY DEF IntInv, IntTypes, In!TypeOK, Listed, OnDisk, Answered, Ahead, Owed, Held, Entries
  <1> QED
    BY <1>1, <1>2, <1>3, <1>4, <1>5, <1>6 DEF IntInv

LEMMA IntUnlink == ASSUME IntSupposed, IntInv, In!Unlink PROVE IntInv'
  <1> USE DEF In!Unlink, In!Go, In!Running, In!Same, In!env, In!registry, In!children,
              In!handling, In!Path, In!Signal, In!Free, Early, Tokened, Lending
  <1>1. IntTypes'
    <2>1. at' \in 1..FileSlots /\ handler' \in {"files", "dirs"}
      BY DEF IntInv, IntTypes, In!TypeOK, IntSupposed, In!SlotsAssumption
    <2>2. disk' \subseteq disk
      OBVIOUS
    <2> QED
      BY <2>1, <2>2 DEF IntInv, IntTypes, In!TypeOK
  <1>2. Listed'
    BY DEF IntInv, Listed, Held, Entries
  <1>3. Running'
    BY DEF IntInv, Running
  <1>4. OnDisk'
    BY DEF IntInv, OnDisk
  <1>5. Answered'
    BY RegisteredStays DEF IntInv, IntTypes, In!TypeOK, Listed, Running, Answered
  <1>6. Ahead'
    BY DEF IntInv, IntTypes, In!TypeOK, Listed, OnDisk, Answered, Ahead, Owed, Held, Entries
  <1> QED
    BY <1>1, <1>2, <1>3, <1>4, <1>5, <1>6 DEF IntInv

LEMMA IntRmdir == ASSUME IntSupposed, IntInv, In!Rmdir PROVE IntInv'
  <1> USE DEF In!Rmdir, In!Go, In!Running, In!Same, In!env, In!registry, In!children,
              In!handling, In!Path, In!Signal, In!Free, Early, Tokened, Lending
  <1>1. IntTypes'
    BY DEF IntInv, IntTypes, In!TypeOK, Entries
  <1>2. Listed'
    BY DEF IntInv, Listed, Held, Entries
  <1>3. Running'
    BY DEF IntInv, Running
  <1>4. OnDisk'
    BY DEF IntInv, OnDisk
  <1>5. Answered'
    BY RegisteredStays DEF IntInv, IntTypes, In!TypeOK, Listed, Running, Answered
  <1>6. Ahead'
    <2>1. CASE threaded
      BY <2>1 DEF IntInv, Ahead, Owed
    <2>2. CASE ~threaded
      <3>1. found \cap disk \cap In!Path = {}
        BY <2>2 DEF IntInv, Ahead, Owed
      <3>2. "staging" \notin found \cap disk'
        <4> SUFFICES ASSUME "staging" \in found PROVE "staging" \notin disk'
          OBVIOUS
        <4>1. dirs = "staging"
          BY <2>2 DEF IntInv, IntTypes, In!TypeOK, Answered, In!Registered
        <4>2. Held("bundle") /\ (pc = "lendTar" \/ pc = "lendTrip")
          BY <4>1 DEF IntInv, Listed
        <4>3. "bundle" \in found
          BY <2>2, <4>2 DEF IntInv, Answered, In!Registered, Held
        <4>4. "bundle" \notin disk
          BY <3>1, <4>3
        <4> QED
          BY <4>1, <4>4
      <3> QED
        BY <2>2, <3>1, <3>2 DEF IntInv, Ahead, Owed
    <2> QED
      BY <2>1, <2>2
  <1> QED
    BY <1>1, <1>2, <1>3, <1>4, <1>5, <1>6 DEF IntInv

LEMMA IntDeliver == ASSUME IntSupposed, IntInv, NEW s \in In!Signal, In!Deliver(s) PROVE IntInv'
  <1> USE DEF In!Deliver, In!Go, In!Running, In!Same, In!env, In!registry, In!children,
              In!handling, In!Path, In!Signal, In!Free, Early, Tokened, Lending
  <1>1. IntTypes'
    BY DEF IntInv, IntTypes, In!TypeOK, IntSupposed, In!VerbsAssumption
  <1>2. Listed'
    BY DEF IntInv, Listed, Held, Entries
  <1>3. Running'
    BY DEF IntInv, Running
  <1>4. OnDisk'
    BY DEF IntInv, OnDisk
  <1>5. Answered'
    <2>1. In!Registered' = In!Registered
      BY RegisteredStays
    <2>2. (s \in inherited => s = "INT") /\ ~(pc = "hungUp" /\ s = "HUP")
      BY DEF IntInv, Answered
    <2>3. handler' = "group"
      BY DEF IntInv, IntTypes, In!TypeOK
    <2> QED
      BY <2>1, <2>2, <2>3 DEF IntInv, Answered
  <1>6. Ahead'
    <2>1. handler' = "group" /\ at' = 1 /\ found' = In!Registered
      <3>1. handler' = "group"
        BY DEF IntInv, IntTypes, In!TypeOK
      <3>2. at' = 1
        BY DEF IntInv, Answered
      <3> QED
        BY <3>1, <3>2
    <2>2. ASSUME NEW q \in In!Path, q \in found' PROVE Held(q)
      BY <2>1, <2>2 DEF In!Registered, Held, IntInv, IntTypes, In!TypeOK
    <2>3. "temp" \in found' => pc \in {"saved", "renamed"}
      BY <2>2 DEF IntInv, Listed
    <2>4. "token" \in found' => pc \in Tokened
      BY <2>2 DEF IntInv, Listed
    <2> QED
      BY <2>1, <2>2, <2>3, <2>4 DEF Ahead, Owed, Held
  <1> QED
    BY <1>1, <1>2, <1>3, <1>4, <1>5, <1>6 DEF IntInv

LEMMA IntStep == ASSUME IntSupposed PROVE IntInv /\ [In!Next]_In!vars => IntInv'
  <1> SUFFICES ASSUME IntInv, [In!Next]_In!vars PROVE IntInv'
    OBVIOUS
  <1>1. CASE UNCHANGED In!vars
    <2>1. UNCHANGED In!Registered
      BY <1>1, RegisteredStays DEF In!vars, In!registry
    <2> QED
      BY <1>1, <2>1 DEF In!vars, In!env, In!registry, In!children, In!handling, IntInv,
         IntTypes, In!TypeOK, Listed, Running, OnDisk, Answered, Ahead, Owed, Held
  <1>2. CASE In!Main
    BY <1>2, IntSave, IntSkip, IntStageToken, IntBuild, IntTransfer, IntNothingToLend,
       IntDropToken, IntForward, IntNoForward, IntHangUp, IntHangUpDeclined, IntHungUp
       DEF In!Main
  <1>3. CASE In!Handler
    BY <1>3, IntKillGroup, IntSignalDetached, IntUnlink, IntRmdir DEF In!Handler
  <1> QED
    BY <1>1, <1>2, <1>3, IntRecycle, IntDeliver DEF In!Next

LEMMA IntMeans == ASSUME IntSupposed, IntInv PROVE In!InterruptSafe
  <1>1. In!TypeOK
    BY DEF IntInv, IntTypes
  <1>2. In!RegisteredIsRemoved
    BY <1>1 DEF In!RegisteredIsRemoved, In!Interrupted, In!TypeOK, In!Path, IntInv,
       Ahead, Owed
  <1>3. In!ResidueHasAWindow
    <2> SUFFICES ASSUME handler = "exited", ~threaded
                 PROVE  /\ "token" \in disk => pc = "staged"
                        /\ "temp" \in disk => pc = "saving"
                        /\ disk \cap {"bundle", "staging"} # {} =>
                              pc \in {"lendDir", "lendFile", "lent", "lentFile"}
      BY DEF In!ResidueHasAWindow, In!Interrupted, IntInv, Answered
    <2>1. \A q \in In!Path : Held(q) => q \notin disk
      BY DEF IntInv, Answered, Ahead, Owed, In!Registered, Held, In!Path, In!Free
    <2>2. dirs = "staging" => "staging" \notin disk
      BY DEF IntInv, Answered, Ahead, In!Registered, In!Free
    <2> QED
      BY <2>1, <2>2 DEF IntInv, Listed, OnDisk, Tokened, Lending, In!Path
  <1>4. In!ChildrenGo
    BY DEF In!ChildrenGo, In!Interrupted, IntInv, Answered
  <1>5. In!StrangersAreSafe
    BY DEF In!StrangersAreSafe, IntInv, Answered
  <1>6. In!EndsAreEarned
    BY DEF In!EndsAreEarned, In!Interrupted, IntInv, IntTypes, Answered
  <1> QED
    BY <1>1, <1>2, <1>3, <1>4, <1>5, <1>6 DEF In!InterruptSafe

\* At whatever step of a launch, or of an `rme`, a signal comes, and whichever thread
\* takes it: what was registered is removed, the plaintext token above all; the build
\* and the detached forward go with dl but in the windows before their note; a stranger
\* with a reaped pid is struck only before the group is cleared; and a signal that
\* arrived ignored ends nothing (register_in, drain, cleanup_and_exit, ignore_hangup).
THEOREM InterruptsCleanUp == Spec => []InterruptSafe
  <1> DEFINE OwnInv == part = "interrupt" => IntInv
  <1>1. Init => OwnInv
    BY StartsAsOne, IntInit, IntGiven
  <1>2. OwnInv /\ [Next]_vars => OwnInv'
    BY StepsAsOne, IntStep, IntGiven
  <1>3. OwnInv => InterruptSafe
    BY IntMeans, IntGiven DEF InterruptSafe
  <1> QED
    BY <1>1, <1>2, <1>3, PTL DEF Spec

(***************************************************************************)
(* The updaters of the completion cache. As long as nothing fails, each    *)
(* file is told the truth, or the truth is owed to it: by a command that   *)
(* has changed the list and not yet asked, by an updater that has yet to   *)
(* read the list, or by one that has, after whom nobody read it otherwise. *)
(* Once it is told, whoever might untell it has been overtaken.            *)
(***************************************************************************)
RefSupposed == Rf!BoundsAssumption /\ Rf!ScriptsAssumption

LEMMA RefGiven == RefSupposed
  BY RfBoundsAssumption, RfScriptsAssumption DEF RefSupposed

\* What is left of a script, and what has been done of it by then.
Stale  == <<"ifStale">>
Picked == <<"ifStale", "forced">>
Asking  == <<"forced">>
Change == <<"devpod", "forced">>
Again  == <<"rearm", "devpod", "forced">>
Once   == <<"forced", "rearm", "devpod", "forced">>
Twice  == <<"devpod", "forced", "rearm", "devpod", "forced">>
Here   == <<"here">>
Purged == <<"devpod", "wipe">>
Wiping == <<"wipe">>
Todo   == {<<>>, Stale, Picked, Asking, Change, Again, Once, Twice, Here, Purged, Wiping}

ACommand == [todo : Todo, spawned : BOOLEAN, runs : 0..2, children : 0..2]
Fits(u) ==
    LET did  == u.runs
        made == u.children
    IN  /\ u.todo \in {Stale, Picked, Twice, Here, Purged} =>
               ~u.spawned /\ did = 0 /\ made = 0
        /\ u.todo = Asking => \/ u.spawned /\ made <= 1
                              \/ ~u.spawned /\ did = 0 /\ made = 0
                              \/ ~u.spawned /\ made < did
        /\ u.todo = Change => ~u.spawned /\ did <= 1 /\ made <= did
        /\ u.todo = Once => ~u.spawned /\ did = 1 /\ made = 0
        /\ u.todo = Again => did = 1 /\ made <= 1
        /\ u.todo = Wiping => made = 0
        /\ made <= 1 \/ made <= did
Scripted(c) ==
    /\ Fits(cmd[c])
    /\ cmd[c].todo # <<>> => \A i \in {1, 2} : i > cmd[c].children => child[<<c, i>>] = Rf!Idle

AnUpdater == [at : {"idle", "check", "list", "json", "bash", "sweep"},
              reason : {Rf!None, "ifStale", "forced"}, seen : SUBSET Workspaces,
              overtaken : SUBSET {"json", "bash"}, earlier : SUBSET Rf!Child]

RefTypes ==
    /\ world \subseteq Workspaces
    /\ cmd \in [Slots -> ACommand] /\ child \in [Rf!Child -> AnUpdater]
    /\ json \in Rf!Says /\ bash \in Rf!Says /\ age \in 0..TTL
    /\ runs \in 0..MaxRuns /\ faults \in 0..MaxFaults /\ late \subseteq {"json", "bash"}

\* The updaters that have read the list, one after the other: a strict order of them,
\* by those that each knows to have read it earlier.
Ordered(C, L, e) ==
    /\ \A k \in C : e[k] \subseteq L \ {k}
    /\ \A k \in C \ L : e[k] = {}
    /\ \A j, k \in L : j = k \/ j \in e[k] \/ k \in e[j]
    /\ \A j, k \in L : j \in e[k] => k \notin e[j]
    /\ \A i, j, k \in L : i \in e[j] /\ j \in e[k] => i \in e[k]
Earlier == [k \in Rf!Child |-> child[k].earlier]
InOrder == /\ Ordered(Rf!Child, Rf!Listed, Earlier)
           /\ \A k \in Rf!Child \ Rf!Listed : child[k].overtaken = {}

\* Who has a file still to write, and who knows no better than another who has.
Pending(file) == {k \in Rf!Child : child[k].at \in {"json", file}}
Knows(k)      == child[k].seen = world

\* The truth is owed: by a command that has changed it, by an updater that has yet to
\* read it, or by one that has and that nobody has read it otherwise after.
OwedByCommand == \E c \in Slots : \/ Rf!Next1(c, "wipe")
                                  \/ Rf!Next1(c, "forced") /\ ~cmd[c].spawned
OwedByUpdater == \E k \in Rf!Child : \/ child[k].at = "list"
                                     \/ child[k].at = "check" /\ child[k].reason = "forced"
OwedByReader(file) ==
    \E k \in Pending(file) :
        /\ Knows(k) /\ file \notin child[k].overtaken
        /\ \A j \in Rf!Listed : k \in child[j].earlier => Knows(j)
\* Or it is told already, and whoever might untell it has been overtaken.
Content(file) == IF file = "json" THEN json ELSE bash
Told(file) ==
    /\ \A k \in Pending(file) : Knows(k) \/ file \in child[k].overtaken
    /\ Rf!Right(Content(file)) \/ file \in late
Truth(file) == OwedByCommand \/ OwedByUpdater \/ OwedByReader(file) \/ Told(file)

RefInv == /\ RefTypes /\ InOrder /\ \A c \in Slots : Scripted(c)
          /\ faults = 0 => \A file \in {"json", "bash"} : Truth(file)

\* No two of them are the same.
LEMMA TodosDiffer ==
    /\ Stale # <<>> /\ Picked # <<>> /\ Asking # <<>> /\ Change # <<>> /\ Again # <<>>
    /\ Once # <<>> /\ Twice # <<>> /\ Here # <<>> /\ Purged # <<>> /\ Wiping # <<>>
    /\ Stale \notin {Picked, Asking, Change, Again, Once, Twice, Here, Purged, Wiping}
    /\ Picked \notin {Asking, Change, Again, Once, Twice, Here, Purged, Wiping}
    /\ Asking \notin {Change, Again, Once, Twice, Here, Purged, Wiping}
    /\ Change \notin {Again, Once, Twice, Here, Purged, Wiping}
    /\ Again \notin {Once, Twice, Here, Purged, Wiping}
    /\ Once \notin {Twice, Here, Purged, Wiping}
    /\ Twice \notin {Here, Purged, Wiping}
    /\ Here \notin {Purged, Wiping}
    /\ Purged # Wiping
  <1>1. Len(Stale) = 1 /\ Stale[1] = "ifStale"
    BY DEF Stale
  <1>2. Len(Picked) = 2 /\ Picked[1] = "ifStale"
    BY DEF Picked
  <1>3. Len(Asking) = 1 /\ Asking[1] = "forced"
    BY DEF Asking
  <1>4. Len(Change) = 2 /\ Change[1] = "devpod" /\ Change[2] = "forced"
    BY DEF Change
  <1>5. Len(Again) = 3
    BY DEF Again
  <1>6. Len(Once) = 4
    BY DEF Once
  <1>7. Len(Twice) = 5
    BY DEF Twice
  <1>8. Len(Here) = 1 /\ Here[1] = "here"
    BY DEF Here
  <1>9. Len(Purged) = 2 /\ Purged[1] = "devpod" /\ Purged[2] = "wipe"
    BY DEF Purged
  <1>10. Len(Wiping) = 1 /\ Wiping[1] = "wipe"
    BY DEF Wiping
  <1>11. Len(<<>>) = 0
    OBVIOUS
  <1>12. Stale # <<>> /\ Picked # <<>> /\ Asking # <<>> /\ Change # <<>> /\ Again # <<>>
         /\ Once # <<>> /\ Twice # <<>> /\ Here # <<>> /\ Purged # <<>> /\ Wiping # <<>>
    BY <1>1, <1>2, <1>3, <1>4, <1>5, <1>6, <1>7, <1>8, <1>9, <1>10, <1>11
  <1>13. Stale \notin {Picked, Asking, Change, Again, Once, Twice, Here, Purged, Wiping}
    BY <1>1, <1>2, <1>3, <1>4, <1>5, <1>6, <1>7, <1>8, <1>9, <1>10, <1>11
  <1>14. Picked \notin {Asking, Change, Again, Once, Twice, Here, Purged, Wiping}
    BY <1>1, <1>2, <1>3, <1>4, <1>5, <1>6, <1>7, <1>8, <1>9, <1>10, <1>11
  <1>15. Asking \notin {Change, Again, Once, Twice, Here, Purged, Wiping}
    BY <1>1, <1>2, <1>3, <1>4, <1>5, <1>6, <1>7, <1>8, <1>9, <1>10, <1>11
  <1>16. Change \notin {Again, Once, Twice, Here, Purged, Wiping}
    BY <1>1, <1>2, <1>3, <1>4, <1>5, <1>6, <1>7, <1>8, <1>9, <1>10, <1>11
  <1>17. Again \notin {Once, Twice, Here, Purged, Wiping}
    BY <1>1, <1>2, <1>3, <1>4, <1>5, <1>6, <1>7, <1>8, <1>9, <1>10, <1>11
  <1>18. Once \notin {Twice, Here, Purged, Wiping}
    BY <1>1, <1>2, <1>3, <1>4, <1>5, <1>6, <1>7, <1>8, <1>9, <1>10, <1>11
  <1>19. Twice \notin {Here, Purged, Wiping} /\ Here \notin {Purged, Wiping} /\ Purged # Wiping
    BY <1>1, <1>2, <1>3, <1>4, <1>5, <1>6, <1>7, <1>8, <1>9, <1>10, <1>11
  <1> QED
    BY <1>12, <1>13, <1>14, <1>15, <1>16, <1>17, <1>18, <1>19

\* What comes after each step of a script.
LEMMA AfterSteps ==
    /\ Head(Stale) = "ifStale"  /\ Tail(Stale) = <<>>
    /\ Head(Picked) = "ifStale" /\ Tail(Picked) = Asking
    /\ Head(Asking) = "forced"   /\ Tail(Asking) = <<>>
    /\ Head(Change) = "devpod"  /\ Tail(Change) = Asking
    /\ Head(Again) = "rearm"    /\ Tail(Again) = Change
    /\ Head(Once) = "forced"    /\ Tail(Once) = Again
    /\ Head(Twice) = "devpod"   /\ Tail(Twice) = Once
    /\ Head(Here) = "here"      /\ Tail(Here) = <<>>
    /\ Head(Purged) = "devpod"  /\ Tail(Purged) = Wiping
    /\ Head(Wiping) = "wipe"    /\ Tail(Wiping) = <<>>
  BY DEF Stale, Picked, Asking, Change, Again, Once, Twice, Here, Purged, Wiping

(***************************************************************************)
(* An order of the readers, and what becomes of it.                        *)
(***************************************************************************)
LEMMA OrderGrows ==
    ASSUME NEW C, NEW L \in SUBSET C, NEW k \in C \ L, NEW e, NEW f, Ordered(C, L, e),
           f[k] = L, \A j \in C \ {k} : f[j] = e[j]
    PROVE  Ordered(C, L \cup {k}, f)
  <1>1. \A j \in C : f[j] \subseteq (L \cup {k}) \ {j}
    BY DEF Ordered
  <1>2. \A j \in C \ (L \cup {k}) : f[j] = {}
    BY DEF Ordered
  <1>3. \A i, j \in L \cup {k} : i = j \/ i \in f[j] \/ j \in f[i]
    BY DEF Ordered
  <1>4. \A i, j \in L \cup {k} : i \in f[j] => j \notin f[i]
    BY DEF Ordered
  <1>5. \A h, i, j \in L \cup {k} : h \in f[i] /\ i \in f[j] => h \in f[j]
    BY DEF Ordered
  <1> QED
    BY <1>1, <1>2, <1>3, <1>4, <1>5 DEF Ordered

LEMMA OrderShrinks ==
    ASSUME NEW C, NEW L \in SUBSET C, NEW k \in C, NEW e, NEW f, Ordered(C, L, e),
           f[k] = {}, \A j \in C \ {k} : f[j] = e[j] \ {k}
    PROVE  Ordered(C, L \ {k}, f)
  <1>1. \A j \in C : f[j] \subseteq (L \ {k}) \ {j}
    BY DEF Ordered
  <1>2. \A j \in C \ (L \ {k}) : f[j] = {}
    BY DEF Ordered
  <1>3. \A i, j \in L \ {k} : i = j \/ i \in f[j] \/ j \in f[i]
    BY DEF Ordered
  <1>4. \A i, j \in L \ {k} : i \in f[j] => j \notin f[i]
    BY DEF Ordered
  <1>5. \A h, i, j \in L \ {k} : h \in f[i] /\ i \in f[j] => h \in f[j]
    BY DEF Ordered
  <1> QED
    BY <1>1, <1>2, <1>3, <1>4, <1>5 DEF Ordered

LEMMA OrderStays ==
    ASSUME NEW C, NEW L \in SUBSET C, NEW e, NEW f, Ordered(C, L, e),
           \A j \in C : f[j] = e[j]
    PROVE  Ordered(C, L, f)
  <1>1. \A j \in C : f[j] \subseteq L \ {j}
    BY DEF Ordered
  <1> QED
    BY <1>1 DEF Ordered

(***************************************************************************)
(* What the steps of an updater do to the updaters.                        *)
(***************************************************************************)
LEMMA IdleIsUpdater ==
    Rf!Idle \in AnUpdater /\ Rf!Idle.at = "idle" /\ Rf!Idle.reason = Rf!None
    /\ Rf!Idle.earlier = {} /\ Rf!Idle.overtaken = {} /\ Rf!Idle.seen = {}
  BY DEF Rf!Idle, AnUpdater, Rf!None

LEMMA ListedAre == Rf!Listed \in SUBSET Rf!Child
  BY DEF Rf!Listed

\* One is started, in a slot that stood idle.
LEMMA Spawns ==
    ASSUME RefTypes, InOrder, NEW c \in Slots, NEW reason \in {"ifStale", "forced"},
           NEW k \in Rf!Child, k = <<c, cmd[c].children + 1>>, child[k] = Rf!Idle,
           Rf!Spawn(c, reason)
    PROVE  /\ child' \in [Rf!Child -> AnUpdater] /\ InOrder' /\ UNCHANGED Rf!Listed
           /\ child'[k].at = "check" /\ child'[k].reason = reason
           /\ \A j \in Rf!Child \ {k} : child'[j] = child[j]
  <1>1. child \in [Rf!Child -> AnUpdater]
    BY DEF RefTypes
  <1> DEFINE new == [Rf!Idle EXCEPT !.at = "check", !.reason = reason]
  <1>2. new \in AnUpdater /\ new.at = "check" /\ new.reason = reason /\ new.earlier = {}
        /\ new.overtaken = {}
    BY DEF Rf!Idle, AnUpdater, Rf!None
  <1>3. child' = [child EXCEPT ![k] = new]
    BY DEF Rf!Spawn
  <1> HIDE DEF new
  <1>4. /\ child' \in [Rf!Child -> AnUpdater] /\ child'[k] = new
        /\ \A j \in Rf!Child \ {k} : child'[j] = child[j]
    BY <1>1, <1>2, <1>3
  <1>5. UNCHANGED Rf!Listed
    BY <1>2, <1>4, IdleIsUpdater DEF Rf!Listed
  <1>6. \A j \in Rf!Child : Earlier'[j] = Earlier[j]
    BY <1>2, <1>4, IdleIsUpdater DEF Earlier
  <1>7. Ordered(Rf!Child, Rf!Listed, Earlier')
    BY <1>6, ListedAre, OrderStays DEF InOrder
  <1>8. \A j \in Rf!Child \ Rf!Listed : child'[j].overtaken = {}
    BY <1>2, <1>4 DEF InOrder
  <1>9. InOrder'
    BY <1>5, <1>7, <1>8 DEF InOrder, Rf!Child
  <1> QED
    BY <1>2, <1>4, <1>5, <1>9

\* One goes on, having read the list or not.
LEMMA GoesOn ==
    ASSUME RefTypes, InOrder, NEW k \in Rf!Child, NEW from, NEW to, Rf!Go(k, from, to),
           \/ from = "check" /\ to = "list"
           \/ from \in {"json", "bash"} /\ to \in {"json", "bash", "sweep"}
    PROVE  /\ child' \in [Rf!Child -> AnUpdater] /\ InOrder' /\ UNCHANGED Rf!Listed
           /\ child[k].at = from /\ child'[k] = [child[k] EXCEPT !.at = to]
           /\ \A j \in Rf!Child \ {k} : child'[j] = child[j]
  <1>1. child \in [Rf!Child -> AnUpdater]
    BY DEF RefTypes
  <1>2. /\ child[k].at = from /\ child'[k] = [child[k] EXCEPT !.at = to]
        /\ \A j \in Rf!Child \ {k} : child'[j] = child[j]
        /\ child' \in [Rf!Child -> AnUpdater]
    BY <1>1 DEF Rf!Go, AnUpdater
  <1>3. UNCHANGED Rf!Listed
    BY <1>1, <1>2 DEF Rf!Listed, AnUpdater
  <1>4. \A j \in Rf!Child : child'[j].earlier = child[j].earlier
                            /\ child'[j].overtaken = child[j].overtaken
    BY <1>1, <1>2 DEF AnUpdater
  <1>5. \A j \in Rf!Child : Earlier'[j] = Earlier[j]
    BY <1>4 DEF Earlier
  <1>6. Ordered(Rf!Child, Rf!Listed, Earlier')
    BY <1>5, ListedAre, OrderStays DEF InOrder
  <1>7. InOrder'
    BY <1>3, <1>4, <1>6 DEF InOrder, Rf!Child
  <1> QED
    BY <1>2, <1>3, <1>7

\* One ends.
LEMMA Ends ==
    ASSUME RefTypes, InOrder, NEW k \in Rf!Child, Rf!Done(k)
    PROVE  /\ child' \in [Rf!Child -> AnUpdater] /\ InOrder' /\ Rf!Listed' = Rf!Listed \ {k}
           /\ child'[k] = Rf!Idle
           /\ \A j \in Rf!Child \ {k} :
                 child'[j] = [child[j] EXCEPT !.earlier = @ \ {k}]
  <1>1. child \in [Rf!Child -> AnUpdater]
    BY DEF RefTypes
  <1>2. /\ child'[k] = Rf!Idle
        /\ \A j \in Rf!Child \ {k} : child'[j] = [child[j] EXCEPT !.earlier = @ \ {k}]
    BY DEF Rf!Done
  <1>3. ASSUME NEW u \in AnUpdater
        PROVE  /\ [u EXCEPT !.earlier = @ \ {k}] \in AnUpdater
               /\ [u EXCEPT !.earlier = @ \ {k}].at = u.at
               /\ [u EXCEPT !.earlier = @ \ {k}].overtaken = u.overtaken
               /\ [u EXCEPT !.earlier = @ \ {k}].earlier = u.earlier \ {k}
    BY DEF AnUpdater
  <1>4. \A j \in Rf!Child \ {k} : /\ child'[j] \in AnUpdater /\ child'[j].at = child[j].at
                                  /\ child'[j].overtaken = child[j].overtaken
                                  /\ child'[j].earlier = child[j].earlier \ {k}
    BY <1>1, <1>2, <1>3
  <1>5. child' \in [Rf!Child -> AnUpdater]
    BY <1>2, <1>4, IdleIsUpdater DEF Rf!Done
  <1>6. Rf!Listed' = Rf!Listed \ {k}
    BY <1>2, <1>4, IdleIsUpdater DEF Rf!Listed
  <1>7. Earlier'[k] = {} /\ \A j \in Rf!Child \ {k} : Earlier'[j] = Earlier[j] \ {k}
    BY <1>2, <1>4, IdleIsUpdater DEF Earlier
  <1>8. Ordered(Rf!Child, Rf!Listed \ {k}, Earlier')
    BY <1>7, ListedAre, OrderShrinks DEF InOrder
  <1>9. \A j \in Rf!Child \ (Rf!Listed \ {k}) : child'[j].overtaken = {}
    BY <1>2, <1>4, IdleIsUpdater DEF InOrder
  <1>10. InOrder'
    BY <1>6, <1>8, <1>9 DEF InOrder, Rf!Child
  <1> QED
    BY <1>2, <1>5, <1>6, <1>10

\* One reads the list, after all that have.
LEMMA ReadsLast ==
    ASSUME RefTypes, InOrder, NEW k \in Rf!Child, NEW what \in SUBSET Workspaces,
           child[k].at = "list", Rf!Reads(k, what)
    PROVE  /\ child' \in [Rf!Child -> AnUpdater] /\ InOrder' /\ Rf!Listed' = Rf!Listed \cup {k}
           /\ child'[k].at = "json" /\ child'[k].seen = what
           /\ child'[k].overtaken = {} /\ child'[k].earlier = Rf!Listed
           /\ k \notin Rf!Listed
           /\ \A j \in Rf!Child \ {k} : child'[j] = child[j]
  <1>1. child \in [Rf!Child -> AnUpdater]
    BY DEF RefTypes
  <1>2. k \notin Rf!Listed
    BY DEF Rf!Listed
  <1>3. /\ child'[k] = [child[k] EXCEPT !.at = "json", !.seen = what, !.earlier = Rf!Listed]
        /\ \A j \in Rf!Child \ {k} : child'[j] = child[j]
    BY <1>1, Zenon DEF Rf!Reads
  <1>4. ASSUME NEW u \in AnUpdater, NEW L \in SUBSET Rf!Child
        PROVE  LET v == [u EXCEPT !.at = "json", !.seen = what, !.earlier = L]
               IN  /\ v \in AnUpdater /\ v.at = "json" /\ v.seen = what
                   /\ v.overtaken = u.overtaken /\ v.earlier = L
    BY <1>4 DEF AnUpdater
  <1> DEFINE v == [child[k] EXCEPT !.at = "json", !.seen = what, !.earlier = Rf!Listed]
  <1>a. v \in AnUpdater /\ v.at = "json" /\ v.seen = what
        /\ v.overtaken = child[k].overtaken /\ v.earlier = Rf!Listed
    <2>1. child[k] \in AnUpdater
      BY <1>1
    <2> QED
      BY <2>1, <1>4, ListedAre, Zenon
  <1>5. /\ child'[k] \in AnUpdater /\ child'[k].at = "json" /\ child'[k].seen = what
        /\ child'[k].overtaken = child[k].overtaken /\ child'[k].earlier = Rf!Listed
    BY <1>3, <1>a, Zenon
  <1>6. child[k].overtaken = {}
    BY <1>2 DEF InOrder
  <1>7. child' \in [Rf!Child -> AnUpdater]
    BY <1>1, <1>3, <1>5, Zenon DEF Rf!Reads
  <1>8. Rf!Listed' = Rf!Listed \cup {k}
    BY <1>3, <1>5 DEF Rf!Listed
  <1>9. Earlier'[k] = Rf!Listed /\ \A j \in Rf!Child \ {k} : Earlier'[j] = Earlier[j]
    BY <1>3, <1>5 DEF Earlier
  <1>10. Ordered(Rf!Child, Rf!Listed \cup {k}, Earlier')
    BY <1>2, <1>9, ListedAre, OrderGrows DEF InOrder
  <1>11. \A j \in Rf!Child \ (Rf!Listed \cup {k}) : child'[j].overtaken = {}
    BY <1>3 DEF InOrder
  <1>12. InOrder'
    BY <1>8, <1>10, <1>11 DEF InOrder, Rf!Child
  <1> QED
    BY <1>2, <1>3, <1>5, <1>6, <1>7, <1>8, <1>12

\* One writes a file, and those that had read the list before it are behind.
LEMMA Writes ==
    ASSUME RefTypes, InOrder, NEW k \in Rf!Child, NEW file, NEW to, Rf!Written(k, file, to),
           <<file, to>> \in {<<"json", "bash">>, <<"bash", "sweep">>}
    PROVE  /\ child' \in [Rf!Child -> AnUpdater] /\ InOrder' /\ UNCHANGED Rf!Listed
           /\ child[k].at = file /\ child'[k].at = to
           /\ \A j \in Rf!Child : /\ child'[j].seen = child[j].seen
                                  /\ child'[j].reason = child[j].reason
                                  /\ child'[j].earlier = child[j].earlier
           /\ child'[k].overtaken = child[k].overtaken
           /\ \A j \in Rf!Child \ {k} : child'[j].at = child[j].at
           /\ \A j \in child[k].earlier :
                 child'[j].overtaken = child[j].overtaken \cup {file}
           /\ \A j \in Rf!Child \ child[k].earlier :
                 child'[j].overtaken = child[j].overtaken
           /\ \A j \in Rf!Child \ (child[k].earlier \cup {k}) : child'[j] = child[j]
  <1>1. child \in [Rf!Child -> AnUpdater]
    BY DEF RefTypes
  <1>2. file \in {"json", "bash"} /\ to \in {"bash", "sweep"} /\ child[k].at = file
    BY DEF Rf!Written
  <1>3. k \in Rf!Listed /\ child[k].earlier \subseteq Rf!Listed \ {k}
        /\ child[k].earlier \subseteq Rf!Child
    BY <1>2, ListedAre DEF Rf!Listed, InOrder, Ordered, Earlier
  <1> DEFINE o == Rf!Overtake(child[k].earlier, {file})
  <1>4. ASSUME NEW u \in AnUpdater
        PROVE  LET v == [u EXCEPT !.overtaken = @ \cup {file}]
               IN  /\ v \in AnUpdater /\ v.at = u.at /\ v.seen = u.seen /\ v.reason = u.reason
                   /\ v.overtaken = u.overtaken \cup {file} /\ v.earlier = u.earlier
    BY <1>2, <1>4 DEF AnUpdater
  <1>5. ASSUME NEW u \in AnUpdater
        PROVE  LET v == [u EXCEPT !.at = to]
               IN  /\ v \in AnUpdater /\ v.at = to /\ v.seen = u.seen /\ v.reason = u.reason
                   /\ v.overtaken = u.overtaken /\ v.earlier = u.earlier
    BY <1>2, <1>5 DEF AnUpdater
  <1>6. \A j \in Rf!Child : o[j] = IF j \in child[k].earlier
                                     THEN [child[j] EXCEPT !.overtaken = @ \cup {file}]
                                     ELSE child[j]
    BY Zenon DEF Rf!Overtake
  <1>7. o = [j \in Rf!Child |-> o[j]]
    BY Zenon DEF Rf!Overtake
  <1>8. child' = [o EXCEPT ![k].at = to]
    BY DEF Rf!Written
  <1> HIDE DEF o
  <1>9. \A j \in Rf!Child : /\ o[j] \in AnUpdater /\ o[j].at = child[j].at
                            /\ o[j].seen = child[j].seen /\ o[j].reason = child[j].reason
                            /\ o[j].earlier = child[j].earlier
                            /\ o[j].overtaken = IF j \in child[k].earlier
                                                  THEN child[j].overtaken \cup {file}
                                                  ELSE child[j].overtaken
    BY <1>1, <1>4, <1>6
  <1>10. child' = [j \in Rf!Child |-> IF j = k THEN [o[k] EXCEPT !.at = to] ELSE o[j]]
    BY <1>7, <1>8
  <1>11. child'[k] = [o[k] EXCEPT !.at = to] /\ \A j \in Rf!Child \ {k} : child'[j] = o[j]
    BY <1>10
  <1>a. /\ child'[k] \in AnUpdater /\ child'[k].at = to /\ child'[k].seen = o[k].seen
        /\ child'[k].reason = o[k].reason /\ child'[k].overtaken = o[k].overtaken
        /\ child'[k].earlier = o[k].earlier
    <2>1. o[k] \in AnUpdater
      BY <1>9
    <2> QED
      BY <2>1, <1>5, <1>11, Zenon
  <1>12. /\ child'[k].at = to /\ \A j \in Rf!Child \ {k} : child'[j].at = child[j].at
         /\ \A j \in Rf!Child : /\ child'[j].seen = child[j].seen
                                /\ child'[j].reason = child[j].reason
                                /\ child'[j].earlier = child[j].earlier
                                /\ child'[j].overtaken = o[j].overtaken
                                /\ child'[j] \in AnUpdater
    BY <1>a, <1>9, <1>11
  <1>13. child' \in [Rf!Child -> AnUpdater]
    BY <1>10, <1>12
  <1>14. UNCHANGED Rf!Listed
    BY <1>2, <1>12, <1>3 DEF Rf!Listed
  <1>15. \A j \in Rf!Child : Earlier'[j] = Earlier[j]
    BY <1>12 DEF Earlier
  <1>16. Ordered(Rf!Child, Rf!Listed, Earlier')
    BY <1>15, ListedAre, OrderStays DEF InOrder
  <1>17. \A j \in Rf!Child \ Rf!Listed : child'[j].overtaken = {}
    BY <1>3, <1>9, <1>12 DEF InOrder
  <1>18. InOrder'
    BY <1>14, <1>16, <1>17 DEF InOrder, Rf!Child
  <1> QED
    BY <1>2, <1>3, <1>6, <1>9, <1>11, <1>12, <1>13, <1>14, <1>18

(***************************************************************************)
(* What each step of a script does to the command's record.                *)
(***************************************************************************)
LEMMA OverFits ==
    /\ Rf!Over \in ACommand /\ Fits(Rf!Over) /\ Rf!Over.todo = <<>>
    /\ Rf!Over.spawned = FALSE /\ Rf!Over.runs = 0 /\ Rf!Over.children = 0
  BY TodosDiffer DEF Rf!Over, ACommand, Fits, Todo

LEMMA BeginFits ==
    ASSUME RefSupposed, NEW s \in Scripts
    PROVE  LET v == [Rf!Over EXCEPT !.todo = Rf!Steps[s]]
           IN  v \in ACommand /\ Fits(v) /\ v.children = 0
  <1> DEFINE v == [Rf!Over EXCEPT !.todo = Rf!Steps[s]]
  <1>1. s \in {"reads", "picks", "changes", "throwaway", "refreshes", "purges"}
    BY DEF RefSupposed, Rf!ScriptsAssumption, Rf!Steps
  <1>2. Rf!Steps[s] \in {Stale, Picked, Change, Twice, Here, Purged}
    BY <1>1 DEF Rf!Steps, Stale, Picked, Change, Twice, Here, Purged
  <1>3. v.todo \in {Stale, Picked, Change, Twice, Here, Purged} /\ v \in ACommand
        /\ v.spawned = FALSE /\ v.runs = 0 /\ v.children = 0
    BY <1>2, OverFits DEF ACommand, Todo
  <1> HIDE DEF v
  <1>4. Fits(v)
    BY <1>3, TodosDiffer DEF Fits
  <1> QED
    BY <1>3, <1>4 DEF v

LEMMA DevpodFits ==
    ASSUME NEW u \in ACommand, Fits(u), u.todo # <<>>, Head(u.todo) = "devpod"
    PROVE  LET v == [[u EXCEPT !.todo = Tail(@)] EXCEPT !.runs = @ + 1]
           IN  /\ v \in ACommand /\ Fits(v) /\ v.children = u.children
               /\ (v.todo \in {Asking, Once} /\ ~v.spawned) \/ v.todo = Wiping
  <1> DEFINE v == [[u EXCEPT !.todo = Tail(@)] EXCEPT !.runs = @ + 1]
  <1>1. u.todo \in {Change, Twice, Purged}
    BY AfterSteps DEF ACommand, Todo
  <1>2. /\ Tail(u.todo) \in {Asking, Once, Wiping}
        /\ u.todo = Change => Tail(u.todo) = Asking
        /\ u.todo = Twice => Tail(u.todo) = Once
        /\ u.todo = Purged => Tail(u.todo) = Wiping
    BY <1>1, AfterSteps
  <1>3. u.runs \in {0, 1} /\ u.spawned \in BOOLEAN /\ u.children \in 0..2
        /\ (u.todo # Change => u.runs = 0 /\ u.children = 0 /\ ~u.spawned)
        /\ (u.todo = Change => u.children <= u.runs /\ ~u.spawned)
    BY <1>1 DEF ACommand, Fits
  <1> DEFINE w == [u EXCEPT !.todo = Tail(@)]
  <1>a. w \in ACommand /\ w.todo = Tail(u.todo) /\ w.runs = u.runs
        /\ w.spawned = u.spawned /\ w.children = u.children
    BY <1>2 DEF ACommand, Todo
  <1>b. v = [w EXCEPT !.runs = w.runs + 1]
    BY <1>a DEF ACommand
  <1> HIDE DEF v, w
  <1>c. u.runs + 1 \in 0..2
    BY <1>3
  <1>4. v \in ACommand /\ v.todo = Tail(u.todo) /\ v.runs = u.runs + 1
        /\ v.spawned = u.spawned /\ v.children = u.children
    BY <1>a, <1>b, <1>c DEF ACommand
  <1> HIDE DEF v
  <1>5. Fits(v)
    <2>1. CASE u.todo = Change
      <3>1. v.todo = Asking /\ ~v.spawned /\ v.children < v.runs /\ v.children <= v.runs
        BY <2>1, <1>2, <1>3, <1>4
      <3> QED
        BY <3>1, TodosDiffer DEF Fits
    <2>2. CASE u.todo # Change
      <3>1. /\ v.todo = Once \/ v.todo = Wiping
            /\ ~v.spawned /\ v.runs = 1 /\ v.children = 0
        BY <2>2, <1>1, <1>2, <1>3, <1>4
      <3> QED
        BY <3>1, TodosDiffer DEF Fits
    <2> QED
      BY <2>1, <2>2
  <1>6. (v.todo \in {Asking, Once} /\ ~v.spawned) \/ v.todo = Wiping
    BY <1>2, <1>3, <1>4
  <1> QED
    BY <1>4, <1>5, <1>6 DEF v

\* A request that starts nothing, one that starts an updater, one that is refused.
LEMMA AskFits ==
    ASSUME NEW u \in ACommand, Fits(u), u.todo # <<>>, Head(u.todo) \in {"ifStale", "forced"}
    PROVE  LET skipped == [u EXCEPT !.todo = Tail(@)]
               started == [skipped EXCEPT !.spawned = TRUE, !.children = @ + 1]
               refused == [skipped EXCEPT !.spawned = TRUE]
           IN  /\ u.spawned \/ Head(u.todo) = "ifStale" =>
                      /\ skipped \in ACommand /\ Fits(skipped)
                      /\ skipped.children = u.children
                      /\ skipped.spawned = u.spawned /\ skipped.todo = Tail(u.todo)
               /\ ~u.spawned => /\ started \in ACommand /\ Fits(started)
                                /\ started.children = u.children + 1
                                /\ u.children \in {0, 1}
                                /\ refused \in ACommand /\ Fits(refused)
                                /\ refused.children = u.children
  <1> DEFINE skipped == [u EXCEPT !.todo = Tail(@)]
             started == [skipped EXCEPT !.spawned = TRUE, !.children = @ + 1]
             refused == [skipped EXCEPT !.spawned = TRUE]
  <1>1. u.todo \in {Stale, Picked, Asking, Once}
    BY AfterSteps DEF ACommand, Todo
  <1>2. /\ Tail(u.todo) \in {<<>>, Asking, Again}
        /\ u.todo \in {Stale, Asking} => Tail(u.todo) = <<>>
        /\ u.todo = Picked => Tail(u.todo) = Asking
        /\ u.todo = Once => Tail(u.todo) = Again
        /\ Head(u.todo) = "ifStale" => u.todo \in {Stale, Picked}
    BY <1>1, AfterSteps
  <1>3. /\ u.runs \in 0..2 /\ u.spawned \in BOOLEAN /\ u.children \in 0..2
        /\ u.children <= 1 \/ u.children <= u.runs
        /\ u.todo \in {Stale, Picked} => u.runs = 0 /\ u.children = 0 /\ ~u.spawned
        /\ u.todo = Once => u.runs = 1 /\ u.children = 0 /\ ~u.spawned
        /\ u.todo = Asking => \/ u.spawned /\ u.children <= 1
                              \/ ~u.spawned /\ u.runs = 0 /\ u.children = 0
                              \/ ~u.spawned /\ u.children < u.runs
    BY <1>1 DEF ACommand, Fits
  <1>4. /\ skipped \in ACommand /\ skipped.todo = Tail(u.todo) /\ skipped.runs = u.runs
        /\ skipped.spawned = u.spawned /\ skipped.children = u.children
    BY <1>2 DEF ACommand, Todo
  <1> HIDE DEF skipped
  <1>5. u.spawned \/ Head(u.todo) = "ifStale" => Fits(skipped)
    BY <1>1, <1>2, <1>3, <1>4, TodosDiffer DEF Fits
  <1>6. ~u.spawned => u.children \in {0, 1} /\ (u.children = 1 => u.todo = Asking /\ u.runs = 2)
    BY <1>1, <1>3
  <1>7. refused \in ACommand /\ refused.todo = Tail(u.todo) /\ refused.runs = u.runs
        /\ refused.spawned = TRUE /\ refused.children = u.children
    BY <1>4 DEF ACommand
  <1>a. started = [skipped EXCEPT !.spawned = TRUE, !.children = skipped.children + 1]
    BY <1>4 DEF ACommand
  <1>8. ASSUME ~u.spawned
        PROVE  started \in ACommand /\ started.todo = Tail(u.todo) /\ started.runs = u.runs
               /\ started.spawned = TRUE /\ started.children = u.children + 1
    <2>1. u.children + 1 \in 0..2
      BY <1>6, <1>8
    <2> HIDE DEF started
    <2> QED
      BY <1>4, <1>a, <2>1 DEF ACommand
  <1> HIDE DEF started, refused
  <1>9. ~u.spawned => Fits(refused)
    <2>1. refused.spawned /\ (refused.children <= 1 \/ refused.children <= refused.runs)
      BY <1>3, <1>7
    <2>2. ASSUME ~u.spawned
          PROVE  \/ refused.todo = <<>>
                 \/ refused.todo = Asking /\ refused.children <= 1
                 \/ refused.todo = Again /\ refused.runs = 1 /\ refused.children <= 1
      BY <2>2, <1>1, <1>2, <1>3, <1>7
    <2> QED
      BY <2>1, <2>2, TodosDiffer DEF Fits
  <1>10. ~u.spawned => Fits(started)
    <2>1. ASSUME ~u.spawned
          PROVE  /\ started.spawned /\ (started.children <= 1 \/ started.children <= started.runs)
                 /\ \/ started.todo = <<>>
                    \/ started.todo = Asking /\ started.children <= 1
                    \/ started.todo = Again /\ started.runs = 1 /\ started.children <= 1
      <3>1. CASE u.children = 0
        <4>a. started.spawned = TRUE /\ started.children = u.children + 1
              /\ started.todo = Tail(u.todo) /\ started.runs = u.runs
          BY <2>1, <1>8
        <4>b. started.spawned /\ started.todo = Tail(u.todo) /\ started.runs = u.runs
          BY <4>a
        <4>c. started.children = 1
          BY <4>a, <3>1
        <4>1. started.spawned /\ started.children = 1 /\ started.runs = u.runs
              /\ started.todo = Tail(u.todo)
          BY <4>b, <4>c
        <4>2. started.children <= 1
          BY <4>1
        <4>3. u.todo = Once => started.runs = 1
          BY <4>1, <1>3
        <4> QED
          BY <4>1, <4>2, <4>3, <1>1, <1>2
      <3>2. CASE u.children = 1
        <4>1. started.spawned /\ started.children = 2 /\ started.runs = 2
              /\ started.todo = <<>>
          <5>1. started.spawned = TRUE /\ started.children = u.children + 1
                /\ started.todo = Tail(u.todo) /\ started.runs = u.runs
            BY <2>1, <1>8
          <5>2. started.children = 2
            BY <5>1, <3>2
          <5>3. u.todo = Asking /\ u.runs = 2
            BY <2>1, <3>2, <1>6
          <5> QED
            BY <5>1, <5>2, <5>3, <1>2
        <4>2. started.children <= started.runs
          BY <4>1
        <4> QED
          BY <4>1, <4>2
      <3> QED
        BY <2>1, <3>1, <3>2, <1>6
    <2> QED
      BY <2>1, TodosDiffer DEF Fits
  <1> QED
    BY <1>4, <1>5, <1>6, <1>7, <1>8, <1>9, <1>10 DEF skipped, started, refused

LEMMA RearmFits ==
    ASSUME NEW u \in ACommand, Fits(u), u.todo # <<>>, Head(u.todo) = "rearm"
    PROVE  LET v == [[u EXCEPT !.todo = Tail(@)] EXCEPT !.spawned = FALSE]
           IN  /\ v \in ACommand /\ Fits(v) /\ v.children = u.children
               /\ u.todo = Again
  <1> DEFINE v == [[u EXCEPT !.todo = Tail(@)] EXCEPT !.spawned = FALSE]
  <1>1. u.todo = Again /\ Tail(u.todo) = Change
    BY AfterSteps DEF ACommand, Todo
  <1>2. u.runs = 1 /\ u.children <= 1
    BY <1>1 DEF Fits
  <1>3. v \in ACommand /\ v.todo = Change /\ v.runs = u.runs /\ ~v.spawned
        /\ v.children = u.children
    BY <1>1 DEF ACommand, Todo
  <1> HIDE DEF v
  <1>4. Fits(v)
    BY <1>2, <1>3, TodosDiffer DEF Fits
  <1> QED
    BY <1>1, <1>3, <1>4 DEF v

LEMMA HereFits ==
    ASSUME NEW u \in ACommand, Fits(u), u.todo # <<>>, Head(u.todo) = "here"
    PROVE  LET v == [[u EXCEPT !.todo = Tail(@)] EXCEPT !.children = 1]
           IN  /\ v \in ACommand /\ Fits(v) /\ v.children = 1
               /\ u.children = 0
  <1> DEFINE v == [[u EXCEPT !.todo = Tail(@)] EXCEPT !.children = 1]
  <1>1. u.todo = Here /\ Tail(u.todo) = <<>>
    BY AfterSteps DEF ACommand, Todo
  <1>2. u.children = 0
    BY <1>1 DEF Fits
  <1> DEFINE w == [u EXCEPT !.todo = Tail(@)]
  <1>a. w \in ACommand /\ w.todo = <<>>
    BY <1>1 DEF ACommand, Todo
  <1> HIDE DEF w
  <1>b. v = [w EXCEPT !.children = 1]
    BY <1>a DEF w
  <1> HIDE DEF v
  <1>3. v \in ACommand /\ v.todo = <<>> /\ v.children = 1
    BY <1>a, <1>b DEF ACommand
  <1> HIDE DEF v
  <1>4. Fits(v)
    BY <1>3, TodosDiffer DEF Fits
  <1> QED
    BY <1>2, <1>3, <1>4 DEF v

LEMMA WipeFits ==
    ASSUME NEW u \in ACommand, Fits(u), u.todo # <<>>, Head(u.todo) = "wipe"
    PROVE  LET v == [u EXCEPT !.todo = Tail(@)]
           IN  v \in ACommand /\ Fits(v) /\ v.children = u.children /\ v.todo = <<>>
  <1> DEFINE v == [u EXCEPT !.todo = Tail(@)]
  <1>1. u.todo = Wiping /\ Tail(u.todo) = <<>>
    BY AfterSteps DEF ACommand, Todo
  <1>2. u.children = 0
    BY <1>1 DEF Fits
  <1>3. v \in ACommand /\ v.todo = <<>> /\ v.children = u.children
    BY <1>1 DEF ACommand, Todo
  <1> HIDE DEF v
  <1>4. Fits(v)
    BY <1>2, <1>3, TodosDiffer DEF Fits
  <1> QED
    BY <1>3, <1>4 DEF v

(***************************************************************************)
(* What every step keeps, whatever fails.                                  *)
(***************************************************************************)
Shape == RefTypes /\ InOrder /\ \A c \in Slots : Scripted(c)

\* One command's record changes, and nobody's updater starts to run.
LEMMA OneCommand ==
    ASSUME RefTypes, \A d \in Slots : Scripted(d), NEW c \in Slots, NEW v \in ACommand,
           Fits(v), cmd' = [cmd EXCEPT ![c] = v],
           \A d \in Slots \ {c}, i \in {1, 2} :
               child[<<d, i>>] = Rf!Idle => child'[<<d, i>>] = Rf!Idle,
           v.todo # <<>> =>
               \A i \in {1, 2} : i > v.children => child'[<<c, i>>] = Rf!Idle
    PROVE  cmd' \in [Slots -> ACommand] /\ \A d \in Slots : Scripted(d)'
  <1>1. cmd' \in [Slots -> ACommand] /\ cmd'[c] = v /\ \A d \in Slots \ {c} : cmd'[d] = cmd[d]
    BY DEF RefTypes
  <1>2. \A d \in Slots \ {c} : Scripted(d)'
    BY <1>1 DEF Scripted
  <1>3. Scripted(c)'
    BY <1>1 DEF Scripted
  <1> QED
    BY <1>1, <1>2, <1>3

LEMMA NoCommand ==
    ASSUME RefTypes, \A d \in Slots : Scripted(d), UNCHANGED cmd,
           \A d \in Slots, i \in {1, 2} :
               child[<<d, i>>] = Rf!Idle => child'[<<d, i>>] = Rf!Idle
    PROVE  \A d \in Slots : Scripted(d)'
  BY DEF Scripted

LEMMA SameOrder == ASSUME InOrder, UNCHANGED child PROVE InOrder'
  BY DEF InOrder, Rf!Listed, Earlier, Rf!Child

LEMMA AFault == ASSUME RefSupposed, RefTypes, Rf!Fault
                PROVE  faults' \in 0..MaxFaults /\ faults' # 0
  BY DEF RefSupposed, Rf!BoundsAssumption, RefTypes, Rf!Fault

LEMMA BeginShape ==
    ASSUME RefSupposed, Shape, NEW c \in Slots, NEW s \in Scripts, Rf!Begin(c, s)
    PROVE  Shape'
  <1> DEFINE v == [Rf!Over EXCEPT !.todo = Rf!Steps[s]]
             many == Rf!Cardinality({i \in DOMAIN Rf!Steps[s] : Rf!Steps[s][i] = "devpod"})
  <1>1. v \in ACommand /\ Fits(v) /\ v.children = 0
    BY BeginFits
  <1>2. many \in Nat
    <2>1. s \in {"reads", "picks", "changes", "throwaway", "refreshes", "purges"}
      BY DEF RefSupposed, Rf!ScriptsAssumption, Rf!Steps
    <2>a. Rf!Steps[s] \in {Stale, Picked, Change, Twice, Here, Purged}
      BY <2>1 DEF Rf!Steps, Stale, Picked, Change, Twice, Here, Purged
    <2>b. DOMAIN Stale = 1..1 /\ DOMAIN Here = 1..1
      BY DEF Stale, Here
    <2>c. DOMAIN Picked = 1..2 /\ DOMAIN Change = 1..2 /\ DOMAIN Purged = 1..2
      BY DEF Picked, Change, Purged
    <2>d. DOMAIN Twice = 1..5
      BY DEF Twice
    <2>e. \A n \in Nat : IsFiniteSet(1..n)
      BY FS_Interval
    <2>4. IsFiniteSet(DOMAIN Rf!Steps[s])
      BY <2>a, <2>b, <2>c, <2>d, <2>e
    <2> DEFINE S == {i \in DOMAIN Rf!Steps[s] : Rf!Steps[s][i] = "devpod"}
    <2>5. S \subseteq DOMAIN Rf!Steps[s]
      OBVIOUS
    <2> HIDE DEF S
    <2>6. Cardinality(S) \in Nat
      BY <2>4, <2>5, FS_Subset, FS_CardinalityType
    <2>7. many = Cardinality(S)
      BY Zenon DEF Rf!Cardinality, Cardinality, S
    <2> QED
      BY <2>6, <2>7
  <1>3. runs' = runs + many /\ runs' <= MaxRuns /\ cmd' = [cmd EXCEPT ![c] = v]
        /\ UNCHANGED <<world, child, json, bash, age, faults, late>>
        /\ child[<<c, 1>>] = Rf!Idle /\ child[<<c, 2>>] = Rf!Idle
    BY DEF Rf!Begin
  <1> HIDE DEF v, many
  <1>4. runs' \in 0..MaxRuns
    BY <1>2, <1>3 DEF Shape, RefTypes, RefSupposed, Rf!BoundsAssumption
  <1>5. cmd' \in [Slots -> ACommand] /\ \A d \in Slots : Scripted(d)'
    BY <1>1, <1>3, OneCommand DEF Shape
  <1> QED
    BY <1>3, <1>4, <1>5, SameOrder DEF Shape, RefTypes, Rf!Child, AnUpdater, Rf!Says

LEMMA RunDevpodShape ==
    ASSUME RefSupposed, Shape, NEW c \in Slots, Rf!RunDevpod(c)
    PROVE  /\ Shape' /\ UNCHANGED faults
           /\ \/ cmd'[c].todo \in {Asking, Once} /\ ~cmd'[c].spawned
              \/ cmd'[c].todo = Wiping
  <1> DEFINE v == [[cmd[c] EXCEPT !.todo = Tail(@)] EXCEPT !.runs = @ + 1]
  <1>1. cmd[c] \in ACommand /\ Fits(cmd[c]) /\ cmd[c].todo # <<>> /\ Head(cmd[c].todo) = "devpod"
    BY DEF Shape, RefTypes, Scripted, Rf!RunDevpod, Rf!Next1
  <1>2. /\ v \in ACommand /\ Fits(v) /\ v.children = cmd[c].children
        /\ (v.todo \in {Asking, Once} /\ ~v.spawned) \/ v.todo = Wiping
    BY <1>1, DevpodFits
  <1>3. cmd' = [cmd EXCEPT ![c] = v]
        /\ UNCHANGED <<child, json, bash, age, runs, faults, late>>
    BY DEF Rf!RunDevpod, Rf!After
  <1>4. world' \subseteq Workspaces
    BY DEF Rf!RunDevpod, Shape, RefTypes
  <1> HIDE DEF v
  <1>5. \A i \in {1, 2} : i > v.children => child'[<<c, i>>] = Rf!Idle
    BY <1>1, <1>2, <1>3 DEF Shape, Scripted
  <1>6. cmd' \in [Slots -> ACommand] /\ \A d \in Slots : Scripted(d)'
    BY <1>2, <1>3, <1>5, OneCommand DEF Shape
  <1>7. cmd'[c] = v
    BY <1>3 DEF Shape, RefTypes
  <1> QED
    BY <1>2, <1>3, <1>4, <1>6, <1>7, SameOrder DEF Shape, RefTypes, Rf!Child, AnUpdater, Rf!Says

LEMMA RearmShape ==
    ASSUME RefSupposed, Shape, NEW c \in Slots, Rf!Rearm(c)
    PROVE  Shape' /\ cmd[c].todo = Again
  <1> DEFINE v == [[cmd[c] EXCEPT !.todo = Tail(@)] EXCEPT !.spawned = FALSE]
  <1>1. cmd[c] \in ACommand /\ Fits(cmd[c]) /\ cmd[c].todo # <<>> /\ Head(cmd[c].todo) = "rearm"
    BY DEF Shape, RefTypes, Scripted, Rf!Rearm, Rf!Next1
  <1>2. v \in ACommand /\ Fits(v) /\ v.children = cmd[c].children /\ cmd[c].todo = Again
    BY <1>1, RearmFits
  <1>3. cmd' = [cmd EXCEPT ![c] = v]
        /\ UNCHANGED <<world, child, json, bash, age, runs, faults, late>>
    BY DEF Rf!Rearm, Rf!After
  <1> HIDE DEF v
  <1>5. \A i \in {1, 2} : i > v.children => child'[<<c, i>>] = Rf!Idle
    BY <1>1, <1>2, <1>3 DEF Shape, Scripted
  <1>6. cmd' \in [Slots -> ACommand] /\ \A d \in Slots : Scripted(d)'
    BY <1>2, <1>3, <1>5, OneCommand DEF Shape
  <1> QED
    BY <1>2, <1>3, <1>6, SameOrder DEF Shape, RefTypes, Rf!Child, AnUpdater, Rf!Says

LEMMA RefreshHereShape ==
    ASSUME RefSupposed, Shape, NEW c \in Slots, Rf!RefreshHere(c)
    PROVE  /\ Shape' /\ UNCHANGED <<world, json, bash, faults, late>> /\ cmd[c].todo = Here
           /\ \E k \in Rf!Child : child'[k].at = "check" /\ child'[k].reason = "forced"
  <1> DEFINE v == [[cmd[c] EXCEPT !.todo = Tail(@)] EXCEPT !.children = 1]
             k == <<c, 1>>
  <1>1. cmd[c] \in ACommand /\ Fits(cmd[c]) /\ cmd[c].todo # <<>> /\ Head(cmd[c].todo) = "here"
    BY DEF Shape, RefTypes, Scripted, Rf!RefreshHere, Rf!Next1
  <1>2. v \in ACommand /\ Fits(v) /\ v.children = 1 /\ cmd[c].children = 0 /\ cmd[c].todo = Here
    BY <1>1, HereFits, AfterSteps DEF ACommand, Todo
  <1>3. cmd' = [cmd EXCEPT ![c] = v] /\ Rf!Spawn(c, "forced")
        /\ UNCHANGED <<world, json, bash, age, runs, faults, late>>
    BY DEF Rf!RefreshHere, Rf!After
  <1> HIDE DEF v
  <1>4. k \in Rf!Child /\ k = <<c, cmd[c].children + 1>> /\ child[k] = Rf!Idle
    <2>1. child[<<c, 1>>] = Rf!Idle
      BY <1>1, <1>2, 1 > 0, Zenon DEF Shape, Scripted
    <2> QED
      BY <1>2, <2>1 DEF Rf!Child
  <1>5. /\ child' \in [Rf!Child -> AnUpdater] /\ InOrder'
        /\ child'[k].at = "check" /\ child'[k].reason = "forced"
        /\ \A j \in Rf!Child \ {k} : child'[j] = child[j]
    BY <1>3, <1>4, Spawns DEF Shape
  <1>6. \A i \in {1, 2} : i > v.children => child'[<<c, i>>] = Rf!Idle
    BY <1>1, <1>2, <1>5 DEF Shape, Scripted, Rf!Child
  <1>7. \A d \in Slots \ {c}, i \in {1, 2} : child'[<<d, i>>] = child[<<d, i>>]
    BY <1>5 DEF Rf!Child
  <1>8. cmd' \in [Slots -> ACommand] /\ \A d \in Slots : Scripted(d)'
    BY <1>2, <1>3, <1>6, <1>7, OneCommand DEF Shape
  <1> QED
    BY <1>2, <1>3, <1>4, <1>5, <1>8 DEF Shape, RefTypes, Rf!Child, AnUpdater, Rf!Says

LEMMA AskShape ==
    ASSUME RefSupposed, Shape, NEW c \in Slots, NEW r \in {"ifStale", "forced"}, Rf!Ask(c, r)
    PROVE  /\ Shape' /\ UNCHANGED <<world, json, bash, late>>
           /\ Rf!Next1(c, r)
           /\ \/ UNCHANGED <<child, faults>> /\ (r = "forced" => cmd[c].spawned)
              \/ /\ UNCHANGED <<faults, Rf!Listed>>
                 /\ \E k \in Rf!Child :
                       /\ child[k] = Rf!Idle /\ child'[k].at = "check" /\ child'[k].reason = r
                       /\ \A j \in Rf!Child \ {k} : child'[j] = child[j]
              \/ faults' # 0
  <1> DEFINE skipped == [cmd[c] EXCEPT !.todo = Tail(@)]
             started == [skipped EXCEPT !.spawned = TRUE, !.children = @ + 1]
             refused == [skipped EXCEPT !.spawned = TRUE]
             k == <<c, cmd[c].children + 1>>
  <1>1. cmd[c] \in ACommand /\ Fits(cmd[c]) /\ cmd[c].todo # <<>> /\ Head(cmd[c].todo) = r
    BY DEF Shape, RefTypes, Scripted, Rf!Ask, Rf!Next1
  <1>2. /\ cmd[c].spawned \/ Head(cmd[c].todo) = "ifStale" =>
              skipped \in ACommand /\ Fits(skipped) /\ skipped.children = cmd[c].children
        /\ ~cmd[c].spawned => /\ started \in ACommand /\ Fits(started)
                              /\ started.children = cmd[c].children + 1
                              /\ cmd[c].children \in {0, 1}
                              /\ refused \in ACommand /\ Fits(refused)
                              /\ refused.children = cmd[c].children
    BY <1>1, AskFits
  <1>3. /\ UNCHANGED <<world, json, bash, age, runs, late>>
        /\ \/ /\ cmd[c].spawned \/ (r = "ifStale" /\ Rf!Fresh)
              /\ cmd' = [cmd EXCEPT ![c] = skipped] /\ UNCHANGED <<child, faults>>
           \/ /\ ~cmd[c].spawned /\ Rf!Spawn(c, r) /\ UNCHANGED faults
              /\ cmd' = [cmd EXCEPT ![c] = started]
           \/ /\ ~cmd[c].spawned /\ Rf!Fault /\ UNCHANGED child
              /\ cmd' = [cmd EXCEPT ![c] = refused]
    BY Zenon DEF Rf!Ask, Rf!After
  <1> HIDE DEF skipped, started, refused
  <1>4. CASE /\ cmd[c].spawned \/ (r = "ifStale" /\ Rf!Fresh)
             /\ cmd' = [cmd EXCEPT ![c] = skipped] /\ UNCHANGED <<child, faults>>
    <2>1. skipped \in ACommand /\ Fits(skipped) /\ skipped.children = cmd[c].children
      BY <1>1, <1>2, <1>4
    <2>2. cmd' \in [Slots -> ACommand] /\ \A d \in Slots : Scripted(d)'
      <3>1. \A i \in {1, 2} : i > skipped.children => child'[<<c, i>>] = Rf!Idle
        BY <1>1, <1>4, <2>1 DEF Shape, Scripted
      <3> QED
        BY <1>4, <2>1, <3>1, OneCommand DEF Shape
    <2>3. Shape'
      BY <1>3, <1>4, <2>2, SameOrder DEF Shape, RefTypes, Rf!Child, AnUpdater, Rf!Says
    <2> QED
      BY <1>1, <1>3, <1>4, <2>3 DEF Rf!Next1
  <1>5. CASE /\ ~cmd[c].spawned /\ Rf!Spawn(c, r) /\ UNCHANGED faults
             /\ cmd' = [cmd EXCEPT ![c] = started]
    <2>1. cmd[c].children \in {0, 1} /\ started \in ACommand /\ Fits(started)
          /\ started.children = cmd[c].children + 1
      BY <1>2, <1>5
    <2>2. k \in Rf!Child /\ child[k] = Rf!Idle
      <3>1. CASE cmd[c].children = 0
        <4>1. child[<<c, 1>>] = Rf!Idle
          BY <1>1, <3>1, 1 > 0, Zenon DEF Shape, Scripted
        <4> QED
          BY <3>1, <4>1 DEF Rf!Child
      <3>2. CASE cmd[c].children = 1
        <4>1. child[<<c, 2>>] = Rf!Idle
          BY <1>1, <3>2, 2 > 1, Zenon DEF Shape, Scripted
        <4> QED
          BY <3>2, <4>1 DEF Rf!Child
      <3> QED
        BY <2>1, <3>1, <3>2
    <2>3. /\ child' \in [Rf!Child -> AnUpdater] /\ InOrder' /\ UNCHANGED Rf!Listed
          /\ child'[k].at = "check" /\ child'[k].reason = r
          /\ \A j \in Rf!Child \ {k} : child'[j] = child[j]
      <3> HIDE DEF k
      <3>1. k = <<c, cmd[c].children + 1>>
        BY DEF k
      <3> QED
        BY <1>5, <2>2, <3>1, Spawns DEF Shape
    <2>4. \A i \in {1, 2} : i > started.children => child'[<<c, i>>] = Rf!Idle
      BY <1>1, <2>1, <2>3 DEF Shape, Scripted, Rf!Child
    <2>5. \A d \in Slots \ {c}, i \in {1, 2} : child'[<<d, i>>] = child[<<d, i>>]
      BY <2>3 DEF Rf!Child
    <2>6. cmd' \in [Slots -> ACommand] /\ \A d \in Slots : Scripted(d)'
      BY <1>5, <2>1, <2>4, <2>5, OneCommand DEF Shape
    <2>7. Shape'
      BY <1>3, <1>5, <2>3, <2>6 DEF Shape, RefTypes, Rf!Child, AnUpdater, Rf!Says
    <2> QED
      BY <1>1, <1>3, <1>5, <2>2, <2>3, <2>7 DEF Rf!Next1
  <1>6. CASE /\ ~cmd[c].spawned /\ Rf!Fault /\ UNCHANGED child
             /\ cmd' = [cmd EXCEPT ![c] = refused]
    <2>1. refused \in ACommand /\ Fits(refused) /\ refused.children = cmd[c].children
      BY <1>2, <1>6
    <2>2. cmd' \in [Slots -> ACommand] /\ \A d \in Slots : Scripted(d)'
      <3>1. \A i \in {1, 2} : i > refused.children => child'[<<c, i>>] = Rf!Idle
        BY <1>1, <1>6, <2>1 DEF Shape, Scripted
      <3> QED
        BY <1>6, <2>1, <3>1, OneCommand DEF Shape
    <2>3. faults' \in 0..MaxFaults /\ faults' # 0
      BY <1>6, AFault DEF Shape
    <2>4. Shape'
      BY <1>3, <1>6, <2>2, <2>3, SameOrder DEF Shape, RefTypes, Rf!Child, AnUpdater, Rf!Says
    <2> QED
      BY <1>1, <1>3, <2>3, <2>4 DEF Rf!Next1
  <1> QED
    BY <1>3, <1>4, <1>5, <1>6

LEMMA WipeShape ==
    ASSUME RefSupposed, Shape, NEW c \in Slots, Rf!Wipe(c)
    PROVE  /\ Shape' /\ UNCHANGED <<world, faults, late>> /\ json' = {} /\ bash' = {}
           /\ \A k \in Rf!Child : child'[k].at = child[k].at
           /\ \A k \in Rf!Listed : child'[k].overtaken = {"json", "bash"}
  <1> DEFINE v == [cmd[c] EXCEPT !.todo = Tail(@)]
             both == {"json", "bash"}
  <1>1. cmd[c] \in ACommand /\ Fits(cmd[c]) /\ cmd[c].todo # <<>> /\ Head(cmd[c].todo) = "wipe"
    BY DEF Shape, RefTypes, Scripted, Rf!Wipe, Rf!Next1
  <1>2. v \in ACommand /\ Fits(v) /\ v.children = cmd[c].children /\ v.todo = <<>>
    BY <1>1, WipeFits
  <1>3. /\ cmd' = [cmd EXCEPT ![c] = v] /\ child' = Rf!Overtake(Rf!Listed, both)
        /\ json' = {} /\ bash' = {} /\ age' = TTL /\ UNCHANGED <<world, runs, faults, late>>
    BY DEF Rf!Wipe, Rf!After
  <1> HIDE DEF v
  <1>4. ASSUME NEW u \in AnUpdater
        PROVE  LET w == [u EXCEPT !.overtaken = @ \cup both]
               IN  /\ w \in AnUpdater /\ w.at = u.at /\ w.earlier = u.earlier
                   /\ w.overtaken = both
    BY <1>4 DEF AnUpdater
  <1>5. child' = [j \in Rf!Child |-> IF j \in Rf!Listed
                                       THEN [child[j] EXCEPT !.overtaken = @ \cup both]
                                       ELSE child[j]]
    BY <1>3, Zenon DEF Rf!Overtake
  <1>6. ASSUME NEW j \in Rf!Child
        PROVE  /\ child'[j] \in AnUpdater /\ child'[j].at = child[j].at
               /\ child'[j].earlier = child[j].earlier
               /\ j \in Rf!Listed => child'[j].overtaken = both
               /\ j \notin Rf!Listed => child'[j] = child[j]
    <2>1. child[j] \in AnUpdater
      BY DEF Shape, RefTypes
    <2>2. CASE j \in Rf!Listed
      <3>1. child'[j] = [child[j] EXCEPT !.overtaken = @ \cup both]
        BY <1>5, <2>2, Zenon
      <3> QED
        BY <2>1, <2>2, <3>1, <1>4, Zenon
    <2>3. CASE j \notin Rf!Listed
      <3>1. child'[j] = child[j]
        BY <1>5, <2>3, Zenon
      <3> QED
        BY <2>1, <2>3, <3>1
    <2> QED
      BY <2>2, <2>3
  <1>7. child' \in [Rf!Child -> AnUpdater]
    BY <1>5, <1>6
  <1>8. UNCHANGED Rf!Listed
    BY <1>6 DEF Rf!Listed
  <1>9. \A j \in Rf!Child : Earlier'[j] = Earlier[j]
    BY <1>6 DEF Earlier
  <1>10. InOrder'
    <2>1. Ordered(Rf!Child, Rf!Listed, Earlier')
      BY <1>9, ListedAre, OrderStays DEF Shape, InOrder
    <2>2. \A j \in Rf!Child \ Rf!Listed : child'[j].overtaken = {}
      BY <1>6 DEF Shape, InOrder
    <2> QED
      BY <1>8, <2>1, <2>2 DEF InOrder, Rf!Child
  <1>11. \A j \in Rf!Child : child[j] = Rf!Idle => child'[j] = Rf!Idle
    BY <1>6, IdleIsUpdater DEF Rf!Listed
  <1>12. cmd' \in [Slots -> ACommand] /\ \A d \in Slots : Scripted(d)'
    BY <1>2, <1>3, <1>11, OneCommand DEF Shape, Rf!Child
  <1>13. age' \in 0..TTL
    BY <1>3 DEF RefSupposed, Rf!BoundsAssumption
  <1>14. json' \in Rf!Says /\ bash' \in Rf!Says /\ Rf!Says' = Rf!Says
    BY <1>3 DEF Rf!Says
  <1> QED
    BY <1>3, <1>6, <1>7, <1>10, <1>12, <1>13, <1>14, ListedAre
       DEF Shape, RefTypes, Rf!Child, AnUpdater, Rf!Says

LEMMA KillCommandShape ==
    ASSUME RefSupposed, Shape, NEW c \in Slots, Rf!KillCommand(c)
    PROVE  Shape' /\ faults' # 0
  <1>1. cmd' = [cmd EXCEPT ![c] = Rf!Over] /\ Rf!Fault
        /\ UNCHANGED <<world, child, json, bash, age, runs, late>>
    BY DEF Rf!KillCommand
  <1>2. faults' \in 0..MaxFaults /\ faults' # 0
    BY <1>1, AFault DEF Shape
  <1>3. cmd' \in [Slots -> ACommand] /\ \A d \in Slots : Scripted(d)'
    BY <1>1, OverFits, OneCommand DEF Shape
  <1> QED
    BY <1>1, <1>2, <1>3, SameOrder DEF Shape, RefTypes, Rf!Child, AnUpdater, Rf!Says

LEMMA TickShape ==
    ASSUME RefSupposed, Shape, Rf!Tick
    PROVE  Shape' /\ UNCHANGED <<world, cmd, child, json, bash, faults, late>>
  <1>1. UNCHANGED <<world, cmd, child, json, bash, runs, faults, late>>
    BY DEF Rf!Tick
  <1>2. age' \in 0..TTL
    BY DEF Rf!Tick, RefSupposed, Rf!BoundsAssumption, Shape, RefTypes
  <1>3. \A d \in Slots : Scripted(d)'
    BY <1>1, NoCommand DEF Shape
  <1> QED
    BY <1>1, <1>2, <1>3, SameOrder DEF Shape, RefTypes, Rf!Child, AnUpdater, Rf!Says

\* An updater's step leaves the commands alone, and starts nobody.
LEMMA UpdaterShape ==
    ASSUME RefSupposed, Shape, UNCHANGED <<world, cmd, runs>>,
           child' \in [Rf!Child -> AnUpdater], InOrder',
           \A j \in Rf!Child : child[j] = Rf!Idle => child'[j] = Rf!Idle,
           json' \in Rf!Says, bash' \in Rf!Says, age' \in 0..TTL,
           faults' \in 0..MaxFaults, late' \subseteq {"json", "bash"}
    PROVE  Shape'
  <1>1. \A d \in Slots : Scripted(d)'
    BY NoCommand DEF Shape, Rf!Child
  <1> QED
    BY <1>1 DEF Shape, RefTypes, Rf!Child, AnUpdater, Rf!Says

LEMMA EndsIdle ==
    ASSUME RefTypes, InOrder, NEW k \in Rf!Child, Rf!Done(k)
    PROVE  \A j \in Rf!Child : child[j] = Rf!Idle => child'[j] = Rf!Idle
  <1>1. child'[k] = Rf!Idle
    BY Ends
  <1>2. ASSUME NEW j \in Rf!Child \ {k}, child[j] = Rf!Idle PROVE child'[j] = Rf!Idle
    <2>1. child'[j] = [Rf!Idle EXCEPT !.earlier = @ \ {k}]
      BY <1>2, Ends
    <2> QED
      BY <2>1 DEF Rf!Idle
  <1> QED
    BY <1>1, <1>2

LEMMA DoneShape ==
    ASSUME RefSupposed, Shape, NEW k \in Rf!Child, Rf!Done(k),
           UNCHANGED <<world, cmd, json, bash, age, runs, late>>, faults' \in 0..MaxFaults
    PROVE  Shape'
  <1>1. /\ child' \in [Rf!Child -> AnUpdater] /\ InOrder'
        /\ \A j \in Rf!Child : child[j] = Rf!Idle => child'[j] = Rf!Idle
    BY Ends, EndsIdle DEF Shape
  <1> QED
    BY <1>1, UpdaterShape DEF Shape, RefTypes

LEMMA GoShape ==
    ASSUME RefSupposed, Shape, NEW k \in Rf!Child, NEW from, NEW to, Rf!Go(k, from, to),
           \/ from = "check" /\ to = "list"
           \/ from \in {"json", "bash"} /\ to \in {"json", "bash", "sweep"},
           UNCHANGED <<world, cmd, json, bash, age, runs, late>>, faults' \in 0..MaxFaults
    PROVE  Shape'
  <1>1. /\ child' \in [Rf!Child -> AnUpdater] /\ InOrder' /\ child[k].at = from
        /\ \A j \in Rf!Child \ {k} : child'[j] = child[j]
    BY GoesOn DEF Shape
  <1>2. \A j \in Rf!Child : child[j] = Rf!Idle => child'[j] = Rf!Idle
    BY <1>1, IdleIsUpdater
  <1> QED
    BY <1>1, <1>2, UpdaterShape DEF Shape, RefTypes

LEMMA ReadsShape ==
    ASSUME RefSupposed, Shape, NEW k \in Rf!Child, NEW what \in SUBSET Workspaces,
           child[k].at = "list", Rf!Reads(k, what),
           UNCHANGED <<world, cmd, json, bash, age, runs, late>>, faults' \in 0..MaxFaults
    PROVE  Shape'
  <1>1. /\ child' \in [Rf!Child -> AnUpdater] /\ InOrder'
        /\ \A j \in Rf!Child \ {k} : child'[j] = child[j]
    BY ReadsLast DEF Shape
  <1>2. \A j \in Rf!Child : child[j] = Rf!Idle => child'[j] = Rf!Idle
    BY <1>1, IdleIsUpdater
  <1> QED
    BY <1>1, <1>2, UpdaterShape DEF Shape, RefTypes

LEMMA WriteShape ==
    ASSUME RefSupposed, Shape, NEW k \in Rf!Child, Rf!WriteJson(k) \/ Rf!WriteBash(k)
    PROVE  Shape'
  <1>1. PICK file \in {"json", "bash"}, to \in {"bash", "sweep"} :
           /\ <<file, to>> \in {<<"json", "bash">>, <<"bash", "sweep">>}
           /\ Rf!Written(k, file, to) /\ UNCHANGED <<world, cmd, runs, faults>>
           /\ json' \in {json, {child[k].seen}} /\ bash' \in {bash, {child[k].seen}}
           /\ age' \in {age, 0}
    <2>1. CASE Rf!WriteJson(k)
      <3>1. /\ Rf!Written(k, "json", "bash") /\ UNCHANGED <<world, cmd, bash, runs, faults>>
            /\ json' = {child[k].seen} /\ age' = 0
        BY <2>1 DEF Rf!WriteJson
      <3> QED
        BY <3>1
    <2>2. CASE Rf!WriteBash(k)
      <3>1. /\ Rf!Written(k, "bash", "sweep")
            /\ UNCHANGED <<world, cmd, json, age, runs, faults>> /\ bash' = {child[k].seen}
        BY <2>2 DEF Rf!WriteBash
      <3> QED
        BY <3>1
    <2> QED
      BY <2>1, <2>2
  <1>2. /\ child' \in [Rf!Child -> AnUpdater] /\ InOrder' /\ child[k].at = file
        /\ \A j \in Rf!Child \ (child[k].earlier \cup {k}) : child'[j] = child[j]
    BY <1>1, Writes DEF Shape
  <1>3. \A j \in Rf!Child : child[j] = Rf!Idle => child'[j] = Rf!Idle
    <2>1. \A j \in child[k].earlier : j \in Rf!Listed
      BY DEF Shape, InOrder, Ordered, Earlier
    <2>2. \A j \in Rf!Child : child[j] = Rf!Idle => j \notin Rf!Listed
      BY IdleIsUpdater DEF Rf!Listed
    <2> QED
      BY <1>2, <2>1, <2>2, IdleIsUpdater
  <1>4. {child[k].seen} \in Rf!Says
    BY DEF Shape, RefTypes, AnUpdater, Rf!Says
  <1>5. json' \in Rf!Says /\ bash' \in Rf!Says /\ age' \in 0..TTL
    BY <1>1, <1>4 DEF Shape, RefTypes, RefSupposed, Rf!BoundsAssumption
  <1>6. late' \subseteq {"json", "bash"} /\ faults' \in 0..MaxFaults
    BY <1>1 DEF Rf!Written, Shape, RefTypes
  <1> QED
    BY <1>1, <1>2, <1>3, <1>5, <1>6, UpdaterShape

(***************************************************************************)
(* What every step does to the truth, as long as nothing fails.            *)
(***************************************************************************)
Owes(c) == Rf!Next1(c, "wipe") \/ (Rf!Next1(c, "forced") /\ ~cmd[c].spawned)

LEMMA OthersStillOwe ==
    ASSUME OwedByCommand, NEW c \in Slots, ~Owes(c),
           \A d \in Slots \ {c} : cmd'[d] = cmd[d]
    PROVE  OwedByCommand'
  BY DEF OwedByCommand, Owes, Rf!Next1

\* The updaters do not move, nor does what is told.
LEMMA SameTruth ==
    ASSUME NEW file, OwedByUpdater \/ OwedByReader(file) \/ Told(file),
           UNCHANGED <<world, child, json, bash, late>>
    PROVE  Truth(file)'
  BY DEF Truth, OwedByUpdater, OwedByReader, Told, Pending, Knows, Content, Rf!Right, Rf!Listed,
         Rf!Child

LEMMA StartedTruth ==
    ASSUME NEW file \in {"json", "bash"}, OwedByUpdater \/ OwedByReader(file) \/ Told(file),
           UNCHANGED <<world, json, bash, late, Rf!Listed>>, NEW k \in Rf!Child,
           child[k] = Rf!Idle, child'[k].at = "check",
           \A j \in Rf!Child \ {k} : child'[j] = child[j]
    PROVE  Truth(file)'
  <1>1. CASE OwedByUpdater
    BY <1>1, IdleIsUpdater DEF Truth, OwedByUpdater, Rf!Child
  <1>2. Pending(file)' = Pending(file) /\ k \notin Pending(file) /\ k \notin Rf!Listed
    BY IdleIsUpdater DEF Pending, Rf!Child, Rf!Listed
  <1>3. CASE OwedByReader(file)
    <2>1. PICK r \in Pending(file) :
             /\ Knows(r) /\ file \notin child[r].overtaken
             /\ \A j \in Rf!Listed : r \in child[j].earlier => Knows(j)
      BY <1>3 DEF OwedByReader
    <2>2. r \in Rf!Child /\ r # k
      BY <1>2 DEF Pending
    <2>3. Knows(r)' /\ file \notin child'[r].overtaken
      BY <2>1, <2>2 DEF Knows
    <2>4. \A j \in Rf!Listed : r \in child'[j].earlier => Knows(j)'
      BY <1>2, <2>1, ListedAre DEF Knows
    <2> QED
      BY <1>2, <2>1, <2>3, <2>4 DEF Truth, OwedByReader
  <1>4. CASE Told(file)
    <2>1. \A j \in Pending(file) : child'[j] = child[j]
      BY <1>2 DEF Pending
    <2> QED
      BY <1>2, <1>4, <2>1 DEF Truth, Told, Knows, Content, Rf!Right
  <1> QED
    BY <1>1, <1>3, <1>4

\* One ends that owes nothing.
LEMMA EndedTruth ==
    ASSUME Shape, NEW file \in {"json", "bash"}, Truth(file), NEW k \in Rf!Child, Rf!Done(k),
           UNCHANGED <<world, cmd, json, bash, late>>,
           child[k].at = "sweep" \/ (child[k].at = "check" /\ child[k].reason = "ifStale")
    PROVE  Truth(file)'
  <1>1. /\ child'[k] = Rf!Idle /\ Rf!Listed' = Rf!Listed \ {k}
        /\ \A j \in Rf!Child \ {k} : child'[j] = [child[j] EXCEPT !.earlier = @ \ {k}]
    BY Ends DEF Shape
  <1>2. ASSUME NEW j \in Rf!Child \ {k}
        PROVE  /\ child'[j].at = child[j].at /\ child'[j].reason = child[j].reason
               /\ child'[j].seen = child[j].seen /\ child'[j].overtaken = child[j].overtaken
               /\ child'[j].earlier = child[j].earlier \ {k}
    <2>1. child[j] \in AnUpdater
      BY DEF Shape, RefTypes
    <2>2. child'[j] = [child[j] EXCEPT !.earlier = @ \ {k}]
      BY <1>1
    <2> QED
      BY <2>1, <2>2 DEF AnUpdater
  <1>3. CASE OwedByCommand
    BY <1>3 DEF Truth, OwedByCommand, Rf!Next1
  <1>4. CASE OwedByUpdater
    BY <1>2, <1>4 DEF Truth, OwedByUpdater, Rf!Child
  <1>5. Pending(file)' = Pending(file) /\ k \notin Pending(file)
    BY <1>1, <1>2, IdleIsUpdater DEF Pending, Rf!Child
  <1>6. CASE OwedByReader(file)
    <2>1. PICK r \in Pending(file) :
             /\ Knows(r) /\ file \notin child[r].overtaken
             /\ \A j \in Rf!Listed : r \in child[j].earlier => Knows(j)
      BY <1>6 DEF OwedByReader
    <2>2. r \in Rf!Child /\ r # k
      BY <1>5 DEF Pending
    <2>3. Knows(r)' /\ file \notin child'[r].overtaken
      BY <1>2, <2>1, <2>2 DEF Knows
    <2>4. \A j \in Rf!Listed \ {k} : r \in child'[j].earlier => Knows(j)'
      BY <1>2, <2>1, ListedAre DEF Knows
    <2> QED
      BY <1>1, <1>5, <2>1, <2>3, <2>4 DEF Truth, OwedByReader
  <1>7. CASE Told(file)
    <2>1. \A j \in Pending(file) : j \in Rf!Child \ {k}
      BY <1>5 DEF Pending
    <2>2. \A j \in Pending(file) : Knows(j)' \/ file \in child'[j].overtaken
      BY <1>2, <1>7, <2>1 DEF Told, Knows
    <2> QED
      BY <1>5, <1>7, <2>2 DEF Truth, Told, Content, Rf!Right
  <1> QED
    BY <1>3, <1>4, <1>6, <1>7 DEF Truth

\* One has read the list: it owes the truth from now on.
LEMMA ReadTruth ==
    ASSUME Shape, NEW file \in {"json", "bash"}, NEW k \in Rf!Child, Rf!List(k)
    PROVE  Truth(file)'
  <1>1. child[k].at = "list" /\ Rf!Reads(k, world) /\ UNCHANGED world
        /\ world \in SUBSET Workspaces
    BY DEF Rf!List, Shape, RefTypes
  <1>2. /\ Rf!Listed' = Rf!Listed \cup {k} /\ k \notin Rf!Listed
        /\ child'[k].at = "json" /\ child'[k].seen = world
        /\ child'[k].overtaken = {} /\ child'[k].earlier = Rf!Listed
        /\ \A j \in Rf!Child \ {k} : child'[j] = child[j]
    BY <1>1, ReadsLast DEF Shape
  <1>3. \A j \in Rf!Listed : k \notin child'[j].earlier
    <2>1. \A j \in Rf!Listed : child[j].earlier \subseteq Rf!Listed
      BY ListedAre DEF Shape, InOrder, Ordered, Earlier
    <2> QED
      BY <1>2, <2>1, ListedAre
  <1>4. k \in Pending(file)' /\ Knows(k)' /\ file \notin child'[k].overtaken
    BY <1>1, <1>2 DEF Pending, Knows, Rf!Child
  <1>5. \A j \in Rf!Listed' : k \notin child'[j].earlier
    BY <1>2, <1>3
  <1> QED
    BY <1>4, <1>5 DEF Truth, OwedByReader

\* One writes a file. Of the other file nothing changes.
LEMMA OtherTruth ==
    ASSUME Shape, NEW k \in Rf!Child, NEW file, NEW to, NEW other \in {"json", "bash"} \ {file},
           <<file, to>> \in {<<"json", "bash">>, <<"bash", "sweep">>},
           Rf!Written(k, file, to), UNCHANGED <<world, cmd, Content(other)>>, Truth(other)
    PROVE  Truth(other)'
  <1>1. /\ UNCHANGED Rf!Listed /\ child[k].at = file /\ child'[k].at = to
        /\ \A j \in Rf!Child : /\ child'[j].seen = child[j].seen
                               /\ child'[j].reason = child[j].reason
                               /\ child'[j].earlier = child[j].earlier
        /\ \A j \in Rf!Child \ {k} : child'[j].at = child[j].at
    BY Writes DEF Shape
  <1>2. \A j \in Rf!Child : other \in child'[j].overtaken <=> other \in child[j].overtaken
    <2>1. \A j \in Rf!Child : \/ child'[j].overtaken = child[j].overtaken \cup {file}
                              \/ child'[j].overtaken = child[j].overtaken
      BY Writes DEF Shape
    <2> QED
      BY <2>1
  <1>3. other \in late' <=> other \in late
    BY DEF Rf!Written
  <1>4. Pending(other)' = Pending(other)
    BY <1>1 DEF Pending, Rf!Child
  <1>5. CASE OwedByCommand
    BY <1>5 DEF Truth, OwedByCommand, Rf!Next1
  <1>6. CASE OwedByUpdater
    <2>1. file \in {"json", "bash"}
      OBVIOUS
    <2> QED
      BY <1>1, <1>6, <2>1 DEF Truth, OwedByUpdater, Rf!Child
  <1>7. CASE OwedByReader(other)
    <2>1. PICK r \in Pending(other) :
             /\ Knows(r) /\ other \notin child[r].overtaken
             /\ \A j \in Rf!Listed : r \in child[j].earlier => Knows(j)
      BY <1>7 DEF OwedByReader
    <2>2. r \in Rf!Child
      BY DEF Pending
    <2>3. Knows(r)' /\ other \notin child'[r].overtaken
      BY <1>1, <1>2, <2>1, <2>2 DEF Knows
    <2>4. \A j \in Rf!Listed : r \in child'[j].earlier => Knows(j)'
      BY <1>1, <2>1, ListedAre DEF Knows
    <2> QED
      BY <1>1, <1>4, <2>1, <2>3, <2>4 DEF Truth, OwedByReader
  <1>8. CASE Told(other)
    <2>1. \A j \in Pending(other) : Knows(j)' \/ other \in child'[j].overtaken
      BY <1>1, <1>2, <1>8 DEF Told, Knows, Pending
    <2>2. (Rf!Right(Content(other)) \/ other \in late)'
      BY <1>3, <1>8 DEF Told, Rf!Right
    <2> QED
      BY <1>4, <2>1, <2>2 DEF Truth, Told
  <1> QED
    BY <1>5, <1>6, <1>7, <1>8 DEF Truth

\* The file itself: those behind the writer are overtaken, those after it know; and if
\* it did not know the truth itself, it was overtaken and the file is late.
LEMMA WrittenTruth ==
    ASSUME Shape, NEW k \in Rf!Child, NEW file, NEW to,
           <<file, to>> \in {<<"json", "bash">>, <<"bash", "sweep">>},
           Rf!Written(k, file, to), UNCHANGED <<world, cmd>>,
           Content(file)' = {child[k].seen}, Truth(file)
    PROVE  Truth(file)'
  <1>1. /\ UNCHANGED Rf!Listed /\ child[k].at = file /\ child'[k].at = to
        /\ \A j \in Rf!Child : /\ child'[j].seen = child[j].seen
                               /\ child'[j].reason = child[j].reason
                               /\ child'[j].earlier = child[j].earlier
        /\ \A j \in Rf!Child \ {k} : child'[j].at = child[j].at
        /\ \A j \in child[k].earlier : child'[j].overtaken = child[j].overtaken \cup {file}
        /\ \A j \in Rf!Child \ child[k].earlier : child'[j].overtaken = child[j].overtaken
    BY Writes DEF Shape
  <1>2. file \in {"json", "bash"} /\ to \in {"bash", "sweep"} /\ file # to
    OBVIOUS
  <1>3. k \in Pending(file) /\ Pending(file)' = Pending(file) \ {k}
        /\ Pending(file) \subseteq Rf!Listed
    <2>1. k \in Pending(file) /\ Pending(file) \subseteq Rf!Listed
      BY <1>1, <1>2 DEF Pending, Rf!Listed
    <2>2. Pending(file)' = Pending(file) \ {k}
      BY <1>1, <1>2 DEF Pending, Rf!Child
    <2> QED
      BY <2>1, <2>2
  <1>4. /\ \A j, r \in Rf!Listed : j = r \/ j \in child[r].earlier \/ r \in child[j].earlier
        /\ \A j, r \in Rf!Listed : j \in child[r].earlier => r \notin child[j].earlier
        /\ \A i, j, r \in Rf!Listed :
              i \in child[j].earlier /\ j \in child[r].earlier => i \in child[r].earlier
        /\ \A j \in Rf!Child : child[j].earlier \subseteq Rf!Listed
    BY ListedAre DEF Shape, InOrder, Ordered, Earlier
  <1>5. \A j \in Rf!Child : Knows(j)' <=> Knows(j)
    BY <1>1 DEF Knows
  <1>6. ASSUME Knows(k),
               \A j \in Pending(file) \ {k} : Knows(j) \/ file \in child'[j].overtaken
        PROVE  Told(file)'
    <2>1. Rf!Right(Content(file))'
      BY <1>6 DEF Knows, Rf!Right
    <2>2. \A j \in Pending(file)' : Knows(j)' \/ file \in child'[j].overtaken
      BY <1>3, <1>5, <1>6, ListedAre
    <2> QED
      BY <2>1, <2>2 DEF Told
  <1>7. CASE OwedByCommand
    BY <1>7 DEF Truth, OwedByCommand, Rf!Next1
  <1>8. CASE OwedByUpdater
    BY <1>1, <1>2, <1>8 DEF Truth, OwedByUpdater, Rf!Child
  <1>9. CASE OwedByReader(file)
    <2>1. PICK r \in Pending(file) :
             /\ Knows(r) /\ file \notin child[r].overtaken
             /\ \A j \in Rf!Listed : r \in child[j].earlier => Knows(j)
      BY <1>9 DEF OwedByReader
    <2>2. r \in Rf!Listed /\ k \in Rf!Listed
      BY <1>3
    <2>3. CASE r = k \/ r \in child[k].earlier
      <3>1. Knows(k)
        BY <2>1, <2>2, <2>3
      <3>2. ASSUME NEW j \in Pending(file) \ {k}
            PROVE  Knows(j) \/ file \in child'[j].overtaken
        <4>1. j \in Rf!Listed
          BY <1>3
        <4>2. CASE j \in child[k].earlier
          BY <1>1, <4>2
        <4>3. CASE k \in child[j].earlier
          <5>1. r \in child[j].earlier
            BY <1>4, <2>2, <2>3, <4>1, <4>3
          <5> QED
            BY <2>1, <4>1, <5>1
        <4> QED
          BY <1>4, <2>2, <4>1, <4>2, <4>3
      <3> QED
        BY <1>6, <3>1, <3>2 DEF Truth
    <2>4. CASE r # k /\ r \notin child[k].earlier
      <3>1. r \in Pending(file)' /\ Knows(r)' /\ file \notin child'[r].overtaken
        BY <1>1, <1>3, <1>5, <2>1, <2>2, <2>4, ListedAre
      <3>2. \A j \in Rf!Listed' : r \in child'[j].earlier => Knows(j)'
        BY <1>1, <1>5, <2>1, ListedAre
      <3> QED
        BY <3>1, <3>2 DEF Truth, OwedByReader
    <2> QED
      BY <2>3, <2>4
  <1>10. CASE Told(file)
    <2>1. \A j \in Pending(file) : Knows(j) \/ file \in child'[j].overtaken
      BY <1>1, <1>3, <1>10, ListedAre DEF Told
    <2>2. CASE Knows(k)
      BY <1>6, <2>1, <2>2 DEF Truth
    <2>3. CASE ~Knows(k)
      <3>1. file \in child[k].overtaken
        BY <1>3, <1>10, <2>3 DEF Told
      <3>2. file \in late'
        BY <3>1 DEF Rf!Written
      <3>3. \A j \in Pending(file)' : Knows(j)' \/ file \in child'[j].overtaken
        BY <1>3, <1>5, <2>1, ListedAre
      <3> QED
        BY <3>2, <3>3 DEF Truth, Told
    <2> QED
      BY <2>2, <2>3
  <1> QED
    BY <1>7, <1>8, <1>9, <1>10 DEF Truth

(***************************************************************************)
(* The commands' steps.                                                    *)
(***************************************************************************)
AllTrue == \A file \in {"json", "bash"} : Truth(file)

LEMMA BeginTruth ==
    ASSUME Shape, AllTrue, NEW c \in Slots, NEW s \in Scripts, Rf!Begin(c, s)
    PROVE  AllTrue'
  <1>1. /\ cmd[c].todo = <<>> /\ UNCHANGED <<world, child, json, bash, late>>
        /\ cmd' = [cmd EXCEPT ![c] = [Rf!Over EXCEPT !.todo = Rf!Steps[s]]]
    BY DEF Rf!Begin
  <1>2. ~Owes(c) /\ \A d \in Slots \ {c} : cmd'[d] = cmd[d]
    BY <1>1 DEF Owes, Rf!Next1, Shape, RefTypes
  <1>3. OwedByCommand => OwedByCommand'
    BY <1>2, OthersStillOwe
  <1> QED
    BY <1>1, <1>3, SameTruth DEF AllTrue, Truth

LEMMA RunDevpodTruth ==
    ASSUME RefSupposed, Shape, NEW c \in Slots, Rf!RunDevpod(c)
    PROVE  AllTrue'
  <1>1. \/ cmd'[c].todo \in {Asking, Once} /\ ~cmd'[c].spawned
        \/ cmd'[c].todo = Wiping
    BY RunDevpodShape
  <1>2. CASE cmd'[c].todo \in {Asking, Once} /\ ~cmd'[c].spawned
    <2>1. Rf!Next1(c, "forced")'
      BY <1>2, AfterSteps, TodosDiffer DEF Rf!Next1
    <2> QED
      BY <1>2, <2>1 DEF AllTrue, Truth, OwedByCommand
  <1>3. CASE cmd'[c].todo = Wiping
    <2>1. Rf!Next1(c, "wipe")'
      BY <1>3, AfterSteps, TodosDiffer DEF Rf!Next1
    <2> QED
      BY <2>1 DEF AllTrue, Truth, OwedByCommand
  <1> QED
    BY <1>1, <1>2, <1>3

LEMMA RearmTruth ==
    ASSUME Shape, AllTrue, NEW c \in Slots, Rf!Rearm(c)
    PROVE  AllTrue'
  <1>1. /\ UNCHANGED <<world, child, json, bash, late>> /\ Head(cmd[c].todo) = "rearm"
        /\ cmd' = [cmd EXCEPT ![c] = [Rf!After(c) EXCEPT !.spawned = FALSE]]
    BY DEF Rf!Rearm, Rf!Next1
  <1>2. ~Owes(c) /\ \A d \in Slots \ {c} : cmd'[d] = cmd[d]
    BY <1>1 DEF Owes, Rf!Next1, Shape, RefTypes
  <1>3. OwedByCommand => OwedByCommand'
    BY <1>2, OthersStillOwe
  <1> QED
    BY <1>1, <1>3, SameTruth DEF AllTrue, Truth

LEMMA AskTruth ==
    ASSUME RefSupposed, Shape, AllTrue, NEW c \in Slots, NEW r \in {"ifStale", "forced"},
           Rf!Ask(c, r), faults' = 0
    PROVE  AllTrue'
  <1>1. /\ UNCHANGED <<world, json, bash, late>> /\ Head(cmd[c].todo) = r
        /\ \A d \in Slots \ {c} : cmd'[d] = cmd[d]
    BY DEF Rf!Ask, Rf!Next1, Shape, RefTypes
  <1>2. \/ UNCHANGED child /\ (r = "forced" => cmd[c].spawned)
        \/ /\ UNCHANGED Rf!Listed
           /\ \E k \in Rf!Child :
                 /\ child[k] = Rf!Idle /\ child'[k].at = "check" /\ child'[k].reason = r
                 /\ \A j \in Rf!Child \ {k} : child'[j] = child[j]
    BY AskShape
  <1>3. CASE UNCHANGED child /\ (r = "forced" => cmd[c].spawned)
    <2>1. ~Owes(c)
      BY <1>1, <1>3 DEF Owes, Rf!Next1
    <2>2. OwedByCommand => OwedByCommand'
      BY <1>1, <2>1, OthersStillOwe
    <2> QED
      BY <1>1, <1>3, <2>2, SameTruth DEF AllTrue, Truth
  <1>4. ASSUME NEW k \in Rf!Child, UNCHANGED Rf!Listed, child[k] = Rf!Idle,
               child'[k].at = "check", child'[k].reason = r,
               \A j \in Rf!Child \ {k} : child'[j] = child[j]
        PROVE  AllTrue'
    <2>1. CASE r = "forced"
      BY <1>4, <2>1 DEF AllTrue, Truth, OwedByUpdater, Rf!Child
    <2>2. CASE r = "ifStale"
      <3>1. ~Owes(c)
        BY <1>1, <2>2 DEF Owes, Rf!Next1
      <3>2. OwedByCommand => OwedByCommand'
        BY <1>1, <3>1, OthersStillOwe
      <3>3. ASSUME NEW file \in {"json", "bash"} PROVE Truth(file)'
        BY <1>1, <1>4, <3>2, StartedTruth DEF AllTrue, Truth
      <3> QED
        BY <3>3 DEF AllTrue
    <2> QED
      BY <2>1, <2>2
  <1> QED
    BY <1>2, <1>3, <1>4

LEMMA WipeTruth ==
    ASSUME RefSupposed, Shape, NEW c \in Slots, Rf!Wipe(c)
    PROVE  AllTrue'
  <1>1. /\ json' = {} /\ bash' = {}
        /\ \A k \in Rf!Child : child'[k].at = child[k].at
        /\ \A k \in Rf!Listed : child'[k].overtaken = {"json", "bash"}
    BY WipeShape
  <1>2. ASSUME NEW file \in {"json", "bash"} PROVE Told(file)'
    <2>1. \A k \in Pending(file)' : k \in Rf!Listed
      BY <1>1 DEF Pending, Rf!Listed, Rf!Child
    <2>2. Rf!Right(Content(file))'
      BY <1>1 DEF Content, Rf!Right
    <2> QED
      BY <1>1, <2>1, <2>2 DEF Told
  <1> QED
    BY <1>2 DEF AllTrue, Truth

LEMMA CommandTruth ==
    ASSUME RefSupposed, Shape, AllTrue, NEW c \in Slots, Rf!Command(c), faults' = 0
    PROVE  AllTrue'
  <1>1. CASE Rf!RunDevpod(c)
    BY <1>1, RunDevpodTruth
  <1>2. CASE Rf!Rearm(c)
    BY <1>2, RearmTruth
  <1>3. CASE Rf!RefreshHere(c)
    <2>1. \E k \in Rf!Child : child'[k].at = "check" /\ child'[k].reason = "forced"
      BY <1>3, RefreshHereShape
    <2> QED
      BY <2>1 DEF AllTrue, Truth, OwedByUpdater, Rf!Child
  <1>4. CASE Rf!Wipe(c)
    BY <1>4, WipeTruth
  <1>5. ASSUME NEW r \in {"ifStale", "forced"}, Rf!Ask(c, r) PROVE AllTrue'
    BY <1>5, AskTruth
  <1> QED
    BY <1>1, <1>2, <1>3, <1>4, <1>5 DEF Rf!Command

LEMMA CommandShape ==
    ASSUME RefSupposed, Shape, NEW c \in Slots, Rf!Command(c)
    PROVE  Shape'
  <1>1. CASE Rf!RunDevpod(c)
    BY <1>1, RunDevpodShape
  <1>2. CASE Rf!Rearm(c)
    BY <1>2, RearmShape
  <1>3. CASE Rf!RefreshHere(c)
    BY <1>3, RefreshHereShape
  <1>4. CASE Rf!Wipe(c)
    BY <1>4, WipeShape
  <1>5. ASSUME NEW r \in {"ifStale", "forced"}, Rf!Ask(c, r) PROVE Shape'
    BY <1>5, AskShape
  <1> QED
    BY <1>1, <1>2, <1>3, <1>4, <1>5 DEF Rf!Command

(***************************************************************************)
(* The updaters' steps.                                                    *)
(***************************************************************************)
LEMMA UpdaterSteps ==
    ASSUME RefSupposed, Shape, NEW k \in Rf!Child, Rf!Updater(k)
    PROVE  Shape' /\ UNCHANGED faults /\ (AllTrue => AllTrue')
  <1>1. CASE Rf!Check(k)
    <2>1. UNCHANGED <<world, cmd, json, bash, age, runs, faults, late>> /\ child[k].at = "check"
      BY <1>1 DEF Rf!Check
    <2>2. faults' \in 0..MaxFaults
      BY <2>1 DEF Shape, RefTypes
    <2>3. CASE child[k].reason = "ifStale" /\ Rf!Done(k)
      <3>1. Shape'
        BY <2>1, <2>2, <2>3, DoneShape
      <3>2. AllTrue => AllTrue'
        BY <2>1, <2>3, EndedTruth DEF AllTrue
      <3> QED
        BY <2>1, <3>1, <3>2
    <2>4. CASE Rf!Go(k, "check", "list")
      <3>1. Shape'
        BY <2>1, <2>2, <2>4, GoShape
      <3>2. child'[k] = [child[k] EXCEPT !.at = "list"] /\ child[k] \in AnUpdater
        BY <2>4, GoesOn DEF Shape, RefTypes
      <3>3. child'[k].at = "list"
        BY <3>2 DEF AnUpdater
      <3>4. AllTrue'
        BY <3>3 DEF AllTrue, Truth, OwedByUpdater, Rf!Child
      <3> QED
        BY <2>1, <3>1, <3>4
    <2> QED
      BY <1>1, <2>3, <2>4 DEF Rf!Check
  <1>2. CASE Rf!List(k)
    <2>1. /\ UNCHANGED <<world, cmd, json, bash, age, runs, faults, late>>
          /\ child[k].at = "list" /\ Rf!Reads(k, world)
      BY <1>2 DEF Rf!List
    <2>2. faults' \in 0..MaxFaults /\ world \in SUBSET Workspaces
      BY <2>1 DEF Shape, RefTypes
    <2>3. Shape'
      BY <2>1, <2>2, ReadsShape
    <2>4. AllTrue'
      BY <1>2, ReadTruth DEF AllTrue
    <2> QED
      BY <2>1, <2>3, <2>4
  <1>3. CASE Rf!WriteJson(k)
    <2>1. /\ Rf!Written(k, "json", "bash") /\ json' = {child[k].seen}
          /\ UNCHANGED <<world, cmd, bash, runs, faults>>
      BY <1>3 DEF Rf!WriteJson
    <2>2. Content("json")' = {child[k].seen} /\ UNCHANGED Content("bash")
      BY <2>1 DEF Content
    <2>3. AllTrue => Truth("json")'
      BY <2>1, <2>2, WrittenTruth DEF AllTrue
    <2>4. AllTrue => Truth("bash")'
      BY <2>1, <2>2, OtherTruth DEF AllTrue
    <2> QED
      BY <1>3, <2>1, <2>3, <2>4, WriteShape DEF AllTrue
  <1>4. CASE Rf!WriteBash(k)
    <2>1. /\ Rf!Written(k, "bash", "sweep") /\ bash' = {child[k].seen}
          /\ UNCHANGED <<world, cmd, json, runs, faults>>
      BY <1>4 DEF Rf!WriteBash
    <2>2. Content("bash")' = {child[k].seen} /\ UNCHANGED Content("json")
      BY <2>1 DEF Content
    <2>3. AllTrue => Truth("bash")'
      BY <2>1, <2>2, WrittenTruth DEF AllTrue
    <2>4. AllTrue => Truth("json")'
      BY <2>1, <2>2, OtherTruth DEF AllTrue
    <2> QED
      BY <1>4, <2>1, <2>3, <2>4, WriteShape DEF AllTrue
  <1>5. CASE Rf!Sweep(k)
    <2>1. /\ UNCHANGED <<world, cmd, json, bash, age, runs, faults, late>>
          /\ child[k].at = "sweep" /\ Rf!Done(k)
      BY <1>5 DEF Rf!Sweep
    <2>2. faults' \in 0..MaxFaults
      BY <2>1 DEF Shape, RefTypes
    <2>3. Shape'
      BY <2>1, <2>2, DoneShape
    <2>4. AllTrue => AllTrue'
      BY <2>1, EndedTruth DEF AllTrue
    <2> QED
      BY <2>1, <2>3, <2>4
  <1> QED
    BY <1>1, <1>2, <1>3, <1>4, <1>5 DEF Rf!Updater

LEMMA FailureShape ==
    ASSUME RefSupposed, Shape, NEW k \in Rf!Child,
           Rf!ListRefused(k) \/ Rf!WriteRefused(k) \/ Rf!KillChild(k)
    PROVE  Shape' /\ faults' # 0
  <1>1. UNCHANGED <<world, cmd, json, bash, age, runs, late>> /\ Rf!Fault
    BY DEF Rf!ListRefused, Rf!WriteRefused, Rf!KillChild
  <1>2. faults' \in 0..MaxFaults /\ faults' # 0
    BY <1>1, AFault DEF Shape
  <1>3. CASE Rf!ListRefused(k)
    <2>1. child[k].at = "list" /\ (Rf!Reads(k, {}) \/ Rf!Done(k))
      BY <1>3 DEF Rf!ListRefused
    <2> QED
      BY <1>1, <1>2, <2>1, ReadsShape, DoneShape
  <1>4. CASE Rf!WriteRefused(k)
    <2>1. Rf!Go(k, "json", "bash") \/ Rf!Go(k, "bash", "sweep")
      BY <1>4 DEF Rf!WriteRefused
    <2> QED
      BY <1>1, <1>2, <2>1, GoShape
  <1>5. CASE Rf!KillChild(k)
    <2>1. Rf!Done(k)
      BY <1>5 DEF Rf!KillChild
    <2> QED
      BY <1>1, <1>2, <2>1, DoneShape
  <1> QED
    BY <1>3, <1>4, <1>5

(***************************************************************************)
(* The invariant, and what it is for.                                      *)
(***************************************************************************)
LEMMA RefInit == ASSUME RefSupposed, Rf!Init PROVE RefInv
  <1>1. /\ world \in SUBSET Workspaces /\ cmd = [c \in Slots |-> Rf!Over]
        /\ child = [k \in Rf!Child |-> Rf!Idle] /\ json \in {{}, {world}} /\ bash = json
        /\ age \in {0, TTL} /\ runs = 0 /\ faults = 0 /\ late = {}
    BY DEF Rf!Init
  <1>2. RefTypes
    <2>1. cmd \in [Slots -> ACommand] /\ child \in [Rf!Child -> AnUpdater]
      BY <1>1, OverFits, IdleIsUpdater
    <2>2. json \in Rf!Says /\ bash \in Rf!Says
      BY <1>1 DEF Rf!Says
    <2>3. age \in 0..TTL /\ runs \in 0..MaxRuns /\ faults \in 0..MaxFaults
      BY <1>1 DEF RefSupposed, Rf!BoundsAssumption
    <2> QED
      BY <1>1, <2>1, <2>2, <2>3 DEF RefTypes
  <1>3. Rf!Listed = {}
    BY <1>1, IdleIsUpdater DEF Rf!Listed
  <1>4. InOrder
    <2>1. \A k \in Rf!Child : Earlier[k] = {}
      BY <1>1, IdleIsUpdater DEF Earlier
    <2>2. Ordered(Rf!Child, {}, Earlier)
      BY <2>1 DEF Ordered
    <2>3. \A k \in Rf!Child : child[k].overtaken = {}
      BY <1>1, IdleIsUpdater
    <2> QED
      BY <1>3, <2>2, <2>3 DEF InOrder
  <1>5. \A c \in Slots : Scripted(c)
    BY <1>1, OverFits DEF Scripted
  <1>6. \A file \in {"json", "bash"} : Told(file)
    <2>1. \A file \in {"json", "bash"} : Pending(file) = {}
      BY <1>1, IdleIsUpdater DEF Pending
    <2>2. \A file \in {"json", "bash"} : Rf!Right(Content(file))
      BY <1>1 DEF Rf!Right, Content
    <2> QED
      BY <2>1, <2>2 DEF Told
  <1> QED
    BY <1>2, <1>4, <1>5, <1>6 DEF RefInv, Truth

LEMMA RefSteps ==
    ASSUME RefSupposed, RefInv, [Rf!Next]_Rf!vars PROVE RefInv'
  <1>1. Shape /\ (faults = 0 => AllTrue) /\ faults \in 0..MaxFaults
    BY DEF RefInv, Shape, AllTrue, RefTypes
  <1>2. SUFFICES Shape' /\ (faults' = 0 => AllTrue')
    BY DEF RefInv, Shape, AllTrue
  <1>4. ASSUME NEW c \in Slots, Rf!Command(c) PROVE Shape' /\ (faults' = 0 => AllTrue')
    <2>1. faults' = 0 => faults = 0
      <3>1. UNCHANGED faults \/ Rf!Fault
        BY <1>4 DEF Rf!Command, Rf!RunDevpod, Rf!Rearm, Rf!RefreshHere, Rf!Wipe, Rf!Ask
      <3>2. Rf!Fault => faults' # 0
        BY AFault, <1>1 DEF Shape
      <3> QED
        BY <3>1, <3>2
    <2> QED
      BY <1>1, <1>4, <2>1, CommandShape, CommandTruth
  <1>5. ASSUME NEW c \in Slots, Rf!KillCommand(c) PROVE Shape' /\ (faults' = 0 => AllTrue')
    BY <1>1, <1>5, KillCommandShape
  <1>6. ASSUME NEW c \in Slots, NEW s \in Scripts, Rf!Begin(c, s)
        PROVE  Shape' /\ (faults' = 0 => AllTrue')
    <2>1. UNCHANGED faults
      BY <1>6 DEF Rf!Begin
    <2> QED
      BY <1>1, <1>6, <2>1, BeginShape, BeginTruth
  <1>7. ASSUME NEW k \in Rf!Child, Rf!Updater(k) PROVE Shape' /\ (faults' = 0 => AllTrue')
    BY <1>1, <1>7, UpdaterSteps
  <1>8. ASSUME NEW k \in Rf!Child, Rf!ListRefused(k) \/ Rf!WriteRefused(k) \/ Rf!KillChild(k)
        PROVE  Shape' /\ (faults' = 0 => AllTrue')
    BY <1>1, <1>8, FailureShape
  <1>9. CASE Rf!Tick
    <2>1. Shape' /\ UNCHANGED <<world, cmd, child, json, bash, faults, late>>
      BY <1>1, <1>9, TickShape
    <2>2. OwedByCommand => OwedByCommand'
      BY <2>1 DEF OwedByCommand, Rf!Next1
    <2>3. AllTrue => AllTrue'
      BY <2>1, <2>2, SameTruth DEF AllTrue, Truth
    <2> QED
      BY <1>1, <2>1, <2>3
  <1>10. CASE UNCHANGED Rf!vars
    <2>1. UNCHANGED <<world, cmd, child, json, bash, age, runs, faults, late>>
      BY <1>10 DEF Rf!vars
    <2>2. OwedByCommand => OwedByCommand'
      BY <2>1 DEF OwedByCommand, Rf!Next1
    <2>3. AllTrue => AllTrue'
      BY <2>1, <2>2, SameTruth DEF AllTrue, Truth
    <2>4. \A d \in Slots : Scripted(d)'
      BY <1>1, <2>1, NoCommand DEF Shape
    <2>5. Shape'
      BY <1>1, <2>1, <2>4, SameOrder DEF Shape, RefTypes, Rf!Child, AnUpdater, Rf!Says
    <2> QED
      BY <1>1, <2>1, <2>3, <2>5
  <1> QED
    BY <1>4, <1>5, <1>6, <1>7, <1>8, <1>9, <1>10 DEF Rf!Next

LEMMA RefMeans == ASSUME RefSupposed, RefInv PROVE Rf!RefreshSafe
  <1>1. RefTypes /\ InOrder /\ \A c \in Slots : Scripted(c)
    BY DEF RefInv
  <1>2. Rf!TypeOK
    <2>1. \A c \in Slots : /\ cmd[c].spawned \in BOOLEAN /\ cmd[c].runs \in 0..2
                           /\ cmd[c].children \in 0..2
      BY <1>1 DEF RefTypes, ACommand
    <2>2. \A k \in Rf!Child :
             /\ child[k].at \in {"idle", "check", "list", "json", "bash", "sweep"}
             /\ child[k].reason \in {Rf!None, "ifStale", "forced"}
             /\ child[k].seen \subseteq Workspaces
      BY <1>1 DEF RefTypes, AnUpdater
    <2>3. \A k \in Rf!Child : child[k].earlier \subseteq Rf!Listed \ {k}
      BY <1>1 DEF InOrder, Ordered, Earlier
    <2> QED
      BY <1>1, <2>1, <2>2, <2>3 DEF Rf!TypeOK, RefTypes
  <1>3. Rf!WrongForAReason
    <2>1. SUFFICES ASSUME Rf!Quiet, faults = 0
                   PROVE  \A file \in {"json", "bash"} : Rf!Right(Content(file)) \/ file \in late
      BY DEF Rf!WrongForAReason, Content
    <2>2. ASSUME NEW k \in Rf!Child PROVE child[k] = Rf!Idle
      <3>1. PICK c \in Slots, i \in {1, 2} : k = <<c, i>>
        BY DEF Rf!Child
      <3>2. child[<<c, 1>>] = Rf!Idle /\ child[<<c, 2>>] = Rf!Idle
        BY <2>1, Zenon DEF Rf!Quiet
      <3> QED
        BY <3>1, <3>2
    <2>3. ~OwedByCommand
      BY <2>1 DEF OwedByCommand, Rf!Quiet, Rf!Next1
    <2>4. ~OwedByUpdater /\ \A file \in {"json", "bash"} : ~OwedByReader(file)
      BY <2>2, IdleIsUpdater DEF OwedByUpdater, OwedByReader, Pending
    <2> QED
      BY <2>1, <2>3, <2>4 DEF RefInv, Truth, Told
  <1>4. Rf!OneUpdaterPerChange
    <2>1. \A c \in Slots : /\ cmd[c].children \in 0..2 /\ cmd[c].runs \in 0..2
                           /\ cmd[c].children <= 1 \/ cmd[c].children <= cmd[c].runs
      BY <1>1 DEF RefTypes, ACommand, Scripted, Fits
    <2> QED
      BY <2>1 DEF Rf!OneUpdaterPerChange
  <1> QED
    BY <1>2, <1>3, <1>4 DEF Rf!RefreshSafe

\* Whatever commands run side by side and in whatever order their updaters write, no
\* change of devpod's list is lost while nothing fails: once all is quiet each file says
\* what devpod lists, or an updater wrote it after one that knew better; and a command
\* starts at most one updater for each change it makes (Refresh::ask, rearm,
\* refresh_child, child_work, write_completion_cache, write_bash_completion_cache).
THEOREM NoChangeIsLost == Spec => []RefreshSafe
  <1> DEFINE OwnInv == part = "refresh" => RefInv
  <1>1. Init => OwnInv
    BY StartsAsOne, RefInit, RefGiven
  <1>2. OwnInv /\ [Next]_vars => OwnInv'
    BY StepsAsOne, RefSteps, RefGiven
  <1>3. OwnInv => RefreshSafe
    BY RefMeans, RefGiven DEF RefreshSafe
  <1> QED
    BY <1>1, <1>2, <1>3, PTL DEF Spec

(***************************************************************************)
(* Reporting a session. Of one pane: the staging file has what a lend has  *)
(* written, the binary is the beginning of a version this host has had and *)
(* a probe looks for no shorter one, and the hook is empty only while an   *)
(* install is about to fill it, unless the container was stopped under a   *)
(* write. Of several: nobody installs over settings the image brought.     *)
(***************************************************************************)
RepSupposed == Ra!SizeAssumption /\ Ra!BoundsAssumption

LEMMA RepGiven == RepSupposed
  BY RaSizeAssumption, RaBoundsAssumption DEF RepSupposed

\* What the file holds is the first blocks of a version, in order.
Holds(file, v) == file[2] <= Size[v] /\ \A b \in 1..file[2] : file[1][b] = v

\* What a launch carries, as far as the invariant reads it.
Carried == [n : {0} \cup Ra!Launch, len : 0..Ra!Largest, ver : Ra!Version, pos : 0..Ra!Largest,
            at : {"stage", "final", "gone"}, profile : Logins \cup {Nameless},
            relay : BOOLEAN, registered : BOOLEAN, policy : BOOLEAN]

RepTypes ==
    /\ host \in Ra!Version /\ label \in [{Lone} -> Logins \cup {Nameless}]
    /\ final \in Ra!File \cup {Absent} /\ stage \in Ra!File \cup {Absent}
    /\ hook \in {"none", "bare", "emptied", "ready"}
    /\ pc \in [{Lone} -> Ra!Step]
    /\ my \in [{Lone} -> Carried]
    /\ marred \in BOOLEAN /\ calm \in [{Lone} -> BOOLEAN] /\ launches \in 0..MaxLaunches

\* A lend under way has put into the staging file what it has written.
InStage ==
    pc[Lone] \in {"write", "place"} =>
        /\ my[Lone].at = "stage" /\ stage \in Ra!File /\ my[Lone].ver <= host
        /\ stage[2] = my[Lone].pos /\ Holds(stage, my[Lone].ver)
        /\ pc[Lone] = "write" => my[Lone].pos < Size[my[Lone].ver]
        /\ pc[Lone] = "place" => my[Lone].pos = Size[my[Lone].ver]

\* What was lent is the beginning of a version this host has had, no longer than what
\* a probe looks for, and the whole of it once a lend has come to its end.
Lent ==
    /\ ~marred /\ final # Absent => \E v \in 1..host : Holds(final, v)
    /\ ~marred /\ final # Absent /\ pc[Lone] = "probe" =>
          \E v \in 1..host : Holds(final, v) /\ Size[v] <= my[Lone].len
    /\ pc[Lone] \in {"install", "hook", "fill", "settings"} /\ calm[Lone] =>
          final # Absent /\ Ra!IsWhole(final)

\* The hook is empty only while an install is about to fill it.
Hooked ==
    /\ ~marred /\ pc[Lone] # "hook" => hook # "emptied"
    /\ pc[Lone] \in {"fill", "settings"} => hook = "ready"

Labelled == pc[Lone] \notin {"idle", "label"} => label[Lone] = my[Lone].profile

RepInv == RepTypes /\ InStage /\ Lent /\ Hooked /\ Labelled

LEMMA SizesGrow ==
    ASSUME RepSupposed, NEW v \in Ra!Version, NEW w \in Ra!Version, v <= w
    PROVE  Size[v] \in Nat \ {0} /\ Size[w] \in Nat \ {0} /\ Size[v] <= Size[w]
  BY DEF RepSupposed, Ra!SizeAssumption, Ra!Version

LEMMA SizesFit ==
    ASSUME RepSupposed, NEW v \in Ra!Version
    PROVE  Size[v] \in 1..Ra!Largest /\ Ra!Largest \in Nat \ {0}
  <1>1. Versions \in Ra!Version /\ v <= Versions
    BY DEF RepSupposed, Ra!SizeAssumption, Ra!Version
  <1> QED
    BY <1>1, SizesGrow DEF Ra!Largest

LEMMA UntoldCarried ==
    ASSUME RepSupposed, NEW num \in {0} \cup Ra!Launch, NEW who \in Logins \cup {Nameless}
    PROVE  /\ [Ra!Untold EXCEPT !.n = num, !.profile = who] \in Carried
           /\ [Ra!Untold EXCEPT !.n = num, !.profile = who].profile = who
           /\ Ra!Untold \in Carried
  <1>1. 1 \in Ra!Version /\ 0 \in 0..Ra!Largest
    BY SizesFit DEF RepSupposed, Ra!SizeAssumption, Ra!Version
  <1> QED
    BY <1>1 DEF Ra!Untold, Carried

LEMMA RepInit == ASSUME RepSupposed PROVE Ra!Init => RepInv
  <1> SUFFICES ASSUME Ra!Init PROVE RepInv
    OBVIOUS
  <1>1. 1 \in Ra!Version /\ 0 \in 0..Ra!Largest
    BY SizesFit DEF RepSupposed, Ra!SizeAssumption, Ra!Version
  <1>3. Ra!Untold \in Carried /\ 0 \in 0..MaxLaunches
    <2>1. MaxLaunches \in Nat
      BY DEF RepSupposed, Ra!BoundsAssumption
    <2> QED
      BY <1>1, <2>1 DEF Ra!Untold, Carried
  <1>2. RepTypes
    BY <1>1, <1>3 DEF Ra!Init, RepTypes, Ra!Step
  <1> QED
    BY <1>2 DEF Ra!Init, RepInv, InStage, Lent, Hooked, Labelled

\* A step that leaves the container, the host and what the invariant reads alone.
LEMMA RepStill ==
    ASSUME RepInv, UNCHANGED <<host, label, final, stage, hook, pc, my, marred, calm, launches>>
    PROVE  RepInv'
  BY DEF RepInv, RepTypes, InStage, Lent, Hooked, Labelled, Holds, Ra!IsWhole

LEMMA RepOpens ==
    ASSUME RepSupposed, RepInv,
           Ra!Begin(Lone) \/ Ra!Label(Lone) \/ Ra!Alias(Lone) \/ Ra!Detach(Lone) \/ Ra!Register(Lone)
    PROVE  RepInv'
  <1> USE DEF RepInv
  <1>0. 0 \in 0..Ra!Largest /\ 1 \in Ra!Version /\ Size[host] \in 0..Ra!Largest
    BY SizesFit DEF RepSupposed, Ra!SizeAssumption, Ra!Version, RepTypes
  <1>1. CASE Ra!Begin(Lone)
    <2>1. PICK who \in Logins \cup {Nameless} :
             my' = [my EXCEPT ![Lone] = [Ra!Untold EXCEPT !.n = launches + 1, !.profile = who]]
      BY <1>1 DEF Ra!Begin
    <2>3. launches + 1 \in 0..MaxLaunches /\ launches + 1 \in Ra!Launch
      <3>1. launches \in 0..MaxLaunches /\ launches < MaxLaunches
        BY <1>1 DEF Ra!Begin, RepTypes
      <3>2. MaxLaunches \in Nat
        BY DEF RepSupposed, Ra!BoundsAssumption
      <3> QED
        BY <3>1, <3>2 DEF Ra!Launch
    <2>4. [Ra!Untold EXCEPT !.n = launches + 1, !.profile = who] \in Carried
      BY <2>3, UntoldCarried
    <2>2. RepTypes'
      BY <1>0, <1>1, <2>1, <2>3, <2>4 DEF Ra!Begin, Ra!Goto, Ra!container, RepTypes, Ra!Step
    <2> QED
      BY <1>1, <2>2 DEF Ra!Begin, Ra!Goto, Ra!container, RepTypes, InStage, Lent, Hooked, Labelled
  <1>2. CASE Ra!Label(Lone)
    <2>3. my[Lone].profile \in Logins \cup {Nameless}
      BY DEF RepTypes, Carried
    <2>1. RepTypes'
      BY <1>2, <2>3 DEF Ra!Label, Ra!Goto, Ra!container, Ra!history, Ra!counts, RepTypes, Ra!Step
    <2> QED
      BY <1>2, <2>1 DEF Ra!Label, Ra!Goto, Ra!container, Ra!history, Ra!counts, RepTypes,
         InStage, Lent, Hooked, Labelled
  <1>3. CASE Ra!Alias(Lone) \/ Ra!Detach(Lone)
    <2>1. RepTypes'
      BY <1>3 DEF Ra!Alias, Ra!Detach, Ra!Goto, Ra!container, Ra!history, Ra!counts, RepTypes, Ra!Step
    <2> QED
      BY <1>3, <2>1 DEF Ra!Alias, Ra!Detach, Ra!Goto, Ra!container, Ra!history, Ra!counts, RepTypes,
         InStage, Lent, Hooked, Labelled
  <1>4. CASE Ra!Register(Lone)
    <2>1. my' = [my EXCEPT ![Lone] = [my[Lone] EXCEPT !.relay = TRUE, !.registered = TRUE, !.len = Size[host]]]
      BY <1>4 DEF Ra!Register, RepTypes
    <2>6. [my[Lone] EXCEPT !.relay = TRUE, !.registered = TRUE, !.len = Size[host]] \in Carried
      BY <1>0 DEF RepTypes, Carried
    <2>2. RepTypes'
      BY <1>0, <1>4, <2>1, <2>6 DEF Ra!Register, Ra!Goto, Ra!container, Ra!history, Ra!counts, RepTypes, Ra!Step
    <2>3. \A v \in 1..host : Size[v] <= Size[host]
      BY SizesGrow DEF RepTypes, Ra!Version, RepSupposed, Ra!SizeAssumption
    <2>4. my'[Lone].len = Size[host] /\ my'[Lone].profile = my[Lone].profile
      BY <2>1 DEF RepTypes, Carried
    <2>5. pc[Lone] = "register" /\ pc'[Lone] = "probe"
          /\ UNCHANGED <<host, label, final, stage, hook, marred, calm>>
      BY <1>4 DEF Ra!Register, Ra!Goto, Ra!container, Ra!history, Ra!counts, RepTypes
    <2>7. Lent'
      BY <2>3, <2>4, <2>5 DEF Lent, Holds
    <2> QED
      BY <2>2, <2>4, <2>5, <2>7 DEF InStage, Hooked, Labelled
  <1> QED
    BY <1>1, <1>2, <1>3, <1>4

\* What is left of a launch by its refusal.
LEMMA RepRefused ==
    ASSUME RepInv, NEW say \in BOOLEAN,
           my' = [my EXCEPT ![Lone] = [my[Lone] EXCEPT !.relay = FALSE, !.policy = say]]
                 \/ my' = [my EXCEPT ![Lone] = [my[Lone] EXCEPT !.relay = FALSE]],
           pc' = [pc EXCEPT ![Lone] = "session"], pc[Lone] \notin {"idle", "label", "hook"},
           UNCHANGED <<host, label, final, stage, hook, marred, calm, launches>>
    PROVE  RepInv'
  <1>1. /\ [my[Lone] EXCEPT !.relay = FALSE, !.policy = say] \in Carried
        /\ [my[Lone] EXCEPT !.relay = FALSE] \in Carried
    BY DEF RepInv, RepTypes, Carried
  <1>2. RepTypes'
    BY <1>1 DEF RepInv, RepTypes, Ra!Step
  <1>3. my'[Lone].profile = my[Lone].profile
    BY DEF RepInv, RepTypes, Carried
  <1>4. pc'[Lone] = "session"
    BY DEF RepInv, RepTypes
  <1> QED
    BY <1>2, <1>3, <1>4 DEF RepInv, InStage, Lent, Hooked, Labelled, Holds

LEMMA RepProbe == ASSUME RepSupposed, RepInv, Ra!Probe(Lone) PROVE RepInv'
  <1>0. pc[Lone] = "probe" /\ my[Lone] \in Carried
        /\ UNCHANGED <<host, label, final, stage, hook, marred, calm, launches>>
    BY DEF Ra!Probe, Ra!container, Ra!history, Ra!counts, RepInv, RepTypes
  <1>1. CASE Ra!Refuse(Lone)
    BY <1>0, <1>1, RepRefused DEF Ra!Refuse, Ra!Goto
  <1>2. CASE Ra!Ready(Lone) \/ (Ra!Goto(Lone, "lend") /\ UNCHANGED my)
    <2>1. RepTypes'
      BY <1>0, <1>2 DEF Ra!Ready, Ra!Goto, RepInv, RepTypes, Ra!Step
    <2> QED
      BY <1>0, <1>2, <2>1 DEF Ra!Ready, Ra!Goto, RepInv, RepTypes, InStage, Lent, Hooked, Labelled, Holds
  <1> QED
    BY <1>1, <1>2 DEF Ra!Probe

LEMMA RepLend == ASSUME RepSupposed, RepInv, Ra!Lend(Lone) PROVE RepInv'
  <1> USE DEF RepInv
  <1>0. /\ pc[Lone] = "lend" /\ my[Lone] \in Carried /\ host \in Ra!Version
        /\ UNCHANGED <<host, label, final, hook, calm, launches>>
    BY DEF Ra!Lend, Ra!container, Ra!counts, RepTypes
  <1>1. CASE Ra!Refuse(Lone) /\ UNCHANGED <<stage, marred>>
    BY <1>0, <1>1, RepRefused DEF Ra!Refuse, Ra!Goto
  <1>2. CASE /\ stage' = Ra!Empty
             /\ my' = [my EXCEPT ![Lone].ver = host, ![Lone].pos = 0, ![Lone].at = "stage"]
             /\ marred' = (marred \/ \E q \in {Lone} : pc[q] = "write" /\ my[q].at # "gone")
             /\ Ra!Goto(Lone, "write") /\ UNCHANGED forward
    <2>1. my' = [my EXCEPT ![Lone] = [my[Lone] EXCEPT !.ver = host, !.pos = 0, !.at = "stage"]]
      BY <1>0, <1>2 DEF RepTypes
    <2>2. 0 \in 0..Ra!Largest /\ Size[host] \in Nat \ {0} /\ Ra!Largest \in Nat
      BY <1>0, SizesFit
    <2>3. [my[Lone] EXCEPT !.ver = host, !.pos = 0, !.at = "stage"] \in Carried
      BY <1>0, <2>2 DEF Carried
    <2>4. /\ my'[Lone].ver = host /\ my'[Lone].pos = 0 /\ my'[Lone].at = "stage"
          /\ my'[Lone].profile = my[Lone].profile
      BY <1>0, <2>1 DEF RepTypes, Carried
    <2>5. stage' \in Ra!File /\ stage'[2] = 0
      BY <1>2, <2>2 DEF Ra!Empty, Ra!File
    <2>6. pc' = [pc EXCEPT ![Lone] = "write"] /\ marred' = marred /\ pc'[Lone] = "write"
      BY <1>0, <1>2 DEF Ra!Goto, RepTypes
    <2>7. RepTypes'
      BY <1>0, <2>1, <2>3, <2>5, <2>6 DEF RepTypes, Ra!Step
    <2>8. InStage'
      <3>2. host <= host /\ 0 <= Size[host] /\ 0 < Size[host] /\ \A b \in 1..0 : FALSE
        BY <1>0, <2>2 DEF Ra!Version, RepSupposed, Ra!SizeAssumption
      <3> QED
        BY <1>0, <2>2, <2>4, <2>5, <2>6, <3>2 DEF InStage, Holds
    <2> QED
      BY <1>0, <2>4, <2>6, <2>7, <2>8 DEF Lent, Hooked, Labelled, Holds
  <1> QED
    BY <1>1, <1>2 DEF Ra!Lend

\* A block put at the end of a file that has the ones before.
LEMMA PutHolds ==
    ASSUME RepSupposed, NEW v \in Ra!Version, NEW file \in Ra!File, file[2] < Size[v], Holds(file, v)
    PROVE  LET wider == Ra!Put(file, file[2] + 1, v) IN
           wider \in Ra!File /\ wider[2] = file[2] + 1 /\ Holds(wider, v)
  <1> DEFINE b == file[2] + 1
             wider == Ra!Put(file, b, v)
             blocks == [file[1] EXCEPT ![b] = v]
  <1>1. file[1] \in [1..Ra!Largest -> Ra!Version \cup {Hole}] /\ file[2] \in 0..Ra!Largest
    BY DEF Ra!File
  <1>2. Size[v] \in 1..Ra!Largest /\ Ra!Largest \in Nat
    BY SizesFit
  <1>3. b \in 1..Ra!Largest /\ b > file[2] /\ b <= Size[v]
    BY <1>1, <1>2
  <1>4. wider = <<blocks, b>>
    BY <1>3 DEF Ra!Put
  <1>5. blocks \in [1..Ra!Largest -> Ra!Version \cup {Hole}] /\ b \in 0..Ra!Largest
    BY <1>1, <1>2, <1>3
  <1>6. wider \in Ra!File
    <2> HIDE DEF b, wider, blocks
    <2> QED
      BY <1>4, <1>5 DEF Ra!File
  <1>7. wider[1] = blocks /\ wider[2] = b
    BY <1>4
  <1>8. \A x \in 1..b : blocks[x] = v
    BY <1>1, <1>2, <1>3 DEF Holds
  <1> QED
    BY <1>3, <1>6, <1>7, <1>8 DEF Holds

LEMMA RepWrite == ASSUME RepSupposed, RepInv, Ra!Write(Lone) PROVE RepInv'
  <1> USE DEF RepInv
  <1> DEFINE b == my[Lone].pos + 1
             v == my[Lone].ver
  <1>0. /\ pc[Lone] = "write" /\ my[Lone] \in Carried /\ host \in Ra!Version
        /\ my[Lone].at = "stage" /\ stage \in Ra!File /\ v \in Ra!Version /\ v <= host
        /\ stage[2] = my[Lone].pos /\ Holds(stage, v) /\ my[Lone].pos < Size[v]
        /\ my[Lone].pos \in Nat /\ Size[v] \in 1..Ra!Largest /\ Ra!Largest \in Nat
    <2>1. pc[Lone] = "write" /\ my[Lone] \in Carried
      BY DEF Ra!Write, RepTypes
    <2>2. v \in Ra!Version /\ my[Lone].pos \in 0..Ra!Largest
      BY <2>1 DEF Carried
    <2> QED
      BY <2>1, <2>2, SizesFit DEF RepTypes, InStage
  <1>1. /\ my' = [my EXCEPT ![Lone].pos = b]
        /\ stage' = Ra!Put(stage, b, v) /\ final' = final
        /\ Ra!Goto(Lone, IF b = Size[v] THEN "place" ELSE "write")
        /\ UNCHANGED <<host, label, hook, marred, calm, launches>>
    BY <1>0 DEF Ra!Write, Ra!history, Ra!counts
  <1>2. my' = [my EXCEPT ![Lone] = [my[Lone] EXCEPT !.pos = b]]
    BY <1>0, <1>1 DEF RepTypes
  <1>3. b \in 0..Ra!Largest /\ b <= Size[v]
    BY <1>0
  <1>4. [my[Lone] EXCEPT !.pos = b] \in Carried
    BY <1>0, <1>3 DEF Carried
  <1>5. /\ my'[Lone].pos = b /\ my'[Lone].ver = v /\ my'[Lone].at = "stage"
        /\ my'[Lone].profile = my[Lone].profile
    BY <1>0, <1>2 DEF RepTypes, Carried
  <1>6. stage' \in Ra!File /\ stage'[2] = b /\ Holds(stage, v)' /\ Holds(stage', v)
    BY <1>0, <1>1, PutHolds DEF Holds
  <1>7. pc' = [pc EXCEPT ![Lone] = IF b = Size[v] THEN "place" ELSE "write"]
        /\ pc'[Lone] = IF b = Size[v] THEN "place" ELSE "write"
    BY <1>1 DEF Ra!Goto, RepTypes
  <1>8. RepTypes'
    BY <1>1, <1>2, <1>4, <1>6, <1>7 DEF RepTypes, Ra!Step
  <1>9. InStage'
    BY <1>0, <1>1, <1>3, <1>5, <1>6, <1>7 DEF InStage, Holds
  <1> QED
    BY <1>0, <1>1, <1>5, <1>7, <1>8, <1>9 DEF Lent, Hooked, Labelled, Holds

\* The whole of a version is a file that holds as many blocks as the version has.
LEMMA HeldWhole ==
    ASSUME NEW v \in Ra!Version, NEW file, Holds(file, v), file[2] = Size[v]
    PROVE  Ra!IsWhole(file)
  BY DEF Holds, Ra!IsWhole

LEMMA RepPlace == ASSUME RepSupposed, RepInv, Ra!Place(Lone) PROVE RepInv'
  <1> USE DEF RepInv
  <1> DEFINE v == my[Lone].ver
  <1>0. /\ pc[Lone] = "place" /\ my[Lone] \in Carried /\ host \in Ra!Version
        /\ my[Lone].at = "stage" /\ stage \in Ra!File /\ v \in Ra!Version /\ v <= host
        /\ Holds(stage, v) /\ stage[2] = Size[v]
        /\ UNCHANGED <<host, label, hook, calm, launches>>
    <2>1. pc[Lone] = "place" /\ my[Lone] \in Carried /\ UNCHANGED <<host, label, hook, calm, launches>>
      BY DEF Ra!Place, RepTypes, Ra!counts
    <2>2. v \in Ra!Version
      BY <2>1 DEF Carried
    <2> QED
      BY <2>1, <2>2 DEF RepTypes, InStage
  <1>1. CASE Ra!Refuse(Lone) /\ UNCHANGED <<final, stage, marred>>
    BY <1>0, <1>1, RepRefused DEF Ra!Refuse, Ra!Goto
  <1>2. CASE /\ stage # Absent
             /\ final' = stage /\ stage' = Absent
             /\ my' = Ra!Renamed
             /\ marred' = (marred \/ \E q \in {Lone} \ {Lone} : pc[q] = "write" /\ my[q].at = "stage")
             /\ Ra!Goto(Lone, "install")
    <2>1. my' = [my EXCEPT ![Lone] = [my[Lone] EXCEPT !.at = "final"]]
      BY <1>0, <1>2 DEF Ra!Renamed, RepTypes
    <2>2. [my[Lone] EXCEPT !.at = "final"] \in Carried
      BY <1>0 DEF Carried
    <2>3. my'[Lone].profile = my[Lone].profile
      BY <1>0, <2>1 DEF RepTypes, Carried
    <2>4. marred' = marred /\ pc' = [pc EXCEPT ![Lone] = "install"] /\ pc'[Lone] = "install"
      BY <1>2 DEF Ra!Goto, RepTypes
    <2>5. RepTypes'
      BY <1>0, <1>2, <2>1, <2>2, <2>4 DEF RepTypes, Ra!Step
    <2>6. Ra!IsWhole(stage) /\ v \in 1..host
      BY <1>0, HeldWhole DEF Ra!Version, RepSupposed, Ra!SizeAssumption
    <2>7. Lent'
      BY <1>0, <1>2, <2>4, <2>6 DEF Lent, Holds, Ra!IsWhole
    <2> QED
      BY <1>0, <2>3, <2>4, <2>5, <2>7 DEF InStage, Hooked, Labelled
  <1> QED
    BY <1>1, <1>2 DEF Ra!Place

LEMMA RepInstall ==
    ASSUME RepSupposed, RepInv,
           Ra!Install(Lone) \/ Ra!FillHook(Lone) \/ Ra!EmptySettings(Lone) \/ Ra!FillSettings(Lone)
    PROVE  RepInv'
  <1> USE DEF RepInv
  <1>0. my[Lone] \in Carried /\ UNCHANGED <<host, label, final, stage, marred, calm, launches>>
    BY DEF RepTypes, Ra!Install, Ra!FillHook, Ra!EmptySettings, Ra!FillSettings, Ra!history, Ra!counts
  <1>1. CASE Ra!Install(Lone) /\ pc'[Lone] = "session"
    <2>1. Ra!Refuse(Lone) \/ (my' = [my EXCEPT ![Lone].relay = FALSE, ![Lone].policy = TRUE]
                              /\ pc' = [pc EXCEPT ![Lone] = "session"])
      BY <1>1 DEF Ra!Install, Ra!Goto, RepTypes
    <2>2. pc[Lone] = "install" /\ hook' = hook
      BY <1>1 DEF Ra!Install, Ra!Goto, RepTypes
    <2>3. CASE Ra!Refuse(Lone)
      BY <1>0, <2>2, <2>3, RepRefused DEF Ra!Refuse, Ra!Goto
    <2>4. CASE my' = [my EXCEPT ![Lone].relay = FALSE, ![Lone].policy = TRUE]
               /\ pc' = [pc EXCEPT ![Lone] = "session"]
      <3>1. my' = [my EXCEPT ![Lone] = [my[Lone] EXCEPT !.relay = FALSE, !.policy = TRUE]]
        BY <2>4 DEF RepTypes
      <3> QED
        BY <1>0, <2>2, <2>4, <3>1, RepRefused
    <2> QED
      BY <2>1, <2>3, <2>4
  <1>2. CASE Ra!Install(Lone) /\ pc'[Lone] # "session"
    <2>1. pc[Lone] = "install" /\ my' = my /\ pc' = [pc EXCEPT ![Lone] = "hook"]
          /\ hook' \in {"bare", "emptied"}
      BY <1>2 DEF Ra!Install, Ra!Goto, Ra!Refuse, RepTypes
    <2>2. RepTypes' /\ pc'[Lone] = "hook"
      BY <1>0, <2>1 DEF RepTypes, Ra!Step
    <2> QED
      BY <1>0, <2>1, <2>2 DEF InStage, Lent, Hooked, Labelled, Holds, Ra!IsWhole
  <1>3. CASE Ra!FillHook(Lone) \/ Ra!EmptySettings(Lone) \/ Ra!FillSettings(Lone)
    <2>1. my' = my /\ \/ pc[Lone] = "hook" /\ pc' = [pc EXCEPT ![Lone] = "fill"] /\ hook' = "ready"
                      \/ pc[Lone] = "fill" /\ pc' = [pc EXCEPT ![Lone] = "settings"] /\ hook' = hook
                      \/ pc[Lone] = "settings" /\ pc' = [pc EXCEPT ![Lone] = "session"] /\ hook' = hook
      BY <1>3 DEF Ra!FillHook, Ra!EmptySettings, Ra!FillSettings, Ra!Goto, Ra!Ready
    <2>2. RepTypes'
      BY <1>0, <2>1 DEF RepTypes, Ra!Step
    <2>3. pc'[Lone] \in {"fill", "settings", "session"}
      BY <2>1 DEF RepTypes
    <2> QED
      BY <1>0, <2>1, <2>2, <2>3 DEF RepTypes, InStage, Lent, Hooked, Labelled, Holds, Ra!IsWhole
  <1> QED
    BY <1>1, <1>2, <1>3

LEMMA RepEnds ==
    ASSUME RepSupposed, RepInv,
           Ra!SessionEnds(Lone) \/ Ra!Dead(Lone)
    PROVE  RepInv'
  <1> USE DEF RepInv
  <1>1. /\ pc' = [pc EXCEPT ![Lone] = "idle"] /\ my' = [my EXCEPT ![Lone] = Ra!Untold]
        /\ pc[Lone] \notin Ra!Trip
        /\ UNCHANGED <<host, label, final, stage, hook, marred, calm, launches>>
    BY DEF Ra!SessionEnds, Ra!Dead, Ra!Over, Ra!Goto, Ra!container, Ra!history, Ra!counts, Ra!Trip
  <1>2. Ra!Untold \in Carried /\ launches \in 0..MaxLaunches
    BY UntoldCarried DEF RepTypes, Ra!Untold, Carried
  <1>3. RepTypes'
    BY <1>1, <1>2 DEF RepTypes, Ra!Step
  <1>4. pc'[Lone] = "idle"
    BY <1>1 DEF RepTypes
  <1> QED
    BY <1>1, <1>3, <1>4 DEF InStage, Lent, Hooked, Labelled, Holds, Ra!IsWhole, Ra!Trip

LEMMA RepLost == ASSUME RepSupposed, RepInv, Ra!Lost(Lone) PROVE RepInv'
  <1> USE DEF RepInv
  <1>0. /\ my[Lone] \in Carried /\ pc[Lone] \in {"write", "hook", "settings"}
        /\ pc' = [pc EXCEPT ![Lone] = "session"] /\ pc'[Lone] = "session"
        /\ marred' = marred /\ UNCHANGED <<host, label, calm, launches>>
    BY DEF RepTypes, Ra!Lost, Ra!Goto
  <1>1. /\ [my[Lone] EXCEPT !.relay = FALSE] \in Carried
        /\ [[my[Lone] EXCEPT !.at = "final"] EXCEPT !.relay = FALSE] \in Carried
    BY <1>0 DEF Carried
  <1>2. CASE /\ pc[Lone] = "write" /\ stage # Absent
             /\ final' = stage /\ stage' = Absent
             /\ my' = [Ra!Renamed EXCEPT ![Lone] = [Ra!Renamed[Lone] EXCEPT !.relay = FALSE]]
             /\ UNCHANGED <<hook, settings>>
    <2>1. my[Lone].at = "stage" /\ stage \in Ra!File /\ Holds(stage, my[Lone].ver)
          /\ my[Lone].ver \in 1..host
      BY <1>0, <1>2 DEF InStage, Carried, Ra!Version, RepTypes, RepSupposed, Ra!SizeAssumption
    <2>2. Ra!Renamed = [q \in {Lone} |-> [my[q] EXCEPT !.at = IF my[q].at = "stage" THEN "final" ELSE "gone"]]
      BY DEF Ra!Renamed
    <2>3. my' = [my EXCEPT ![Lone] = [[my[Lone] EXCEPT !.at = "final"] EXCEPT !.relay = FALSE]]
      BY <1>2, <2>1, <2>2 DEF RepTypes
    <2>4. my'[Lone].profile = my[Lone].profile
      BY <1>0, <2>3 DEF RepTypes, Carried
    <2>5. RepTypes'
      BY <1>0, <1>1, <1>2, <2>1, <2>3 DEF RepTypes, Ra!Step
    <2>6. Lent'
      BY <1>0, <1>2, <2>1 DEF Lent, Holds
    <2> QED
      BY <1>0, <1>2, <2>4, <2>5, <2>6 DEF InStage, Hooked, Labelled
  <1>3. CASE /\ my' = [my EXCEPT ![Lone].relay = FALSE]
             /\ UNCHANGED <<final, stage>>
             /\ \/ pc[Lone] = "write" /\ hook' = hook
                \/ pc[Lone] # "write" /\ hook' = "ready"
    <2>1. my' = [my EXCEPT ![Lone] = [my[Lone] EXCEPT !.relay = FALSE]]
      BY <1>3 DEF RepTypes
    <2>2. my'[Lone].profile = my[Lone].profile
      BY <1>0, <2>1 DEF RepTypes, Carried
    <2>3. RepTypes'
      BY <1>0, <1>1, <1>3, <2>1 DEF RepTypes, Ra!Step
    <2> QED
      BY <1>0, <1>3, <2>2, <2>3 DEF InStage, Lent, Hooked, Labelled, Holds
  <1>4. Ra!Lost(Lone) =>
           \/ /\ pc[Lone] = "write" /\ stage # Absent
              /\ final' = stage /\ stage' = Absent
              /\ my' = [Ra!Renamed EXCEPT ![Lone] = [Ra!Renamed[Lone] EXCEPT !.relay = FALSE]]
              /\ UNCHANGED <<hook, settings>>
           \/ /\ my' = [my EXCEPT ![Lone].relay = FALSE]
              /\ UNCHANGED <<final, stage>>
              /\ \/ pc[Lone] = "write" /\ hook' = hook
                 \/ pc[Lone] # "write" /\ hook' = "ready"
    BY DEF Ra!Lost, Ra!container
  <1> QED
    BY <1>2, <1>3, <1>4

LEMMA RepBeside ==
    ASSUME RepSupposed, RepInv,
           \/ Ra!Bind(Lone) \/ (\E n \in Ra!Launch : Ra!Dies(n))
           \/ Ra!Stop \/ Ra!Replace \/ Ra!Update
    PROVE  RepInv'
  <1> USE DEF RepInv
  <1>1. CASE Ra!Bind(Lone) \/ (\E n \in Ra!Launch : Ra!Dies(n))
    BY <1>1, RepStill DEF Ra!Bind, Ra!Dies, Ra!container, Ra!history, Ra!counts
  <1>2. CASE Ra!Stop
    <2>1. pc[Lone] \in Ra!Trip
      BY <1>2 DEF Ra!Stop
    <2>2. /\ my' = [my EXCEPT ![Lone] = [my[Lone] EXCEPT !.relay = FALSE]]
          /\ pc' = [pc EXCEPT ![Lone] = "session"] /\ marred' = TRUE
          /\ UNCHANGED <<host, label, final, stage, hook, calm, launches>>
      BY <1>2, <2>1 DEF Ra!Stop, Ra!container, RepTypes
    <2>3. [my[Lone] EXCEPT !.relay = FALSE] \in Carried
      BY DEF RepTypes, Carried
    <2>4. RepTypes'
      BY <2>2, <2>3 DEF RepTypes, Ra!Step
    <2>5. my'[Lone].profile = my[Lone].profile /\ pc'[Lone] = "session"
      BY <2>2 DEF RepTypes, Carried
    <2> QED
      BY <2>1, <2>2, <2>4, <2>5 DEF InStage, Lent, Hooked, Labelled, Ra!Trip
  <1>3. CASE Ra!Replace
    <2>1. /\ pc[Lone] \notin Ra!Trip /\ final' = Absent /\ stage' = Absent /\ hook' = "none"
          /\ marred' = FALSE /\ calm' = [q \in {Lone} |-> FALSE] /\ calm'[Lone] = FALSE
          /\ UNCHANGED <<host, label, pc, my, launches>>
      BY <1>3 DEF Ra!Replace
    <2>2. RepTypes'
      BY <2>1 DEF RepTypes
    <2> QED
      BY <2>1, <2>2 DEF InStage, Lent, Hooked, Labelled, Ra!Trip
  <1>4. CASE Ra!Update
    <2>1. /\ host' = host + 1 /\ host' \in Ra!Version /\ host \in Nat
          /\ UNCHANGED <<label, final, stage, hook, pc, my, marred, calm, launches>>
      BY <1>4 DEF Ra!Update, Ra!container, Ra!history, RepTypes, Ra!Version, RepSupposed, Ra!SizeAssumption
    <2>2. RepTypes'
      BY <2>1 DEF RepTypes
    <2>3. 1..host \subseteq 1..host'
      BY <2>1
    <2>4. Lent'
      BY <2>1, <2>3 DEF Lent, Holds, Ra!IsWhole
    <2>5. InStage'
      <3>1. my[Lone].ver \in Nat
        BY DEF RepTypes, Carried, Ra!Version
      <3> QED
        BY <2>1, <3>1 DEF InStage, Holds
    <2> QED
      BY <2>1, <2>2, <2>4, <2>5 DEF Hooked, Labelled
  <1> QED
    BY <1>1, <1>2, <1>3, <1>4

LEMMA RepStep == ASSUME RepSupposed PROVE RepInv /\ [Ra!Next]_Ra!vars => RepInv'
  <1> SUFFICES ASSUME RepInv, [Ra!Next]_Ra!vars PROVE RepInv'
    OBVIOUS
  <1>1. CASE UNCHANGED Ra!vars
    BY <1>1, RepStill DEF Ra!vars, Ra!container, Ra!history, Ra!counts
  <1>2. CASE Ra!Goes(Lone)
    BY <1>2, RepOpens, RepProbe, RepLend, RepWrite, RepPlace, RepInstall DEF Ra!Goes
  <1>3. CASE Ra!Begin(Lone) \/ Ra!SessionEnds(Lone) \/ Ra!Lost(Lone) \/ Ra!Dead(Lone)
    BY <1>3, RepOpens, RepEnds, RepLost
  <1>4. CASE \/ Ra!Bind(Lone) \/ (\E n \in Ra!Launch : Ra!Dies(n))
             \/ Ra!Stop \/ Ra!Replace \/ Ra!Update
    BY <1>4, RepBeside
  <1>5. Ra!Next => \/ Ra!Goes(Lone)
                   \/ Ra!Begin(Lone) \/ Ra!SessionEnds(Lone) \/ Ra!Lost(Lone) \/ Ra!Dead(Lone)
                   \/ Ra!Bind(Lone) \/ (\E n \in Ra!Launch : Ra!Dies(n))
                   \/ Ra!Stop \/ Ra!Replace \/ Ra!Update
    BY Zenon DEF Ra!Next
  <1> QED
    BY <1>1, <1>2, <1>3, <1>4, <1>5

\* What the invariant does not read.
Forwarding ==
    /\ settings \in {"none", "foreign", "emptied", "ours"}
    /\ socket \in [{Lone} -> {0} \cup Ra!Launch]
    /\ forward \in [Ra!Launch -> {"none", "starting", "bound", "told", "ended"}]

LEMMA ForwardsInit == Ra!Init => Forwarding
  BY DEF Ra!Init, Forwarding

LEMMA ForwardsStep == RepInv /\ Forwarding /\ [Ra!Next]_Ra!vars => Forwarding'
  <1> SUFFICES ASSUME RepInv, Forwarding, [Ra!Next]_Ra!vars PROVE Forwarding'
    OBVIOUS
  <1> USE DEF Forwarding
  <1>1. CASE UNCHANGED Ra!vars
    BY <1>1 DEF Ra!vars, Ra!container
  <1>2. CASE Ra!Begin(Lone) \/ Ra!Label(Lone) \/ Ra!Alias(Lone) \/ Ra!Detach(Lone)
             \/ Ra!Register(Lone) \/ Ra!SessionEnds(Lone) \/ Ra!Dead(Lone)
    BY <1>2 DEF Ra!Begin, Ra!Label, Ra!Alias, Ra!Detach, Ra!Register, Ra!SessionEnds, Ra!Dead,
       Ra!Told, Ra!container
  <1>3. CASE Ra!Probe(Lone) \/ Ra!Lend(Lone) \/ Ra!Write(Lone) \/ Ra!Place(Lone)
    BY <1>3 DEF Ra!Probe, Ra!Lend, Ra!Write, Ra!Place, Ra!Ready, Ra!Refuse, Ra!Told, Ra!container
  <1>4. CASE Ra!Install(Lone) \/ Ra!FillHook(Lone) \/ Ra!EmptySettings(Lone) \/ Ra!FillSettings(Lone)
    BY <1>4 DEF Ra!Install, Ra!FillHook, Ra!EmptySettings, Ra!FillSettings, Ra!Ready, Ra!Refuse, Ra!Told
  <1>5. CASE Ra!Lost(Lone)
    BY <1>5 DEF Ra!Lost, Ra!Told, Ra!container
  <1>6. CASE Ra!Bind(Lone)
    <2>1. my[Lone].n \in {0} \cup Ra!Launch
      BY DEF RepInv, RepTypes, Carried
    <2> QED
      BY <1>6, <2>1 DEF Ra!Bind, Ra!container
  <1>7. CASE Ra!Stop \/ Ra!Replace \/ Ra!Update \/ (\E n \in Ra!Launch : Ra!Dies(n))
    BY <1>7 DEF Ra!Stop, Ra!Replace, Ra!Update, Ra!Dies, Ra!Disconnected, Ra!container
  <1> QED
    BY <1>1, <1>2, <1>3, <1>4, <1>5, <1>6, <1>7, Zenon DEF Ra!Next, Ra!Goes

\* What a launch that says it reports found, or brought.
LEMMA RepSays == ASSUME RepSupposed, RepInv, [Ra!Next]_Ra!vars PROVE Ra!SaysPrepared
  <1> SUFFICES ASSUME Ra!Says(Lone), calm[Lone], ~marred
               PROVE  final # Absent /\ Ra!IsWhole(final) /\ hook' = "ready" /\ settings' = "ours"
    BY DEF Ra!SaysPrepared
  <1> USE DEF RepInv
  <1>0. pc[Lone] \in {"probe", "settings"} /\ pc'[Lone] = "session" /\ my'[Lone].relay
    BY DEF Ra!Says
  <1>1. (Ra!Probe(Lone) /\ Ra!Prepared(Lone)) \/ Ra!FillSettings(Lone)
    <2>1. Ra!Probe(Lone) \/ Ra!FillSettings(Lone)
      <3>1. ~UNCHANGED Ra!vars
        BY <1>0 DEF Ra!vars
      <3>2. ~Ra!Lost(Lone)
        <4>1. Ra!Lost(Lone) /\ pc[Lone] = "settings" => my' = [my EXCEPT ![Lone].relay = FALSE]
          BY DEF Ra!Lost
        <4>2. Ra!Lost(Lone) => pc[Lone] = "settings"
          BY <1>0 DEF Ra!Lost
        <4> QED
          BY <1>0, <4>1, <4>2 DEF RepTypes, Carried
      <3>3. ~Ra!Stop
        <4>1. Ra!Stop => pc[Lone] \in Ra!Trip /\ my'[Lone] = [my[Lone] EXCEPT !.relay = FALSE]
          BY DEF Ra!Stop
        <4> QED
          BY <1>0, <4>1 DEF RepTypes, Carried
      <3>4. ~(Ra!Begin(Lone) \/ Ra!SessionEnds(Lone) \/ Ra!Dead(Lone))
        BY <1>0 DEF Ra!Begin, Ra!SessionEnds, Ra!Dead, Ra!Over, Ra!Goto, RepTypes
      <3>5. ~(Ra!Bind(Lone) \/ (\E n \in Ra!Launch : Ra!Dies(n)) \/ Ra!Replace \/ Ra!Update)
        BY <1>0 DEF Ra!Bind, Ra!Dies, Ra!Replace, Ra!Update
      <3>6. Ra!Goes(Lone) => Ra!Probe(Lone) \/ Ra!FillSettings(Lone)
        BY <1>0 DEF Ra!Goes, Ra!Label, Ra!Alias, Ra!Detach, Ra!Register, Ra!Lend, Ra!Write, Ra!Place,
           Ra!Install, Ra!FillHook, Ra!EmptySettings
      <3> QED
        BY <3>1, <3>2, <3>3, <3>4, <3>5, <3>6, Zenon DEF Ra!Next
    <2>2. Ra!Probe(Lone) => Ra!Prepared(Lone)
      <3>1. ~Ra!Refuse(Lone)
        BY <1>0 DEF Ra!Refuse, RepTypes, Carried
      <3>2. ~Ra!Goto(Lone, "lend")
        BY <1>0 DEF Ra!Goto, RepTypes
      <3> QED
        BY <3>1, <3>2 DEF Ra!Probe
    <2> QED
      BY <2>1, <2>2
  <1>2. CASE Ra!Probe(Lone) /\ Ra!Prepared(Lone)
    <2>1. /\ pc[Lone] = "probe" /\ final # Absent /\ final[2] = my[Lone].len
          /\ hook \in {"emptied", "ready"} /\ settings = "ours"
          /\ hook' = hook /\ settings' = settings
      BY <1>2 DEF Ra!Probe, Ra!Prepared, Ra!container
    <2>2. PICK v \in 1..host : Holds(final, v) /\ Size[v] <= my[Lone].len
      BY <2>1 DEF Lent
    <2>3. v \in Ra!Version /\ Size[v] \in Nat /\ my[Lone].len \in Nat
      BY SizesGrow DEF RepTypes, Carried, Ra!Version, RepSupposed, Ra!SizeAssumption
    <2>4. final[2] = Size[v]
      BY <2>1, <2>2, <2>3 DEF Holds
    <2>5. Ra!IsWhole(final)
      BY <2>2, <2>3, <2>4, HeldWhole
    <2> QED
      BY <2>1, <2>5 DEF Hooked
  <1>3. CASE Ra!FillSettings(Lone)
    BY <1>3 DEF Ra!FillSettings, Lent, Hooked
  <1> QED
    BY <1>1, <1>2, <1>3

\* An install is under way only over settings that are not the image's.
ForeignInv ==
    /\ pc \in [Panes -> Ra!Step] /\ replaced \in Nat
    /\ \A q \in Panes : pc[q] \in {"hook", "fill", "settings"} => settings # "foreign"

LEMMA ForeignInit == Rb!Init => ForeignInv
  BY DEF Rb!Init, ForeignInv, Ra!Step

LEMMA ForeignStep == ForeignInv /\ [Rb!Next]_Rb!vars => ForeignInv' /\ Rb!KeepsForeign
  <1> SUFFICES ASSUME ForeignInv, [Rb!Next]_Rb!vars PROVE ForeignInv' /\ Rb!KeepsForeign
    OBVIOUS
  <1> USE DEF ForeignInv, Ra!Step, Rb!KeepsForeign
  <1>1. CASE UNCHANGED Rb!vars
    BY <1>1 DEF Rb!vars, Rb!container, Rb!counts
  <1>2. ASSUME NEW q \in Panes,
               Rb!Begin(q) \/ Rb!Label(q) \/ Rb!Alias(q) \/ Rb!Detach(q) \/ Rb!Register(q)
               \/ Rb!Bind(q) \/ Rb!SessionEnds(q) \/ Rb!Dead(q)
        PROVE  ForeignInv' /\ Rb!KeepsForeign
    BY <1>2 DEF Rb!Begin, Rb!Label, Rb!Alias, Rb!Detach, Rb!Register, Rb!Bind, Rb!SessionEnds, Rb!Dead,
       Rb!Over, Rb!Goto, Rb!container, Rb!counts
  <1>3. ASSUME NEW q \in Panes, Rb!Probe(q) \/ Rb!Lend(q) \/ Rb!Write(q) \/ Rb!Place(q)
        PROVE  ForeignInv' /\ Rb!KeepsForeign
    BY <1>3 DEF Rb!Probe, Rb!Lend, Rb!Write, Rb!Place, Rb!Ready, Rb!Refuse, Rb!Goto, Rb!container, Rb!counts
  <1>4. ASSUME NEW q \in Panes, Rb!Install(q) \/ Rb!FillHook(q) \/ Rb!EmptySettings(q) \/ Rb!FillSettings(q)
        PROVE  ForeignInv' /\ Rb!KeepsForeign
    BY <1>4 DEF Rb!Install, Rb!FillHook, Rb!EmptySettings, Rb!FillSettings, Rb!Ready, Rb!Refuse, Rb!Goto, Rb!counts
  <1>5. ASSUME NEW q \in Panes, Rb!Lost(q)
        PROVE  ForeignInv' /\ Rb!KeepsForeign
    BY <1>5 DEF Rb!Lost, Rb!Goto, Rb!container, Rb!counts
  <1>6. CASE Rb!Stop \/ Rb!Update \/ (\E n \in Rb!Launch : Rb!Dies(n))
    BY <1>6 DEF Rb!Stop, Rb!Update, Rb!Dies, Rb!container, Rb!counts, Rb!Trip
  <1>7. CASE Rb!Replace
    BY <1>7 DEF Rb!Replace, Rb!Trip
  <1> QED
    BY <1>1, <1>2, <1>3, <1>4, <1>5, <1>6, <1>7, Zenon DEF Rb!Next, Rb!Goes

\* Whatever launches, updates of the manager, replacements and lost connections came
\* before: no session opens under the label of an earlier launch in its pane; a launch
\* that says it is reporting has the manager's whole binary, the hook and the settings
\* that call it in the container it probed, where no other pane reports from that one
\* and it was not stopped in the middle of a lend; and settings the image brought are
\* there for as long as the container is, however many panes install beside each other
\* (begin_reporting, prepare, install_command).
THEOREM ReportsAreTrue == Spec => ReportingSafe
  <1> DEFINE OwnInv == /\ part = "alone"  => RepInv /\ Forwarding
                       /\ part = "beside" => ForeignInv
             Kept == /\ part = "alone" => Ra!TypeOK' /\ Ra!LabelFollows' /\ Ra!SaysPrepared
                     /\ part = "beside" => Rb!KeepsForeign
  <1>1. Init => OwnInv
    BY StartsAsOne, RepGiven, RepInit, ForwardsInit, ForeignInit
  <1>2. OwnInv /\ [Next]_vars => OwnInv' /\ Kept
    <2> SUFFICES ASSUME OwnInv, [Next]_vars PROVE OwnInv' /\ Kept
      OBVIOUS
    <2>1. OwnInv'
      BY StepsAsOne, RepGiven, RepStep, ForwardsStep, ForeignStep
    <2>2. part = "alone" => Ra!TypeOK' /\ Ra!LabelFollows' /\ Ra!SaysPrepared
      <3> HAVE part = "alone"
      <3>1. RepInv' /\ Forwarding' /\ RepInv /\ [Ra!Next]_Ra!vars
        BY <2>1, StepsAsOne
      <3>2. Ra!SaysPrepared
        BY <3>1, RepSays, RepGiven
      <3>3. Ra!TypeOK'
        BY <3>1 DEF RepInv, RepTypes, Carried, Forwarding, Ra!TypeOK
      <3>4. Ra!LabelFollows'
        BY <3>1 DEF RepInv, Labelled, Ra!LabelFollows
      <3> QED
        BY <3>2, <3>3, <3>4
    <2>3. part = "beside" => Rb!KeepsForeign
      BY StepsAsOne, ForeignStep
    <2> QED
      BY <2>1, <2>2, <2>3
  <1> QED
    BY <1>1, <1>2, PTL DEF Spec, ReportingSafe
=============================================================================
