---------------------------- MODULE LaunchProofs ----------------------------
(***************************************************************************)
(* Theorems about Launch, for every set of processes, every set of verbs   *)
(* and every bound, with trips and locks that may fail: the types and the  *)
(* lock's holder, that a trusted verdict is earned, that no session opens  *)
(* in a container whose create never completed, that a pass has its record *)
(* until it gets through, and that it brings the tools in.                 *)
(***************************************************************************)
EXTENDS MCLaunch, TLAPS

(***************************************************************************)
(* What one step of one launch does to pc and my.                          *)
(***************************************************************************)
LEMMA GotoFacts ==
    ASSUME TypeOK, NEW p \in Process, NEW step \in Step, Goto(p, step)
    PROVE  /\ pc' \in [Process -> Step]
           /\ pc'[p] = step
           /\ \A q \in Process : q # p => pc'[q] = pc[q]
  BY DEF TypeOK, Goto

LEMMA EndFacts ==
    ASSUME TypeOK, NEW p \in Process, End(p)
    PROVE  /\ pc' \in [Process -> Step] /\ my' \in [Process -> Mine]
           /\ pc'[p] = "idle"
           /\ \A q \in Process : q # p => pc'[q] = pc[q] /\ my'[q] = my[q]
  <1>1. Untold \in Mine
    BY DEF Untold, Mine, Verb, Place, Stamp, Found
  <1> QED
    BY <1>1 DEF TypeOK, End, Goto, Step

LEMMA AfterPassFacts ==
    ASSUME TypeOK, NEW p \in Process, AfterPass(p)
    PROVE  /\ pc' \in [Process -> Step] /\ my' \in [Process -> Mine]
           /\ pc'[p] = "idle" \/ (pc'[p] = "attach" /\ my'[p] = my[p])
           /\ \A q \in Process : q # p => pc'[q] = pc[q] /\ my'[q] = my[q]
           /\ lock' = IF lock = p THEN Nobody ELSE lock
  <1>1. CASE Attaches(p)
    BY <1>1 DEF AfterPass, TypeOK, Goto, Unlock, Step
  <1>2. CASE ~Attaches(p)
    BY <1>2, EndFacts DEF AfterPass, Unlock
  <1> QED
    BY <1>1, <1>2

LEMMA ObsFacts ==
    ASSUME TypeOK, NEW p \in Process, NEW s \in Stamp,
           my' = [my EXCEPT ![p].obs = s]
    PROVE  /\ my' \in [Process -> Mine]
           /\ my'[p] = [my[p] EXCEPT !.obs = s]
           /\ my'[p].obs = s /\ my'[p].verb = my[p].verb
           /\ my'[p].place = my[p].place /\ my'[p].found = my[p].found
           /\ \A q \in Process : q # p => my'[q] = my[q]
  BY DEF TypeOK, Mine

LEMMA FoundFacts ==
    ASSUME TypeOK, NEW p \in Process, NEW f \in Found,
           my' = [my EXCEPT ![p].found = f]
    PROVE  /\ my' \in [Process -> Mine]
           /\ my'[p].obs = my[p].obs /\ my'[p].verb = my[p].verb
           /\ my'[p].place = my[p].place /\ my'[p].found = f
           /\ \A q \in Process : q # p => my'[q] = my[q]
  BY DEF TypeOK, Mine

(***************************************************************************)
(* Type correctness, and the lock's holder is inside.                      *)
(***************************************************************************)
LEMMA TypeInit == Init => TypeOK
  <1>1. Untold \in Mine
    BY DEF Untold, Mine, Verb, Place, Stamp, Found
  <1> SUFFICES ASSUME Init PROVE TypeOK
    OBVIOUS
  <1>2. /\ container \in {"Absent", "Stopped", "Running"}
        /\ record \in BOOLEAN /\ tools \in BOOLEAN
        /\ result \in Stamp /\ marker \in Stamp
    <2>1. CASE /\ container = "Absent" /\ result = 0
               /\ record = FALSE /\ tools = FALSE
               /\ marker = 0
      BY <2>1 DEF Stamp
    <2>2. CASE /\ container \in {"Stopped", "Running"} /\ result = 1
               /\ record = TRUE /\ tools = TRUE
               /\ marker \in {0, 1}
      BY <2>2 DEF Stamp
    <2> QED
      BY <2>1, <2>2, Zenon DEF Init
  <1>3. /\ memo = marker /\ inFlight = 0 /\ fresh = FALSE
        /\ devpod = Nobody /\ lock = Nobody
        /\ pc = [p \in Process |-> "idle"] /\ my = [p \in Process |-> Untold]
        /\ begun = FALSE /\ ended = FALSE
        /\ launches = 0 /\ foreigns = 0 /\ crashes = 0
    BY DEF Init
  <1>4. pc \in [Process -> Step] /\ my \in [Process -> Mine]
    BY <1>1, <1>3 DEF Step
  <1> QED
    <2>1. /\ memo \in Stamp /\ inFlight \in Stamp
          /\ devpod \in Process \cup {Nobody, Orphan, Foreign}
          /\ lock \in Process \cup {Nobody}
          /\ launches \in 0 .. MaxLaunches
          /\ foreigns \in 0 .. MaxForeign /\ crashes \in 0 .. MaxCrashes
      BY <1>2, <1>3, BoundsAssumption DEF Stamp
    <2>2. fresh \in BOOLEAN /\ begun \in BOOLEAN /\ ended \in BOOLEAN
      BY <1>3
    <2> QED
      BY <1>2, <1>3, <1>4, <2>1, <2>2 DEF TypeOK

LEMMA BuiltFacts ==
    ASSUME TypeOK, Built
    PROVE  /\ devpod' = Nobody /\ result' = result + 1 /\ result' \in Stamp
           /\ result' # 0 /\ result' > result
           /\ fresh' = FALSE /\ begun' = FALSE /\ ended' = FALSE
           /\ container' = container /\ record' = record /\ tools' = tools
  <1>1. result \in Nat
    BY DEF TypeOK, Stamp
  <1>2. result' = result + 1
    BY DEF Built
  <1>3. result' \in Nat /\ result' # 0 /\ result' > result
    BY <1>1, <1>2
  <1> QED
    BY <1>2, <1>3 DEF Built, Stamp

LEMMA BuildingFacts ==
    ASSUME TypeOK, NEW owner, NEW rebuild, Building(owner, rebuild)
    PROVE  /\ devpod' = owner /\ record' = TRUE /\ container' = "Running"
           /\ result' = result
           /\ tools' \in BOOLEAN /\ fresh' \in BOOLEAN
           /\ fresh => fresh'
           /\ fresh' \/ (tools' <=> tools)
  <1> DEFINE replaced == rebuild \/ container = "Absent"
  <1>1. /\ devpod' = owner /\ record' = TRUE /\ container' = "Running"
        /\ result' = result
        /\ tools' = (tools /\ ~replaced) /\ fresh' = (fresh \/ replaced)
    BY Zenon DEF Building
  <1>2. tools \in BOOLEAN /\ fresh \in BOOLEAN
    BY DEF TypeOK
  <1> HIDE DEF replaced
  <1>3. CASE replaced
    <2>1. tools' = FALSE
      BY <1>1, <1>3, Zenon
    <2>2. fresh' = TRUE
      BY <1>1, <1>3, Zenon
    <2> QED
      BY <1>1, <2>1, <2>2
  <1>4. CASE ~replaced
    <2>1. tools' = tools
      BY <1>1, <1>2, <1>4, Zenon
    <2>2. fresh' = fresh
      BY <1>1, <1>2, <1>4, Zenon
    <2> QED
      BY <1>1, <1>2, <2>1, <2>2
  <1> QED
    BY <1>3, <1>4

\* The steps that only move the launch on, or move it on and read.
LEMMA TypeMoves ==
    ASSUME TypeOK, NEW p \in Process,
           \/ FastPath(p) \/ FinishTheInterruptedPass(p) \/ BringUp(p)
           \/ Restart(p) \/ Dotfiles(p) \/ Queue(p) \/ LockUnavailable(p)
           \/ Recheck(p) \/ Leave(p) \/ Attach(p)
    PROVE  TypeOK'
  <1>1. CASE Leave(p) \/ Attach(p)
    BY <1>1, EndFacts
       DEF Leave, Attach, TypeOK, Goto, Step, Section, devpodVars, hostVars,
           history, counts
  <1>2. CASE \/ FastPath(p) \/ FinishTheInterruptedPass(p) \/ BringUp(p)
             \/ Restart(p) \/ Dotfiles(p)
    BY <1>2
       DEF FastPath, FinishTheInterruptedPass, BringUp, Restart, Dotfiles,
           TypeOK, Goto, Step, Section, devpodVars, hostVars, history, counts
  <1>3. CASE Queue(p) \/ LockUnavailable(p) \/ Recheck(p)
    BY <1>3
       DEF Queue, LockUnavailable, Recheck, TypeOK, Goto, Step, Section,
           devpodVars, hostVars, history, counts
  <1> QED
    BY <1>1, <1>2, <1>3

LEMMA TypeBegin ==
    ASSUME TypeOK, NEW p \in Process, NEW verb \in Verbs, NEW more \in BOOLEAN,
           NEW place \in Place, BeginLaunch(p, verb, more, place)
    PROVE  TypeOK'
  <1>1. [verb |-> verb, more |-> more, place |-> place, obs |-> 0,
         found |-> "none"] \in Mine
    BY VerbsAssumption DEF Mine, Stamp, Found
  <1>2. my' \in [Process -> Mine]
    BY <1>1 DEF BeginLaunch, TypeOK
  <1>3. launches' \in 0 .. MaxLaunches
    BY BoundsAssumption DEF BeginLaunch, TypeOK
  <1> QED
    BY <1>2, <1>3
       DEF BeginLaunch, TypeOK, Goto, Step, Section, devpodVars, hostVars,
           history, counts

LEMMA TypeLocks ==
    ASSUME TypeOK, NEW p \in Process,
           \/ WalkIn(p) \/ Wake(p) \/ Stop(p) \/ UpStarts(p)
           \/ SweepOrphans(p) \/ UpSucceeds(p) \/ UpRefused(p)
    PROVE  TypeOK'
  <1>1. CASE WalkIn(p) \/ Wake(p)
    BY <1>1
       DEF WalkIn, Wake, TypeOK, Goto, Step, Section, devpodVars, history, counts
  <1>2. CASE Stop(p)
    BY <1>2, EndFacts
       DEF Stop, TypeOK, Goto, Step, Section, hostVars, history, counts
  <1>3. CASE UpStarts(p)
    <2>1. Building(p, my[p].verb = "rebuild")
      BY <1>3, Zenon DEF UpStarts
    <2>2. /\ devpod' = p /\ record' = TRUE /\ container' = "Running"
          /\ result' = result /\ tools' \in BOOLEAN /\ fresh' \in BOOLEAN
      BY <2>1, BuildingFacts, Zenon
    <2> QED
      BY <1>3, <2>2
         DEF UpStarts, TypeOK, Goto, Step, Section, hostVars, history, counts
  <1>4. CASE SweepOrphans(p)
    BY <1>4 DEF SweepOrphans, Broken, TypeOK, hostVars, history, counts
  <1>5. CASE UpSucceeds(p)
    <2>1. Built /\ UNCHANGED <<marker, memo, inFlight, my, launches, foreigns,
                               crashes>>
      BY <1>5 DEF UpSucceeds, counts
    <2>2. CASE Anonymous(p)
      BY <1>5, <2>1, <2>2, BuiltFacts
         DEF UpSucceeds, Unlock, TypeOK, Goto, Step, Section
    <2>3. CASE ~Anonymous(p)
      BY <1>5, <2>1, <2>3, BuiltFacts
         DEF UpSucceeds, TypeOK, Goto, Step, Section
    <2> QED
      BY <2>2, <2>3
  <1>6. CASE UpRefused(p)
    BY <1>6, EndFacts
       DEF UpRefused, Broken, Unlock, TypeOK, Section, history, counts
  <1> QED
    BY <1>1, <1>2, <1>3, <1>4, <1>5, <1>6

LEMMA TypePass ==
    ASSUME TypeOK, NEW p \in Process,
           \/ TopUp(p) \/ Observe(p) \/ BeginPass(p) \/ Probe(p) \/ Note(p)
           \/ Lend(p) \/ Close(p)
    PROVE  TypeOK'
  <1>0. result \in Stamp /\ my[p].obs \in Stamp
    BY DEF TypeOK, Mine
  <1>1. CASE TopUp(p)
    BY <1>0, <1>1, ObsFacts
       DEF TopUp, TypeOK, Goto, Step, Section, devpodVars, hostVars, history,
           counts
  <1>2. CASE Observe(p)
    BY <1>0, <1>2, ObsFacts
       DEF Observe, TypeOK, Goto, Step, Section, devpodVars, hostVars, history,
           counts
  <1>3. CASE BeginPass(p)
    BY <1>0, <1>3
       DEF BeginPass, TypeOK, Goto, Step, Section, devpodVars, counts
  <1>4. CASE Probe(p)
    <2>1. my' \in [Process -> Mine]
      BY <1>4, FoundFacts DEF Probe
    <2> QED
      BY <1>4, <2>1
         DEF Probe, TypeOK, Goto, Step, Section, devpodVars, hostVars, history,
             counts
  <1>5. CASE Note(p)
    <2>1. CASE my[p].found = "refused"
      BY <1>0, <1>5, <2>1, AfterPassFacts
         DEF Note, TypeOK, Section, devpodVars, history, counts
    <2>2. CASE my[p].found # "refused"
      BY <1>0, <1>5, <2>2
         DEF Note, TypeOK, Goto, Step, Section, devpodVars, history, counts
    <2> QED
      BY <2>1, <2>2
  <1>6. CASE Lend(p)
    <2>1. /\ tools' \in BOOLEAN
          /\ UNCHANGED <<container, record, result, fresh, devpod, marker, memo,
                         inFlight, begun, ended, launches, foreigns, crashes>>
      BY <1>6 DEF Lend, TypeOK, history, counts
    <2>2. CASE AfterPass(p)
      BY <2>1, <2>2, AfterPassFacts DEF TypeOK, Section
    <2>3. CASE Goto(p, "close") /\ UNCHANGED <<lock, my>>
      BY <1>6, <2>1, <2>3 DEF Lend, TypeOK, Goto, Step, Section
    <2> QED
      BY <1>6, <2>2, <2>3 DEF Lend
  <1>7. CASE Close(p)
    BY <1>7, AfterPassFacts
       DEF Close, TypeOK, Stamp, Section, devpodVars, counts
  <1> QED
    BY <1>1, <1>2, <1>3, <1>4, <1>5, <1>6, <1>7

LEMMA TypeOthers ==
    ASSUME TypeOK,
           (\E p \in Process : Crash(p)) \/ ForeignUp \/ UnattendedUpEnds
    PROVE  TypeOK'
  <1>1. CASE \E p \in Process : Crash(p)
    <2> PICK p \in Process : Crash(p)
      BY <1>1
    <2>1. crashes' \in 0 .. MaxCrashes
      BY BoundsAssumption DEF Crash, TypeOK
    <2>2. UNCHANGED <<container, record, result, tools, fresh, history>>
          /\ devpod' \in Process \cup {Nobody, Orphan, Foreign}
      BY DEF Crash, Broken, TypeOK
    <2> QED
      BY <2>1, <2>2, EndFacts DEF Crash, Unlock, TypeOK, Section, history
  <1>2. CASE ForeignUp
    <2>1. foreigns' \in 0 .. MaxForeign
      BY <1>2, BoundsAssumption DEF ForeignUp, TypeOK
    <2> QED
      BY <1>2, <2>1, BuildingFacts DEF ForeignUp, TypeOK, hostVars, history
  <1>3. CASE UnattendedUpEnds
    <2>1. CASE Built
      BY <1>3, <2>1, BuiltFacts
         DEF UnattendedUpEnds, TypeOK, hostVars, counts
    <2>2. CASE Broken(Nobody)
      BY <1>3, <2>2
         DEF UnattendedUpEnds, Broken, TypeOK, hostVars, history, counts
    <2> QED
      BY <1>3, <2>1, <2>2 DEF UnattendedUpEnds
  <1> QED
    BY <1>1, <1>2, <1>3

LEMMA TypeStep == TypeOK /\ [Next]_vars => TypeOK'
  <1> SUFFICES ASSUME TypeOK, [Next]_vars PROVE TypeOK'
    OBVIOUS
  <1>1. CASE UNCHANGED vars
    BY <1>1 DEF vars, devpodVars, hostVars, history, counts, TypeOK
  <1>2. CASE Next
    BY <1>2, TypeMoves, TypeBegin, TypeLocks, TypePass, TypeOthers
       DEF Next, Advance
  <1> QED
    BY <1>1, <1>2

\* Every state is well typed, and only a launch between the re-check and the
\* end of its pass holds the launch lock: every way out of up_under_stage, a
\* refusal and a crash among them, lets it go.
THEOREM TypeCorrect == Spec => []TypeOK
  BY TypeInit, TypeStep, PTL DEF Spec

(***************************************************************************)
(* A trusted verdict is earned.                                            *)
(***************************************************************************)

\* Nothing is stamped later than the result that is there; a verdict under the
\* standing stamp, written or about to be, is about a container with the tools.
EarnedInv ==
    /\ marker <= result
    /\ \A p \in Process : my[p].obs <= result
    /\ marker = result /\ result # 0 /\ ~fresh => tools
    /\ \A p \in Process :
        /\ pc[p] = "note" /\ my[p].found = "provisioned"
        /\ my[p].obs = result /\ result # 0 /\ ~fresh
        => tools

LEMMA StampsAreNat ==
    ASSUME TypeOK
    PROVE  result \in Nat /\ marker \in Nat /\ \A p \in Process : my[p].obs \in Nat
  BY DEF TypeOK, Mine, Stamp

\* A step that leaves devpod's container and the verdict alone, observes
\* nothing but the result, and brings nobody to the point of writing.
LEMMA EarnedQuiet ==
    ASSUME TypeOK, EarnedInv, UNCHANGED <<result, marker, tools, fresh>>,
           \A q \in Process : my'[q].obs <= result,
           \A q \in Process : pc'[q] = "note" => pc[q] = "note" /\ my'[q] = my[q]
    PROVE  EarnedInv'
  BY DEF EarnedInv

LEMMA EarnedBuilding ==
    ASSUME TypeOK, EarnedInv, NEW owner, NEW rebuild, Building(owner, rebuild),
           UNCHANGED <<marker, my>>,
           \A q \in Process : pc'[q] = "note" => pc[q] = "note"
    PROVE  EarnedInv'
  <1>1. /\ result' = result /\ marker' = marker /\ my' = my
        /\ fresh => fresh'
        /\ fresh' \/ (tools' <=> tools)
    BY BuildingFacts
  <1>2. CASE fresh'
    BY <1>1, <1>2 DEF EarnedInv
  <1>3. CASE ~fresh'
    BY <1>1, <1>3 DEF EarnedInv
  <1> QED
    BY <1>2, <1>3

LEMMA EarnedBuilt ==
    ASSUME TypeOK, EarnedInv, Built, UNCHANGED <<marker, my>>
    PROVE  EarnedInv'
  <1>1. /\ result \in Nat /\ result' \in Nat /\ result' > result
        /\ marker' = marker /\ my' = my /\ marker \in Nat
        /\ \A p \in Process : my[p].obs \in Nat
    BY BuiltFacts, StampsAreNat DEF Stamp
  <1>2. marker' < result' /\ \A p \in Process : my'[p].obs < result'
    BY <1>1 DEF EarnedInv
  <1> QED
    BY <1>1, <1>2 DEF EarnedInv

LEMMA EarnedAdvance ==
    ASSUME TypeOK, EarnedInv, NEW p \in Process, Advance(p)
    PROVE  EarnedInv'
  <1>0. result \in Nat /\ marker \in Nat /\ \A q \in Process : my[q].obs \in Nat
    BY StampsAreNat
  <1>1. CASE \/ FastPath(p) \/ FinishTheInterruptedPass(p) \/ BringUp(p)
             \/ Restart(p) \/ Dotfiles(p) \/ WalkIn(p) \/ Queue(p) \/ Wake(p)
             \/ LockUnavailable(p) \/ Recheck(p) \/ BeginPass(p)
    <2>1. UNCHANGED <<result, marker, tools, fresh, my>>
      BY <1>1
         DEF FastPath, FinishTheInterruptedPass, BringUp, Restart, Dotfiles,
             WalkIn, Queue, Wake, LockUnavailable, Recheck, BeginPass,
             devpodVars, hostVars
    <2>2. \A q \in Process : pc'[q] = "note" => pc[q] = "note"
      BY <1>1
         DEF FastPath, FinishTheInterruptedPass, BringUp, Restart, Dotfiles,
             WalkIn, Queue, Wake, LockUnavailable, Recheck, BeginPass, Goto,
             TypeOK
    <2> QED
      BY <2>1, <2>2, EarnedQuiet DEF EarnedInv
  <1>2. CASE Stop(p) \/ Attach(p) \/ UpRefused(p) \/ SweepOrphans(p)
    <2>1. UNCHANGED <<result, marker, tools, fresh>>
      BY <1>2
         DEF Stop, Attach, UpRefused, SweepOrphans, Broken, devpodVars, hostVars
    <2>2. \/ End(p)
          \/ UNCHANGED my /\ (UNCHANGED pc \/ Goto(p, "serialize")
                               \/ Goto(p, "session"))
      BY <1>2 DEF Stop, Attach, UpRefused, SweepOrphans
    <2>3. CASE End(p)
      <3>1. my'[p].obs = 0
        BY <2>3 DEF End, TypeOK, Untold
      <3> QED
        BY <1>0, <2>1, <2>3, <3>1, EndFacts, EarnedQuiet DEF EarnedInv
    <2>4. CASE UNCHANGED my /\ (UNCHANGED pc \/ Goto(p, "serialize")
                                 \/ Goto(p, "session"))
      BY <2>1, <2>4, EarnedQuiet DEF EarnedInv, Goto, TypeOK
    <2> QED
      BY <2>2, <2>3, <2>4
  <1>3. CASE UpStarts(p)
    <2>1. Building(p, my[p].verb = "rebuild") /\ UNCHANGED <<marker, my>>
      BY <1>3, Zenon DEF UpStarts, hostVars
    <2>2. \A q \in Process : pc'[q] = "note" => pc[q] = "note"
      BY <1>3 DEF UpStarts, Goto, TypeOK
    <2> QED
      BY <2>1, <2>2, EarnedBuilding, Zenon
  <1>4. CASE UpSucceeds(p)
    BY <1>4, EarnedBuilt DEF UpSucceeds
  <1>5. CASE TopUp(p) \/ Observe(p)
    <2>1. UNCHANGED <<result, marker, tools, fresh>>
      BY <1>5 DEF TopUp, Observe, devpodVars, hostVars
    <2>2. \A q \in Process : pc'[q] = "note" => pc[q] = "note" /\ q # p
      BY <1>5 DEF TopUp, Observe, Goto, TypeOK
    <2>3. my' = my \/ my' = [my EXCEPT ![p].obs = result]
      BY <1>5 DEF TopUp, Observe
    <2>4. CASE my' = my
      BY <2>1, <2>2, <2>4, EarnedQuiet DEF EarnedInv
    <2>5. CASE my' = [my EXCEPT ![p].obs = result]
      BY <1>0, <2>1, <2>2, <2>5, ObsFacts, EarnedQuiet DEF EarnedInv, Stamp
    <2> QED
      BY <2>3, <2>4, <2>5
  <1>6. CASE Probe(p)
    <2> PICK found \in Found \ {"none"} :
          /\ found = "provisioned" => container = "Running" /\ tools
          /\ my' = [my EXCEPT ![p].found = found]
      BY <1>6 DEF Probe
    <2>1. UNCHANGED <<result, marker, tools, fresh>>
      BY <1>6 DEF Probe, devpodVars, hostVars
    <2>2. \A q \in Process : q # p => pc'[q] = pc[q] /\ my'[q] = my[q]
      BY <1>6, FoundFacts DEF Probe, Goto, TypeOK
    <2>3. my'[p].obs = my[p].obs /\ my'[p].found = found
      BY FoundFacts
    <2> QED
      BY <2>1, <2>2, <2>3 DEF EarnedInv
  <1>7. CASE Note(p)
    <2>1. UNCHANGED <<result, tools, fresh>>
      BY <1>7 DEF Note, devpodVars
    <2>2. pc[p] = "note"
          /\ marker' = IF my[p].found = "provisioned" /\ my[p].obs # 0
                       THEN my[p].obs ELSE marker
      BY <1>7 DEF Note
    <2>3. /\ \A q \in Process : q # p => pc'[q] = pc[q] /\ my'[q] = my[q]
          /\ pc'[p] # "note"
          /\ my'[p].obs = 0 \/ my'[p] = my[p]
      <3>1. CASE my[p].found = "refused"
        <4>1. CASE Attaches(p)
          BY <1>7, <3>1, <4>1 DEF Note, AfterPass, Goto, TypeOK
        <4>2. CASE ~Attaches(p)
          BY <1>7, <3>1, <4>2 DEF Note, AfterPass, End, Goto, TypeOK, Untold
        <4> QED
          BY <4>1, <4>2
      <3>2. CASE my[p].found # "refused"
        BY <1>7, <3>2 DEF Note, Goto, TypeOK
      <3> QED
        BY <3>1, <3>2
    <2>4. marker' <= result' /\ \A q \in Process : my'[q].obs <= result'
      BY <1>0, <2>1, <2>2, <2>3 DEF EarnedInv
    <2>5. marker' = result' /\ result' # 0 /\ ~fresh' => tools'
      BY <1>0, <2>1, <2>2 DEF EarnedInv
    <2> QED
      BY <2>1, <2>3, <2>4, <2>5 DEF EarnedInv
  <1>8. CASE Lend(p) \/ Close(p)
    <2>1. UNCHANGED <<result, marker, fresh>> /\ (tools => tools')
      BY <1>8 DEF Lend, Close, devpodVars
    <2>2. AfterPass(p) \/ (Goto(p, "close") /\ UNCHANGED my)
      BY <1>8 DEF Lend, Close
    <2>3. /\ \A q \in Process : q # p => pc'[q] = pc[q] /\ my'[q] = my[q]
          /\ pc'[p] # "note"
          /\ my'[p].obs = 0 \/ my'[p] = my[p]
      <3>1. CASE AfterPass(p) /\ Attaches(p)
        BY <3>1 DEF AfterPass, Goto, TypeOK
      <3>2. CASE AfterPass(p) /\ ~Attaches(p)
        BY <3>2 DEF AfterPass, End, Goto, TypeOK, Untold
      <3>3. CASE Goto(p, "close") /\ UNCHANGED my
        BY <3>3 DEF Goto, TypeOK
      <3> QED
        BY <2>2, <3>1, <3>2, <3>3
    <2> QED
      BY <1>0, <2>1, <2>3 DEF EarnedInv
  <1> QED
    BY <1>1, <1>2, <1>3, <1>4, <1>5, <1>6, <1>7, <1>8 DEF Advance

LEMMA EarnedStep == TypeOK /\ EarnedInv /\ [Next]_vars => EarnedInv'
  <1> SUFFICES ASSUME TypeOK, EarnedInv, [Next]_vars PROVE EarnedInv'
    OBVIOUS
  <1>0. result \in Nat /\ \A q \in Process : my[q].obs \in Nat
    BY StampsAreNat
  <1>1. CASE UNCHANGED vars
    BY <1>1 DEF vars, devpodVars, hostVars, EarnedInv
  <1>2. ASSUME NEW p \in Process, NEW verb \in Verbs, NEW more \in BOOLEAN,
               NEW place \in Place, BeginLaunch(p, verb, more, place)
        PROVE  EarnedInv'
    <2>1. UNCHANGED <<result, marker, tools, fresh>>
      BY <1>2 DEF BeginLaunch, devpodVars, hostVars
    <2>2. my'[p].obs = 0 /\ pc'[p] # "note"
          /\ \A q \in Process : q # p => pc'[q] = pc[q] /\ my'[q] = my[q]
      BY <1>2 DEF BeginLaunch, Goto, TypeOK
    <2> QED
      BY <1>0, <2>1, <2>2, EarnedQuiet DEF EarnedInv
  <1>3. ASSUME NEW p \in Process, Leave(p) \/ Crash(p)
        PROVE  EarnedInv'
    <2>1. UNCHANGED <<result, marker, tools, fresh>> /\ End(p)
      BY <1>3 DEF Leave, Crash, Broken, devpodVars, hostVars
    <2>2. my'[p].obs = 0
      BY <2>1 DEF End, TypeOK, Untold
    <2> QED
      BY <1>0, <2>1, <2>2, EndFacts, EarnedQuiet DEF EarnedInv
  <1>4. CASE ForeignUp
    <2> PICK rebuild \in BOOLEAN : Building(Foreign, rebuild)
      BY <1>4 DEF ForeignUp
    <2>1. UNCHANGED <<marker, my, pc>>
      BY <1>4 DEF ForeignUp, hostVars
    <2> QED
      BY <2>1, EarnedBuilding
  <1>5. CASE UnattendedUpEnds
    <2>1. UNCHANGED <<marker, my, pc>> /\ (Built \/ Broken(Nobody))
      BY <1>5 DEF UnattendedUpEnds, hostVars
    <2>2. CASE Built
      BY <2>1, <2>2, EarnedBuilt
    <2>3. CASE Broken(Nobody)
      BY <2>1, <2>3 DEF Broken, EarnedInv
    <2> QED
      BY <2>1, <2>2, <2>3
  <1> QED
    BY <1>1, <1>2, <1>3, <1>4, <1>5, EarnedAdvance DEF Next

LEMMA EarnedInit == Init => EarnedInv
  <1> SUFFICES ASSUME Init PROVE EarnedInv
    OBVIOUS
  <1>1. /\ fresh = FALSE /\ pc = [p \in Process |-> "idle"]
        /\ my = [p \in Process |-> Untold]
    BY DEF Init
  <1>2. CASE result = 0 /\ marker = 0
    BY <1>1, <1>2 DEF EarnedInv, Untold
  <1>3. CASE result = 1 /\ tools = TRUE /\ marker \in {0, 1}
    BY <1>1, <1>3 DEF EarnedInv, Untold
  <1> QED
    BY <1>2, <1>3, Zenon DEF Init

\* A remembered verdict that a top-up would trust is about a container that has
\* the tools, unless the standing container's own `up` never completed:
\* whatever launches, rebuilds, foreign ups and crashes overlapped the pass.
THEOREM VerdictsAreEarned == Spec => []TrustIsEarned
  <1>1. EarnedInv => TrustIsEarned
    BY DEF EarnedInv, TrustIsEarned, Trusted
  <1> QED
    BY <1>1, TypeInit, TypeStep, EarnedInit, EarnedStep, PTL DEF Spec

(***************************************************************************)
(* No session in a container whose create never completed.                 *)
(***************************************************************************)

\* The steps a launch reaches only past a completed create.
PastCreate == {"warm", "topup", "observe", "begin", "probe", "note", "lend",
               "close", "attach", "session"}

\* devpod has a record of whatever it runs, and so of what was placed as
\* running; past its check or its own `up`, a launch has a result behind it.
CompletedInv ==
    /\ container # "Absent" => record
    /\ \A p \in Process :
        /\ pc[p] = "placed" /\ my[p].place = "running" => record
        /\ pc[p] \in PastCreate /\ my[p].verb # "dotfiles" => result # 0

LEMMA CompletedInit == Init => CompletedInv
  <1> SUFFICES ASSUME Init PROVE CompletedInv
    OBVIOUS
  <1>1. pc = [p \in Process |-> "idle"]
    BY DEF Init
  <1>2. CASE container = "Absent"
    BY <1>1, <1>2 DEF CompletedInv, PastCreate
  <1>3. CASE record = TRUE
    BY <1>1, <1>3 DEF CompletedInv, PastCreate
  <1> QED
    BY <1>2, <1>3, Zenon DEF Init

\* A step that forgets no record and no result, and of which whoever gets past
\* its check has a result to show.
LEMMA CompletedQuiet ==
    ASSUME TypeOK, CompletedInv,
           container' # "Absent" => record',
           record => record', result # 0 => result' # 0,
           \A q \in Process :
               /\ pc'[q] = "placed" => pc[q] = "placed" /\ my'[q] = my[q]
               /\ pc'[q] \in PastCreate =>
                    \/ pc[q] \in PastCreate /\ my'[q].verb = my[q].verb
                    \/ my'[q].verb = "dotfiles"
                    \/ result' # 0
    PROVE  CompletedInv'
  BY DEF CompletedInv

LEMMA CompletedAdvance ==
    ASSUME TypeOK, CompletedInv, NEW p \in Process, Advance(p)
    PROVE  CompletedInv'
  <1>1. CASE FastPath(p)
    <2>1. result # 0
      BY <1>1 DEF FastPath, NeverCompleted, CompletedInv
    <2> QED
      BY <1>1, <2>1, CompletedQuiet
         DEF FastPath, Goto, TypeOK, devpodVars, CompletedInv, PastCreate
  <1>2. CASE Recheck(p)
    <2>1. pc'[p] = "topup" => result # 0
      BY <1>2 DEF Recheck, NeverCompleted, CompletedInv, Goto, TypeOK
    <2>2. pc'[p] \in {"topup", "up"}
          /\ \A q \in Process : q # p => pc'[q] = pc[q]
      BY <1>2 DEF Recheck, Goto, TypeOK
    <2> QED
      BY <1>2, <2>1, <2>2, CompletedQuiet
         DEF Recheck, devpodVars, CompletedInv, PastCreate
  <1>3. CASE \/ BringUp(p) \/ Restart(p) \/ WalkIn(p) \/ Queue(p) \/ Wake(p)
             \/ LockUnavailable(p)
    BY <1>3, CompletedQuiet
       DEF BringUp, Restart, WalkIn, Queue, Wake, LockUnavailable, Goto, TypeOK,
           devpodVars, CompletedInv, PastCreate
  <1>4. CASE FinishTheInterruptedPass(p) \/ BeginPass(p)
    <2>1. UNCHANGED <<container, record, result, my>> /\ pc[p] \in PastCreate
      BY <1>4 DEF FinishTheInterruptedPass, BeginPass, devpodVars, PastCreate
    <2>2. pc'[p] # "placed" /\ \A q \in Process : q # p => pc'[q] = pc[q]
      BY <1>4 DEF FinishTheInterruptedPass, BeginPass, Goto, TypeOK
    <2> QED
      BY <2>1, <2>2, CompletedQuiet DEF CompletedInv
  <1>5. CASE Dotfiles(p)
    <2>1. UNCHANGED <<container, record, result, my>> /\ my[p].verb = "dotfiles"
      BY <1>5 DEF Dotfiles, devpodVars
    <2>2. pc'[p] # "placed" /\ \A q \in Process : q # p => pc'[q] = pc[q]
      BY <1>5 DEF Dotfiles, Goto, TypeOK
    <2> QED
      BY <2>1, <2>2, CompletedQuiet DEF CompletedInv
  <1>6. CASE Stop(p)
    <2>1. /\ UNCHANGED <<record, result>>
          /\ container' # "Absent" => container # "Absent"
      BY <1>6 DEF Stop, TypeOK
    <2>2. End(p) \/ (Goto(p, "serialize") /\ UNCHANGED my)
      BY <1>6 DEF Stop
    <2>3. CASE End(p)
      BY <2>1, <2>3, EndFacts, CompletedQuiet DEF CompletedInv, PastCreate
    <2>4. CASE Goto(p, "serialize") /\ UNCHANGED my
      BY <2>1, <2>4, CompletedQuiet DEF CompletedInv, PastCreate, Goto, TypeOK
    <2> QED
      BY <2>2, <2>3, <2>4
  <1>7. CASE UpStarts(p)
    <2>1. Building(p, my[p].verb = "rebuild")
      BY <1>7, Zenon DEF UpStarts
    <2>2. record' = TRUE /\ result' = result
      BY <2>1, BuildingFacts, Zenon
    <2> QED
      BY <1>7, <2>2, CompletedQuiet DEF UpStarts, Goto, TypeOK, PastCreate
  <1>8. CASE SweepOrphans(p) \/ UpRefused(p)
    <2>1. UNCHANGED <<container, record, result>>
      BY <1>8 DEF SweepOrphans, UpRefused, Broken
    <2>2. End(p) \/ UNCHANGED <<pc, my>>
      BY <1>8 DEF SweepOrphans, UpRefused
    <2> QED
      BY <2>1, <2>2, EndFacts, CompletedQuiet DEF CompletedInv, PastCreate
  <1>9. CASE UpSucceeds(p)
    <2>1. result' # 0 /\ UNCHANGED <<container, record, my>>
      BY <1>9, BuiltFacts DEF UpSucceeds
    <2>2. pc'[p] # "placed" /\ \A q \in Process : q # p => pc'[q] = pc[q]
      BY <1>9 DEF UpSucceeds, Goto, TypeOK
    <2> QED
      BY <2>1, <2>2, CompletedQuiet DEF CompletedInv
  <1>10. CASE TopUp(p) \/ Observe(p) \/ Probe(p)
    <2>1. UNCHANGED <<container, record, result>> /\ pc[p] \in PastCreate
      BY <1>10 DEF TopUp, Observe, Probe, devpodVars, PastCreate
    <2>2. pc'[p] # "placed"
          /\ \A q \in Process : q # p => pc'[q] = pc[q] /\ my'[q] = my[q]
      BY <1>10 DEF TopUp, Observe, Probe, Goto, TypeOK
    <2>3. my'[p].verb = my[p].verb
      <3>1. result \in Stamp
        BY DEF TypeOK
      <3> QED
        BY <1>10, <3>1, ObsFacts, FoundFacts DEF TopUp, Observe, Probe
    <2> QED
      BY <2>1, <2>2, <2>3, CompletedQuiet DEF CompletedInv
  <1>11. CASE Note(p) \/ Lend(p) \/ Close(p)
    <2>1. UNCHANGED <<container, record, result>> /\ pc[p] \in PastCreate
      BY <1>11 DEF Note, Lend, Close, devpodVars, PastCreate
    <2>2. \/ AfterPass(p)
          \/ UNCHANGED my /\ (Goto(p, "close") \/ Goto(p, "lend"))
      BY <1>11 DEF Note, Lend, Close
    <2>3. CASE AfterPass(p)
      BY <2>1, <2>3, AfterPassFacts, CompletedQuiet
         DEF CompletedInv, PastCreate
    <2>4. CASE UNCHANGED my /\ (Goto(p, "close") \/ Goto(p, "lend"))
      BY <2>1, <2>4, CompletedQuiet DEF CompletedInv, Goto, TypeOK
    <2> QED
      BY <2>2, <2>3, <2>4
  <1>12. CASE Attach(p)
    <2>1. UNCHANGED <<container, record, result>> /\ pc[p] \in PastCreate
      BY <1>12 DEF Attach, devpodVars, PastCreate
    <2>2. End(p) \/ (Goto(p, "session") /\ UNCHANGED my)
      BY <1>12 DEF Attach
    <2>3. CASE End(p)
      BY <2>1, <2>3, EndFacts, CompletedQuiet DEF CompletedInv, PastCreate
    <2>4. CASE Goto(p, "session") /\ UNCHANGED my
      BY <2>1, <2>4, CompletedQuiet DEF CompletedInv, Goto, TypeOK
    <2> QED
      BY <2>2, <2>3, <2>4
  <1> QED
    BY <1>1, <1>2, <1>3, <1>4, <1>5, <1>6, <1>7, <1>8, <1>9, <1>10, <1>11,
       <1>12 DEF Advance

LEMMA CompletedStep == TypeOK /\ CompletedInv /\ [Next]_vars => CompletedInv'
  <1> SUFFICES ASSUME TypeOK, CompletedInv, [Next]_vars PROVE CompletedInv'
    OBVIOUS
  <1>1. CASE UNCHANGED vars
    BY <1>1 DEF vars, devpodVars, CompletedInv
  <1>2. ASSUME NEW p \in Process, NEW verb \in Verbs, NEW more \in BOOLEAN,
               NEW place \in Place, BeginLaunch(p, verb, more, place)
        PROVE  CompletedInv'
    <2>1. /\ UNCHANGED <<container, record, result>>
          /\ place = "running" => record
      BY <1>2 DEF BeginLaunch, devpodVars
    <2>2. /\ pc'[p] = "placed" /\ my'[p].place = place
          /\ \A q \in Process : q # p => pc'[q] = pc[q] /\ my'[q] = my[q]
      BY <1>2 DEF BeginLaunch, Goto, TypeOK
    <2> QED
      BY <2>1, <2>2 DEF CompletedInv, PastCreate
  <1>3. ASSUME NEW p \in Process, Leave(p) \/ Crash(p)
        PROVE  CompletedInv'
    <2>1. UNCHANGED <<container, record, result>> /\ End(p)
      BY <1>3 DEF Leave, Crash, Broken, devpodVars
    <2> QED
      BY <2>1, EndFacts, CompletedQuiet DEF CompletedInv, PastCreate
  <1>4. CASE ForeignUp
    <2> PICK rebuild \in BOOLEAN : Building(Foreign, rebuild)
      BY <1>4 DEF ForeignUp
    <2>1. UNCHANGED <<pc, my>> /\ record' = TRUE /\ result' = result
      BY <1>4, BuildingFacts DEF ForeignUp
    <2> QED
      BY <2>1, CompletedQuiet
  <1>5. CASE UnattendedUpEnds
    <2>1. UNCHANGED <<container, record, pc, my>>
          /\ (result' = result \/ result' # 0)
      BY <1>5, BuiltFacts DEF UnattendedUpEnds, Built, Broken
    <2> QED
      BY <2>1, CompletedQuiet DEF CompletedInv
  <1> QED
    BY <1>1, <1>2, <1>3, <1>4, <1>5, CompletedAdvance DEF Next

\* No session but a dotfiles update opens in a container whose create never
\* completed, however the launch came to find it running: it was so when the
\* launch was placed, or a sibling it waited for left it so.
THEOREM SessionsAreCompleted == Spec => []AttachedIsCompleted
  <1>1. CompletedInv => AttachedIsCompleted
    BY DEF CompletedInv, AttachedIsCompleted, PastCreate
  <1> QED
    BY <1>1, TypeInit, TypeStep, CompletedInit, CompletedStep, PTL DEF Spec

(***************************************************************************)
(* A pass has its record until it gets through.                            *)
(***************************************************************************)

\* While passes come one at a time, whatever has begun over the standing result is
\* recorded, and nothing has where a launch carries an older stamp down its pass.
CutInv ==
    overlap # "passes" =>
        /\ Alone(Passing)
        /\ \A p \in Passing : my[p].obs # result => ~begun
        /\ CutShortIsRecorded

\* Two passes that have overlapped once count as overlapped for good.
LEMMA OverlapStep ==
    ASSUME overlap' = Overlaps(overlap), overlap' # "passes"
    PROVE  overlap # "passes" /\ Alone(Passing')
  BY DEF Overlaps

\* A step that leaves the result and the records alone, and starts passes only over
\* the result that is there.
LEMMA CutQuiet ==
    ASSUME CutInv, overlap' = Overlaps(overlap),
           UNCHANGED <<result, inFlight, begun, ended>>,
           \A q \in Passing' : \/ q \in Passing /\ my'[q].obs = my[q].obs
                               \/ my'[q].obs = result
    PROVE  CutInv'
  <1> SUFFICES ASSUME overlap' # "passes"
               PROVE  /\ Alone(Passing')
                      /\ \A q \in Passing' : my'[q].obs # result' => ~begun'
                      /\ CutShortIsRecorded'
    BY DEF CutInv, Alone
  <1>1. overlap # "passes" /\ Alone(Passing')
    BY OverlapStep
  <1> QED
    BY <1>1 DEF CutInv, CutShortIsRecorded

\* An `up` that completes opens the count of passes over its own result.
LEMMA CutBuilt ==
    ASSUME overlap' = Overlaps(overlap), Built
    PROVE  CutInv'
  <1>1. begun' = FALSE
    BY DEF Built
  <1> QED
    BY <1>1, OverlapStep DEF CutInv, CutShortIsRecorded, Alone

\* The two steps that write the record.
LEMMA CutBegin ==
    ASSUME TypeOK, CutInv, overlap' = Overlaps(overlap),
           NEW p \in Process, BeginPass(p)
    PROVE  CutInv'
  <1> SUFFICES ASSUME overlap' # "passes"
               PROVE  /\ Alone(Passing')
                      /\ \A q \in Passing' : my'[q].obs # result' => ~begun'
                      /\ CutShortIsRecorded'
    BY DEF CutInv, Alone
  <1>1. overlap # "passes" /\ Alone(Passing')
    BY OverlapStep
  <1>2. /\ result' = result /\ my' = my /\ ended' = ended
        /\ inFlight' = IF my[p].obs # 0 THEN my[p].obs ELSE inFlight
        /\ begun' = (begun \/ (my[p].obs # 0 /\ my[p].obs = result))
    BY DEF BeginPass, devpodVars
  <1>3. p \in Passing /\ p \in Passing'
    BY DEF BeginPass, Goto, Passing, TypeOK
  <1>4. my[p].obs # result => ~begun
    BY <1>1, <1>3 DEF CutInv
  <1>5. \A q \in Passing' : q = p
    BY <1>1, <1>3 DEF Alone
  <1>6. \A q \in Passing' : my'[q].obs # result' => ~begun'
    BY <1>2, <1>4, <1>5
  <1>7. CutShortIsRecorded'
    BY <1>1, <1>2, <1>4 DEF CutInv, CutShortIsRecorded
  <1> QED
    BY <1>1, <1>6, <1>7

LEMMA CutClose ==
    ASSUME TypeOK, CutInv, overlap' = Overlaps(overlap),
           NEW p \in Process, Close(p)
    PROVE  CutInv'
  <1> SUFFICES ASSUME overlap' # "passes"
               PROVE  /\ Alone(Passing')
                      /\ \A q \in Passing' : my'[q].obs # result' => ~begun'
                      /\ CutShortIsRecorded'
    BY DEF CutInv, Alone
  <1>1. overlap # "passes" /\ Alone(Passing')
    BY OverlapStep
  <1>2. /\ result' = result /\ inFlight' = 0 /\ begun' = begun
        /\ ended' = (ended \/ (my[p].obs # 0 /\ my[p].obs = result))
    BY DEF Close, devpodVars
  <1>3. p \in Passing
    BY DEF Close, Passing
  <1>4. my[p].obs # result => ~begun
    BY <1>1, <1>3 DEF CutInv
  <1>5. \A q \in Passing' : q \in Passing /\ my'[q] = my[q]
    BY AfterPassFacts DEF Close, Passing
  <1>6. \A q \in Passing' : my'[q].obs # result' => ~begun'
    BY <1>1, <1>2, <1>5 DEF CutInv
  <1>7. CutShortIsRecorded'
    BY <1>2, <1>4 DEF CutShortIsRecorded
  <1> QED
    BY <1>1, <1>6, <1>7

LEMMA CutAdvance ==
    ASSUME TypeOK, CutInv, overlap' = Overlaps(overlap),
           NEW p \in Process, Advance(p)
    PROVE  CutInv'
  <1>1. CASE \/ FastPath(p) \/ FinishTheInterruptedPass(p) \/ BringUp(p)
             \/ Restart(p) \/ Dotfiles(p) \/ WalkIn(p) \/ Queue(p) \/ Wake(p)
             \/ LockUnavailable(p) \/ Recheck(p)
    <2>1. UNCHANGED <<result, inFlight, begun, ended, my>>
      BY <1>1
      DEF FastPath, FinishTheInterruptedPass, BringUp, Restart, Dotfiles, WalkIn,
          Queue, Wake, LockUnavailable, Recheck, devpodVars, hostVars, history
    <2>2. pc'[p] \notin {"begin", "probe", "note", "lend", "close"}
          /\ \A q \in Process : q # p => pc'[q] = pc[q]
      BY <1>1
      DEF FastPath, FinishTheInterruptedPass, BringUp, Restart, Dotfiles, WalkIn,
          Queue, Wake, LockUnavailable, Recheck, Goto, TypeOK
    <2> QED
      BY <2>1, <2>2, CutQuiet DEF Passing
  <1>2. CASE Stop(p) \/ SweepOrphans(p) \/ UpRefused(p) \/ Attach(p)
    <2>1. UNCHANGED <<result, inFlight, begun, ended>>
      BY <1>2
      DEF Stop, SweepOrphans, UpRefused, Attach, Broken, devpodVars, hostVars,
          history
    <2>2. \/ End(p) \/ UNCHANGED <<pc, my>>
          \/ UNCHANGED my /\ (Goto(p, "serialize") \/ Goto(p, "session"))
      BY <1>2 DEF Stop, SweepOrphans, UpRefused, Attach
    <2>3. CASE End(p)
      BY <2>1, <2>3, EndFacts, CutQuiet DEF Passing
    <2>4. CASE UNCHANGED <<pc, my>>
      BY <2>1, <2>4, CutQuiet DEF Passing
    <2>5. CASE UNCHANGED my /\ (Goto(p, "serialize") \/ Goto(p, "session"))
      BY <2>1, <2>5, CutQuiet DEF Passing, Goto, TypeOK
    <2> QED
      BY <2>2, <2>3, <2>4, <2>5
  <1>3. CASE UpStarts(p)
    <2>1. Building(p, my[p].verb = "rebuild")
      BY <1>3, Zenon DEF UpStarts
    <2>2. result' = result
      BY <2>1, BuildingFacts
    <2>3. UNCHANGED <<inFlight, begun, ended, my>> /\ Goto(p, "upping")
      BY <1>3 DEF UpStarts, hostVars, history
    <2> QED
      BY <2>2, <2>3, CutQuiet DEF Passing, Goto, TypeOK
  <1>4. CASE UpSucceeds(p)
    BY <1>4, CutBuilt DEF UpSucceeds
  <1>5. CASE TopUp(p) \/ Observe(p)
    <2>1. UNCHANGED <<result, inFlight, begun, ended>> /\ result \in Stamp
      BY <1>5 DEF TopUp, Observe, devpodVars, hostVars, history, TypeOK
    <2>2. \/ UNCHANGED my /\ Goto(p, "observe")
          \/ my' = [my EXCEPT ![p].obs = result]
             /\ (Goto(p, "begin") \/ Goto(p, "close"))
      BY <1>5 DEF TopUp, Observe
    <2>3. CASE UNCHANGED my /\ Goto(p, "observe")
      BY <2>1, <2>3, CutQuiet DEF Passing, Goto, TypeOK
    <2>4. CASE my' = [my EXCEPT ![p].obs = result]
               /\ (Goto(p, "begin") \/ Goto(p, "close"))
      <3>1. \A q \in Process : q # p => pc'[q] = pc[q] /\ my'[q] = my[q]
        BY <2>1, <2>4, ObsFacts DEF Goto, TypeOK
      <3>2. my'[p].obs = result
        BY <2>1, <2>4, ObsFacts
      <3> QED
        BY <2>1, <3>1, <3>2, CutQuiet DEF Passing
    <2> QED
      BY <2>2, <2>3, <2>4
  <1>6. CASE BeginPass(p)
    BY <1>6, CutBegin
  <1>7. CASE Probe(p)
    <2>1. UNCHANGED <<result, inFlight, begun, ended>> /\ p \in Passing
      BY <1>7 DEF Probe, devpodVars, hostVars, history, Passing
    <2>2. PICK found \in Found \ {"none"} : my' = [my EXCEPT ![p].found = found]
      BY <1>7 DEF Probe
    <2>3. \A q \in Process : my'[q].obs = my[q].obs /\ (q # p => pc'[q] = pc[q])
      BY <1>7, <2>2, FoundFacts DEF Probe, Goto, TypeOK
    <2> QED
      BY <2>1, <2>3, CutQuiet DEF Passing
  <1>8. CASE Note(p) \/ Lend(p)
    <2>1. UNCHANGED <<result, inFlight, begun, ended>> /\ p \in Passing
      BY <1>8 DEF Note, Lend, devpodVars, history, Passing
    <2>2. \/ AfterPass(p)
          \/ UNCHANGED my /\ (Goto(p, "close") \/ Goto(p, "lend"))
      BY <1>8 DEF Note, Lend
    <2>3. CASE AfterPass(p)
      BY <2>1, <2>3, AfterPassFacts, CutQuiet DEF Passing
    <2>4. CASE UNCHANGED my /\ (Goto(p, "close") \/ Goto(p, "lend"))
      BY <2>1, <2>4, CutQuiet DEF Passing, Goto, TypeOK
    <2> QED
      BY <2>2, <2>3, <2>4
  <1>9. CASE Close(p)
    BY <1>9, CutClose
  <1> QED
    BY <1>1, <1>2, <1>3, <1>4, <1>5, <1>6, <1>7, <1>8, <1>9 DEF Advance

LEMMA CutStep == TypeOK /\ CutInv /\ [MCNext]_MCVars => CutInv'
  <1> SUFFICES ASSUME TypeOK, CutInv, [MCNext]_MCVars PROVE CutInv'
    OBVIOUS
  <1>1. CASE UNCHANGED MCVars
    <2>1. UNCHANGED <<overlap, result, inFlight, begun, ended, pc, my>>
      BY <1>1 DEF MCVars, vars, devpodVars, hostVars, history
    <2> QED
      BY <2>1 DEF CutInv, CutShortIsRecorded, Alone, Passing
  <1>2. CASE MCNext
    <2>0. overlap' = Overlaps(overlap)
      BY <1>2 DEF MCNext
    <2>1. ASSUME NEW p \in Process, NEW verb \in Verbs, NEW more \in BOOLEAN,
                 NEW place \in Place, BeginLaunch(p, verb, more, place)
          PROVE  CutInv'
      <3>1. UNCHANGED <<result, inFlight, begun, ended>>
        BY <2>1 DEF BeginLaunch, devpodVars, hostVars, history
      <3>2. /\ pc'[p] = "placed"
            /\ \A q \in Process : q # p => pc'[q] = pc[q] /\ my'[q] = my[q]
        BY <2>1 DEF BeginLaunch, Goto, TypeOK
      <3> QED
        BY <2>0, <3>1, <3>2, CutQuiet DEF Passing
    <2>2. ASSUME NEW p \in Process, Leave(p) \/ Crash(p) PROVE CutInv'
      <3>1. UNCHANGED <<result, inFlight, begun, ended>> /\ End(p)
        BY <2>2 DEF Leave, Crash, Broken, devpodVars, hostVars, history
      <3> QED
        BY <2>0, <3>1, EndFacts, CutQuiet DEF Passing
    <2>3. CASE ForeignUp
      <3> PICK rebuild \in BOOLEAN : Building(Foreign, rebuild)
        BY <2>3 DEF ForeignUp
      <3>1. UNCHANGED <<result, inFlight, begun, ended, pc, my>>
        BY <2>3, BuildingFacts DEF ForeignUp, hostVars, history
      <3> QED
        BY <2>0, <3>1, CutQuiet DEF Passing
    <2>4. CASE UnattendedUpEnds
      <3>1. CASE Built
        BY <2>0, <3>1, CutBuilt
      <3>2. CASE Broken(Nobody)
        <4>1. UNCHANGED <<result, inFlight, begun, ended, pc, my>>
          BY <2>4, <3>2 DEF UnattendedUpEnds, Broken, hostVars, history
        <4> QED
          BY <2>0, <4>1, CutQuiet DEF Passing
      <3> QED
        BY <2>4, <3>1, <3>2 DEF UnattendedUpEnds
    <2> QED
      BY <1>2, <2>0, <2>1, <2>2, <2>3, <2>4, CutAdvance DEF MCNext, Next
  <1> QED
    BY <1>1, <1>2

\* While no two passes overlap, a pass over the container standing now has its
\* record from begin_pass until one gets through, whichever trip failed, whoever was
\* killed and whatever `up` ran under it: the next attach finds what was cut short.
THEOREM PassesAreRecorded == MCSpec => []CutShortIsFound
  <1>1. MCInit => TypeOK /\ CutInv
    <2> SUFFICES ASSUME MCInit PROVE TypeOK /\ CutInv
      OBVIOUS
    <2>1. Init /\ begun = FALSE /\ pc = [p \in Process |-> "idle"]
      BY DEF MCInit, Init
    <2>2. Passing = {}
      BY <2>1 DEF Passing
    <2> QED
      BY <2>1, <2>2, TypeInit DEF CutInv, CutShortIsRecorded, Alone
  <1>2. [MCNext]_MCVars => [Next]_vars
    BY DEF MCNext, MCVars
  <1>3. CutInv => CutShortIsFound
    BY DEF CutInv, CutShortIsFound
  <1> QED
    BY <1>1, <1>2, <1>3, TypeStep, CutStep, PTL DEF MCSpec

(***************************************************************************)
(* A pass brings the tools in.                                             *)
(***************************************************************************)

\* What the pass's own probe found of the standing container is still so, and a pass
\* about to close under the lock leaves the tools, unless something slipped.
LandInv ==
    \A p \in Process :
        /\ /\ pc[p] = "note" /\ my[p].found = "provisioned"
           /\ my[p].obs = result /\ ~fresh
           => tools
        /\ /\ pc[p] = "close" /\ lock = p /\ my[p].obs = result
           /\ container = "Running" /\ ~fresh /\ ~slipped
           => tools

\* A step that starts no container and takes no tools, and of which whoever comes to
\* note or to close has the tools to show.
LEMMA LandQuiet ==
    ASSUME LandInv, slipped' = Slips(slipped), UNCHANGED <<result, fresh>>,
           tools => tools', container' = "Running" => container = "Running",
           \A q \in Process : pc'[q] = "note" =>
               \/ pc[q] = "note" /\ my'[q] = my[q]
               \/ my'[q].found = "provisioned" => tools',
           \A q \in Process : pc'[q] = "close" /\ lock' = q =>
               \/ pc[q] = "close" /\ lock = q /\ my'[q] = my[q]
               \/ my'[q].obs = result /\ container' = "Running" /\ ~fresh
                  /\ ~slipped' => tools'
    PROVE  LandInv'
  <1>1. \A q \in Process : pc'[q] = "close" /\ ~slipped' => ~slipped
    BY DEF Slips
  <1> QED
    BY <1>1 DEF LandInv

\* An `up` that starts leaves the tools in the container it finds, or makes a new one
\* whose create has to complete first; and the holder of the launch lock, who is past
\* its own `up`, has not run this one.
LEMMA LandBuilding ==
    ASSUME TypeOK, LandInv, slipped' = Slips(slipped),
           NEW owner, NEW rebuild, Building(owner, rebuild), UNCHANGED <<lock, my>>,
           \A q \in Process : pc'[q] \in {"note", "close"} =>
               pc[q] = pc'[q] /\ q # owner
    PROVE  LandInv'
  <1>1. /\ devpod' = owner /\ result' = result /\ container' = "Running"
        /\ fresh => fresh'
        /\ fresh' \/ (tools' <=> tools)
    BY BuildingFacts
  <1>2. SUFFICES ASSUME ~fresh', NEW q \in Process,
                        \/ pc'[q] = "note" /\ my'[q].found = "provisioned"
                        \/ pc'[q] = "close" /\ lock' = q /\ ~slipped',
                        my'[q].obs = result'
                 PROVE  tools'
    BY DEF LandInv
  <1>5. ~fresh /\ (tools => tools') /\ my'[q] = my[q] /\ pc[q] = pc'[q]
    <2>1. ~fresh /\ (tools => tools')
      BY <1>1, <1>2, Zenon
    <2>2. my' = my /\ pc[q] = pc'[q]
      BY <1>2
    <2> QED
      BY <2>1, <2>2, Zenon
  <1>3. CASE pc'[q] = "note" /\ my'[q].found = "provisioned"
    <2>1. tools
      BY <1>1, <1>2, <1>3, <1>5 DEF LandInv
    <2> QED
      BY <1>5, <2>1
  <1>4. CASE pc'[q] = "close" /\ lock' = q /\ ~slipped'
    <2>1. container = "Running" /\ ~slipped
      BY <1>1, <1>4 DEF Slips, Unheld
    <2>2. tools
      BY <1>1, <1>2, <1>4, <1>5, <2>1 DEF LandInv
    <2> QED
      BY <1>5, <2>2
  <1> QED
    BY <1>2, <1>3, <1>4

\* An `up` that completes outdates every observation made before.
LEMMA LandBuilt ==
    ASSUME TypeOK, EarnedInv, Built, UNCHANGED my
    PROVE  LandInv'
  <1>1. /\ result \in Nat /\ result' \in Nat /\ result' > result
        /\ \A q \in Process : my[q].obs \in Nat
    BY BuiltFacts, StampsAreNat DEF Stamp
  <1>2. \A q \in Process : my'[q].obs # result'
    BY <1>1 DEF EarnedInv
  <1> QED
    BY <1>2 DEF LandInv

LEMMA LandAdvance ==
    ASSUME TypeOK, EarnedInv, LandInv, slipped' = Slips(slipped),
           NEW p \in Process, Advance(p)
    PROVE  LandInv'
  <1>1. CASE \/ FastPath(p) \/ FinishTheInterruptedPass(p) \/ BringUp(p)
             \/ Restart(p) \/ Dotfiles(p) \/ WalkIn(p) \/ Queue(p) \/ Wake(p)
             \/ LockUnavailable(p) \/ Recheck(p) \/ BeginPass(p)
    <2>1. UNCHANGED <<container, result, tools, fresh, my>>
      BY <1>1
      DEF FastPath, FinishTheInterruptedPass, BringUp, Restart, Dotfiles, WalkIn,
          Queue, Wake, LockUnavailable, Recheck, BeginPass, devpodVars, hostVars
    <2>2. \A q \in Process : pc'[q] \in {"note", "close"} => q # p /\ pc'[q] = pc[q]
      BY <1>1
      DEF FastPath, FinishTheInterruptedPass, BringUp, Restart, Dotfiles, WalkIn,
          Queue, Wake, LockUnavailable, Recheck, BeginPass, Goto, TypeOK
    <2>3. lock' \in {lock, p}
      BY <1>1
      DEF FastPath, FinishTheInterruptedPass, BringUp, Restart, Dotfiles, WalkIn,
          Queue, Wake, LockUnavailable, Recheck, BeginPass, hostVars
    <2> QED
      BY <2>1, <2>2, <2>3, LandQuiet
  <1>2. CASE Stop(p) \/ Attach(p) \/ UpRefused(p) \/ SweepOrphans(p)
    <2>1. UNCHANGED <<result, tools, fresh>>
          /\ (container' = "Running" => container = "Running")
      BY <1>2
      DEF Stop, Attach, UpRefused, SweepOrphans, Broken, devpodVars, hostVars
    <2>2. \/ End(p) \/ UNCHANGED <<pc, my>>
          \/ UNCHANGED my /\ (Goto(p, "serialize") \/ Goto(p, "session"))
      BY <1>2 DEF Stop, Attach, UpRefused, SweepOrphans
    <2>3. \A q \in Process : pc'[q] \in {"note", "close"} =>
              pc[q] = pc'[q] /\ my'[q] = my[q]
      BY <2>2, EndFacts DEF Goto, TypeOK
    <2>4. lock' = lock \/ lock' = Nobody
      BY <1>2 DEF Stop, Attach, UpRefused, SweepOrphans, Unlock, hostVars
    <2> QED
      BY <2>1, <2>3, <2>4, LandQuiet, HoldersAssumption
  <1>3. CASE UpStarts(p)
    <2>1. Building(p, my[p].verb = "rebuild") /\ UNCHANGED <<lock, my>>
      BY <1>3, Zenon DEF UpStarts, hostVars
    <2>2. \A q \in Process : pc'[q] \in {"note", "close"} => pc[q] = pc'[q] /\ q # p
      BY <1>3 DEF UpStarts, Goto, TypeOK
    <2> QED
      BY <2>1, <2>2, LandBuilding, Zenon
  <1>4. CASE UpSucceeds(p)
    BY <1>4, LandBuilt DEF UpSucceeds
  <1>5. CASE TopUp(p)
    <2>1. UNCHANGED <<container, result, tools, fresh, lock>> /\ result \in Stamp
      BY <1>5 DEF TopUp, devpodVars, hostVars, TypeOK
    <2>2. CASE Trusted
      <3>1. my' = [my EXCEPT ![p].obs = result] /\ Goto(p, "close")
        BY <1>5, <2>2 DEF TopUp
      <3>2. \A q \in Process : q # p => pc'[q] = pc[q] /\ my'[q] = my[q]
        BY <2>1, <3>1, ObsFacts DEF Goto, TypeOK
      <3>3. pc'[p] = "close"
        BY <3>1 DEF Goto, TypeOK
      <3>4. ~fresh => tools'
        BY <2>1, <2>2 DEF Trusted, EarnedInv
      <3> QED
        BY <2>1, <3>2, <3>3, <3>4, LandQuiet
    <2>3. CASE ~Trusted
      <3>1. UNCHANGED my /\ Goto(p, "observe")
        BY <1>5, <2>3 DEF TopUp
      <3> QED
        BY <2>1, <3>1, LandQuiet DEF Goto, TypeOK
    <2> QED
      BY <2>2, <2>3
  <1>6. CASE Observe(p)
    <2>1. UNCHANGED <<container, result, tools, fresh, lock>> /\ result \in Stamp
      BY <1>6 DEF Observe, devpodVars, hostVars, TypeOK
    <2>2. my' = [my EXCEPT ![p].obs = result] /\ Goto(p, "begin")
      BY <1>6 DEF Observe
    <2>3. /\ \A q \in Process : q # p => pc'[q] = pc[q] /\ my'[q] = my[q]
          /\ pc'[p] = "begin"
      BY <2>1, <2>2, ObsFacts DEF Goto, TypeOK
    <2> QED
      BY <2>1, <2>3, LandQuiet
  <1>7. CASE Probe(p)
    <2> PICK found \in Found \ {"none"} :
          /\ found = "provisioned" => container = "Running" /\ tools
          /\ my' = [my EXCEPT ![p].found = found]
      BY <1>7 DEF Probe
    <2>1. UNCHANGED <<container, result, tools, fresh, lock>>
      BY <1>7 DEF Probe, devpodVars, hostVars
    <2>2. \A q \in Process : q # p => pc'[q] = pc[q] /\ my'[q] = my[q]
      BY <1>7, FoundFacts DEF Probe, Goto, TypeOK
    <2>3. pc'[p] = "note" /\ my'[p].found = found
      BY <1>7, FoundFacts DEF Probe, Goto, TypeOK
    <2> QED
      BY <2>1, <2>2, <2>3, LandQuiet
  <1>8. CASE Note(p)
    <2>1. UNCHANGED <<container, result, tools, fresh>> /\ pc[p] = "note"
      BY <1>8 DEF Note, devpodVars
    <2>2. CASE my[p].found = "refused"
      <3>1. AfterPass(p)
        BY <1>8, <2>2 DEF Note
      <3> QED
        BY <2>1, <3>1, AfterPassFacts, LandQuiet, HoldersAssumption
    <2>3. CASE my[p].found # "refused"
      <3>1. UNCHANGED <<lock, my>>
            /\ Goto(p, IF my[p].found = "provisioned" THEN "close" ELSE "lend")
        BY <1>8, <2>3 DEF Note
      <3>2. /\ \A q \in Process : q # p => pc'[q] = pc[q]
            /\ pc'[p] = IF my[p].found = "provisioned" THEN "close" ELSE "lend"
        BY <3>1 DEF Goto, TypeOK
      <3>3. pc'[p] = "close" /\ my'[p].obs = result /\ ~fresh => tools'
        BY <2>1, <3>1, <3>2 DEF LandInv
      <3> QED
        BY <2>1, <3>1, <3>2, <3>3, LandQuiet
    <2> QED
      BY <2>2, <2>3
  <1>9. CASE Lend(p)
    <2>1. UNCHANGED <<container, result, fresh>> /\ (tools => tools')
          /\ pc[p] = "lend"
      BY <1>9 DEF Lend
    <2>2. CASE AfterPass(p)
      BY <2>1, <2>2, AfterPassFacts, LandQuiet, HoldersAssumption
    <2>3. CASE Goto(p, "close") /\ UNCHANGED <<lock, my>>
      <3>1. pc'[p] = "close" /\ \A q \in Process : q # p => pc'[q] = pc[q]
        BY <2>3 DEF Goto, TypeOK
      <3>2. container' = "Running" /\ ~slipped' => tools'
        BY <2>1, <3>1 DEF Slips, LostTrip
      <3> QED
        BY <2>1, <2>3, <3>1, <3>2, LandQuiet
    <2> QED
      BY <1>9, <2>2, <2>3 DEF Lend
  <1>10. CASE Close(p)
    <2>1. UNCHANGED <<container, result, tools, fresh>> /\ AfterPass(p)
      BY <1>10 DEF Close, devpodVars
    <2> QED
      BY <2>1, AfterPassFacts, LandQuiet, HoldersAssumption
  <1> QED
    BY <1>1, <1>2, <1>3, <1>4, <1>5, <1>6, <1>7, <1>8, <1>9, <1>10 DEF Advance

LEMMA LandStep == TypeOK /\ EarnedInv /\ LandInv /\ [MCNext]_MCVars => LandInv'
  <1> SUFFICES ASSUME TypeOK, EarnedInv, LandInv, [MCNext]_MCVars PROVE LandInv'
    OBVIOUS
  <1>1. CASE UNCHANGED MCVars
    <2>1. UNCHANGED <<slipped, container, result, tools, fresh, lock, pc, my>>
      BY <1>1 DEF MCVars, vars, devpodVars, hostVars
    <2> QED
      BY <2>1 DEF LandInv
  <1>2. CASE MCNext
    <2>0. slipped' = Slips(slipped)
      BY <1>2 DEF MCNext
    <2>1. ASSUME NEW p \in Process, NEW verb \in Verbs, NEW more \in BOOLEAN,
                 NEW place \in Place, BeginLaunch(p, verb, more, place)
          PROVE  LandInv'
      <3>1. UNCHANGED <<container, result, tools, fresh, lock>>
        BY <2>1 DEF BeginLaunch, devpodVars, hostVars
      <3>2. /\ pc'[p] = "placed"
            /\ \A q \in Process : q # p => pc'[q] = pc[q] /\ my'[q] = my[q]
        BY <2>1 DEF BeginLaunch, Goto, TypeOK
      <3> QED
        BY <2>0, <3>1, <3>2, LandQuiet
    <2>2. ASSUME NEW p \in Process, Leave(p) \/ Crash(p) PROVE LandInv'
      <3>1. UNCHANGED <<container, result, tools, fresh>> /\ End(p)
        BY <2>2 DEF Leave, Crash, Broken, devpodVars
      <3>2. lock' = lock \/ lock' = Nobody
        BY <2>2 DEF Leave, Crash, Unlock, hostVars
      <3> QED
        BY <2>0, <3>1, <3>2, EndFacts, LandQuiet, HoldersAssumption
    <2>3. CASE ForeignUp
      <3> PICK rebuild \in BOOLEAN : Building(Foreign, rebuild)
        BY <2>3 DEF ForeignUp
      <3>1. UNCHANGED <<lock, pc, my>>
        BY <2>3 DEF ForeignUp, hostVars
      <3> QED
        BY <2>0, <3>1, LandBuilding, HoldersAssumption
    <2>4. CASE UnattendedUpEnds
      <3>1. UNCHANGED <<lock, pc, my>>
        BY <2>4 DEF UnattendedUpEnds, hostVars
      <3>2. CASE Built
        BY <3>1, <3>2, LandBuilt
      <3>3. CASE Broken(Nobody)
        BY <2>0, <3>1, <3>3, LandQuiet DEF Broken
      <3> QED
        BY <2>4, <3>2, <3>3 DEF UnattendedUpEnds
    <2> QED
      BY <1>2, <2>1, <2>2, <2>3, <2>4, LandAdvance, <2>0 DEF MCNext, Next
  <1> QED
    BY <1>1, <1>2

\* A launch that closes a pass over the standing container while it holds the launch
\* lock leaves the tools in it: whichever launch ran the `up`, whoever was killed and
\* whatever was rebuilt meanwhile, unless the container was started without the lock
\* under the pass or the pass's last trip was lost.
THEOREM PassesBringTheTools == MCSpec => []PassBringsTools
  <1>1. MCInit => TypeOK /\ EarnedInv /\ LandInv
    <2> SUFFICES ASSUME MCInit PROVE TypeOK /\ EarnedInv /\ LandInv
      OBVIOUS
    <2>1. Init /\ pc = [p \in Process |-> "idle"]
      BY DEF MCInit, Init
    <2> QED
      BY <2>1, TypeInit, EarnedInit DEF LandInv
  <1>2. [MCNext]_MCVars => [Next]_vars
    BY DEF MCNext, MCVars
  <1>3. LandInv => PassBringsTools
    BY DEF LandInv, PassBringsTools, ToolsLand
  <1> QED
    BY <1>1, <1>2, <1>3, TypeStep, EarnedStep, LandStep, PTL DEF MCSpec
=============================================================================
