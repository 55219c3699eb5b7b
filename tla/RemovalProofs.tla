---------------------------- MODULE RemovalProofs ----------------------------
(***************************************************************************)
(* Theorems about machines of MCRemoval, each for every value of its       *)
(* constants.  The guard of a removal (Unsaved), for every history of      *)
(* commits and every set of branches, tags and other refs: the types, that *)
(* what the cache reaches was published, that a removal that was not       *)
(* insisted on takes no only copy, that an untouched clone is refused for  *)
(* its tags alone, and that what the refusal owes to tags is.  The sweep   *)
(* of a workspace's holders (Kill): whom its readings name, and who came   *)
(* after the last of them.  The volumes of removed workspaces (Volumes):   *)
(* one dl with crashes over any workspaces, and any dls over one.  The     *)
(* agent worktrees of two levels of places (Worktrees).  Reconcile, prune, *)
(* launch and rm over the clones of any tree (Reconcile).  The workspaces  *)
(* that names lead to, for any ids they derive and derived (Addressing).   *)
(***************************************************************************)
EXTENDS Naturals, Sequences, FiniteSets, MCRemoval, FiniteSetTheorems, TLAPS

(***************************************************************************)
(* A behaviour is of one machine, and its steps are that machine's.        *)
(***************************************************************************)
LEMMA StartsAsOne ==
    Init => /\ part = "kill"    => Ki!Init
            /\ part = "names"   => Vn!Init
            /\ part = "races"   => Vr!Init
            /\ part = "worktrees" => Wt!Init
            /\ part = "clones" => Rc!Init
            /\ part = "unsaved" => Un!Init
            /\ part = "addresses" => Na!Init
  BY Zenon DEF Init, InitKi, InitVn, InitVr, InitWt, InitRc, InitUn, InitNa

LEMMA StepsAsOne ==
    [Next]_vars => /\ part' = part
                   /\ part = "kill"    => [Ki!Next]_Ki!vars
                   /\ part = "names"   => [Vn!Next]_Vn!vars
                   /\ part = "races"   => [Vr!Next]_Vr!vars
                   /\ part = "worktrees" => [Wt!Next]_Wt!vars
                   /\ part = "clones" => [Rc!Next]_Rc!vars
                   /\ part = "unsaved" => [Un!Next]_Un!vars
                   /\ part = "addresses" => [Na!Next]_Na!vars
  <1>1. CASE Next
    BY <1>1, Zenon DEF Next, StepKi, StepVn, StepVr, StepWt, StepRc, StepUn, StepNa
  <1>2. CASE UNCHANGED vars
    <2>1. part' = part /\ UNCHANGED Ki!vars /\ UNCHANGED Un!vars
      BY <1>2 DEF vars, ofKill, ofKillVolumes,
         ofKillVolumesWorktreesReconcileUnsavedAddressing, ofKillVolumesWorktreesUnsaved,
         ofKillWorktreesUnsaved, ofVolumesReconcileUnsavedAddressing, ofReconcileUnsaved,
         ofUnsaved, ofUnsavedAddressing, Ki!vars, Ki!host, Un!vars, Un!world, Un!history,
         Un!counts
    <2>2. UNCHANGED Vn!vars /\ UNCHANGED Vr!vars
      BY <1>2 DEF vars, ofKillVolumes, ofKillVolumesWorktreesReconcileUnsavedAddressing,
         ofKillVolumesWorktreesUnsaved, ofVolumes, ofVolumesReconcileUnsavedAddressing,
         ofVolumesReconcile, ofVolumesReconcileAddressing,
         Vn!vars, Vn!devpod, Vn!counts, Vr!vars, Vr!devpod, Vr!counts
    <2>3. UNCHANGED Wt!vars
      BY <1>2 DEF vars, ofKillVolumesWorktreesReconcileUnsavedAddressing,
         ofKillVolumesWorktreesUnsaved, ofKillWorktreesUnsaved, ofWorktrees,
         Wt!vars, Wt!world, Wt!run
    <2>4. UNCHANGED Rc!vars
      BY <1>2 DEF vars, ofKillVolumesWorktreesReconcileUnsavedAddressing,
         ofVolumesReconcileUnsavedAddressing, ofVolumesReconcile,
         ofVolumesReconcileAddressing, ofReconcile, ofReconcileAddressing,
         ofReconcileUnsaved, Rc!vars, Rc!world, Rc!history, Rc!counts
    <2>5. UNCHANGED Na!vars
      BY <1>2 DEF vars, ofKillVolumesWorktreesReconcileUnsavedAddressing,
         ofVolumesReconcileUnsavedAddressing, ofVolumesReconcileAddressing,
         ofReconcileAddressing, ofUnsavedAddressing, ofAddressing, Na!vars
    <2> QED
      BY <2>1, <2>2, <2>3, <2>4, <2>5
  <1> QED
    BY <1>1, <1>2

(***************************************************************************)
(* The guard of a removal.                                                 *)
(***************************************************************************)
UnSupposed ==
    /\ Un!HistoryAssumption /\ Un!TagsAssumption
    /\ Un!NamesAssumption /\ Un!BoundsAssumption

LEMMA UnGiven == UnSupposed
  BY UnHistoryAssumption, UnTagsAssumption, UnNamesAssumption, UnBoundsAssumption
  DEF UnSupposed

(***************************************************************************)
(* The history: what a set of commits reaches.                             *)
(***************************************************************************)
LEMMA ReachGrows ==
    ASSUME NEW S, NEW T, S \subseteq T
    PROVE  Un!Reach(S) \subseteq Un!Reach(T)
  BY DEF Un!Reach

LEMMA ReachType ==
    ASSUME Un!HistoryAssumption, NEW S \in SUBSET History
    PROVE  Un!Reach(S) \subseteq History
  BY DEF Un!Reach, Un!HistoryAssumption

\* A set that holds its members' ancestors holds what its subsets reach.
LEMMA ReachWithin ==
    ASSUME NEW S, NEW T, S \subseteq T, \A c \in T : Anc[c] \subseteq T
    PROVE  Un!Reach(S) \subseteq T
  BY DEF Un!Reach

LEMMA ReachUnion ==
    ASSUME NEW S, NEW T
    PROVE  Un!Reach(S \cup T) = Un!Reach(S) \cup Un!Reach(T)
  BY DEF Un!Reach

LEMMA NamedType ==
    ASSUME NEW D, NEW S, NEW f \in [D -> Un!RefOr(S)]
    PROVE  Un!Named(f) \subseteq S
  BY DEF Un!Named, Un!RefOr

LEMMA TaggedType ==
    ASSUME Un!TagsAssumption, NEW D, NEW f \in [D -> Un!RefOr(Object)]
    PROVE  Un!Tagged(f) \subseteq History
  BY NamedType DEF Un!Tagged, Un!TagsAssumption

(***************************************************************************)
(* Type correctness.                                                       *)
(***************************************************************************)
CloneType == [at : {"none", "unreadable", "git"}, origin : {"forge", "cache"},
              refs : [Un!Ref -> Un!RefOr(History)], remotes : [Branch -> Un!RefOr(History)],
              tags : [Tag -> Un!RefOr(Object)], dirty : BOOLEAN]

MyType == [removal : Un!Removal, dirty : BOOLEAN, here : [Tag -> Un!RefOr(Object)],
           local : SUBSET Tag, unpushed : SUBSET History, owed : SUBSET History,
           verdict : Un!Verdict]

LEMMA NothingYet == Un!NoClone \in CloneType /\ Un!Untold \in MyType
  <1>1. Un!NoRefs \in [Un!Ref -> Un!RefOr(History)] /\ Un!NoHeads \in [Branch -> Un!RefOr(History)]
    BY DEF Un!NoRefs, Un!NoHeads, Un!RefOr
  <1>2. Un!NoTags \in [Tag -> Un!RefOr(Object)]
    BY DEF Un!NoTags, Un!RefOr
  <1> QED
    BY <1>1, <1>2 DEF Un!NoClone, Un!Untold, CloneType, MyType, Un!Removal, Un!Verdict

\* The flags, and the rest: the provers take them apart.
Flags == calm \in BOOLEAN /\ pristine \in BOOLEAN /\ strayed \in BOOLEAN

Rest ==
    /\ made \subseteq History /\ published \subseteq History
    /\ forge \in [heads : [Branch -> Un!RefOr(History)], tags : [Tag -> Un!RefOr(Object)]]
    /\ bare \in [ok : BOOLEAN, heads : [Branch -> Un!RefOr(History)], tags : [Tag -> Un!RefOr(Object)]]
    /\ clone \in CloneType
    /\ pc \in {"idle", "status", "tags", "vouch", "unpushed", "owed", "decided", "removing"}
    /\ my \in MyType
    /\ moves \in 0..MaxTouches /\ faults \in 0..MaxFaults

LEMMA TypeParts == Un!TypeOK <=> Flags /\ Rest
  BY DEF Un!TypeOK, Flags, Rest, CloneType, MyType

LEMMA TypeInit == ASSUME UnSupposed PROVE Un!Init => Un!TypeOK
  <1> SUFFICES ASSUME Un!Init PROVE Un!TypeOK
    OBVIOUS
  <1>1. published \subseteq History /\ made \subseteq History
    BY DEF Un!Init
  <1>2. forge \in [heads : [Branch -> Un!RefOr(History)], tags : [Tag -> Un!RefOr(Object)]]
    BY <1>1 DEF Un!Init, Un!RefOr
  <1>3. bare \in [ok : BOOLEAN, heads : [Branch -> Un!RefOr(History)],
                  tags : [Tag -> Un!RefOr(Object)]]
    BY <1>2 DEF Un!Init
  <1>4. Flags
    BY DEF Un!Init, Flags
  <1>5. Rest
    BY <1>1, <1>2, <1>3, NothingYet DEF Un!Init, Rest, UnSupposed, Un!BoundsAssumption
  <1> QED
    BY <1>4, <1>5, TypeParts

LEMMA KnownType == ASSUME UnSupposed, Un!TypeOK PROVE Un!Known \subseteq History /\ Un!Held \subseteq History
  <1>1. /\ Un!Named(clone.refs) \subseteq History
        /\ Un!Named(clone.remotes) \subseteq History
        /\ Un!Tagged(clone.tags) \subseteq History
    BY NamedType, TaggedType DEF Un!TypeOK, UnSupposed
  <1> QED
    BY <1>1, ReachType DEF Un!Known, Un!Held, UnSupposed

\* What may be done beside a removal.
LEMMA FlagsOthers == ASSUME Flags, Un!Others PROVE Flags'
  BY DEF Flags, Un!Others, Un!ForgeMoves, Un!ForgeTags, Un!Sweep, Un!Spoil, Un!Edits, Un!Fetches, Un!MakeClone,
         Un!Pushes, Un!Commits, Un!MovesRef, Un!Tags, Un!PushesTag, Un!Touch, Un!history

LEMMA RestOthers == ASSUME UnSupposed, Rest, Un!Others PROVE Rest'
  <1> USE DEF Un!Move, Un!Fault, Un!counts, CloneType
  <1>0. moves + 1 \in Nat /\ faults + 1 \in Nat
    BY DEF Rest
  <1>1. ASSUME NEW b \in Branch, NEW c \in History \cup {Un!None}, Un!ForgeMoves(b, c) PROVE Rest'
    BY <1>0, <1>1 DEF Rest, Un!ForgeMoves, Un!RefOr, Un!history, UnSupposed, Un!BoundsAssumption
  <1>2. ASSUME NEW t \in Tag, NEW o \in Object \cup {Un!None}, Un!ForgeTags(t, o) PROVE Rest'
    BY <1>0, <1>2 DEF Rest, Un!ForgeTags, Un!RefOr, Un!history, UnSupposed, Un!BoundsAssumption
  <1>3. ASSUME Un!Sweep PROVE Rest'
    <2>1. /\ moves < MaxTouches /\ moves' = moves + 1 /\ UNCHANGED faults
          /\ bare' = [bare EXCEPT !.heads = forge.heads, !.tags = forge.tags]
          /\ UNCHANGED <<made, published, forge, clone, pc, my>>
      BY <1>3 DEF Un!Sweep
    <2>2. bare' \in [ok : BOOLEAN, heads : [Branch -> Un!RefOr(History)], tags : [Tag -> Un!RefOr(Object)]]
      BY <2>1 DEF Rest
    <2> QED
      BY <1>0, <2>1, <2>2 DEF Rest, UnSupposed, Un!BoundsAssumption
  <1>4. ASSUME Un!Spoil PROVE Rest'
    <2>1. /\ faults < MaxFaults /\ faults' = faults + 1
          /\ UNCHANGED <<made, published, forge, pc, my, moves>>
          /\ \/ clone' = [clone EXCEPT !.at = "unreadable"] /\ UNCHANGED bare
             \/ bare' = [bare EXCEPT !.ok = FALSE] /\ UNCHANGED clone
      BY <1>4 DEF Un!Spoil
    <2>2. clone' \in CloneType
      BY <2>1 DEF Rest
    <2>3. bare' \in [ok : BOOLEAN, heads : [Branch -> Un!RefOr(History)], tags : [Tag -> Un!RefOr(Object)]]
      BY <2>1 DEF Rest
    <2> QED
      BY <1>0, <2>1, <2>2, <2>3 DEF Rest, UnSupposed, Un!BoundsAssumption
  <1>5. ASSUME Un!Edits PROVE Rest'
    <2>1. PICK dirty \in BOOLEAN : clone' = [clone EXCEPT !.dirty = dirty]
      BY <1>5 DEF Un!Edits
    <2>2. /\ moves < MaxTouches /\ moves' = moves + 1 /\ UNCHANGED faults
          /\ UNCHANGED <<made, published, forge, bare, pc, my>>
      BY <1>5 DEF Un!Edits, Un!Touch
    <2> QED
      BY <1>0, <2>1, <2>2 DEF Rest, UnSupposed, Un!BoundsAssumption
  <1>6. ASSUME Un!Fetches PROVE Rest'
    <2> DEFINE heads == [b \in Branch |-> IF forge.heads[b] = Un!None
                                          THEN clone.remotes[b] ELSE forge.heads[b]]
               tags  == [t \in Tag |-> IF clone.tags[t] = Un!None
                                       THEN forge.tags[t] ELSE clone.tags[t]]
    <2>1. heads \in [Branch -> Un!RefOr(History)] /\ tags \in [Tag -> Un!RefOr(Object)]
      BY DEF Rest
    <2>2. clone' = [clone EXCEPT !.remotes = heads, !.tags = tags]
      BY <1>6 DEF Un!Fetches
    <2>3. /\ moves < MaxTouches /\ moves' = moves + 1 /\ UNCHANGED faults
          /\ UNCHANGED <<made, published, forge, bare, pc, my>>
      BY <1>6 DEF Un!Fetches, Un!Touch
    <2> HIDE DEF heads, tags
    <2>4. clone' \in CloneType
      BY <2>1, <2>2 DEF Rest
    <2> QED
      BY <1>0, <2>3, <2>4 DEF Rest, UnSupposed, Un!BoundsAssumption
  <1>7. ASSUME NEW b \in Branch, Un!MakeClone(b) PROVE Rest'
    <2>1. [Un!NoRefs EXCEPT ![b] = bare.heads[b]] \in [Un!Ref -> Un!RefOr(History)]
      BY DEF Rest, Un!NoRefs, Un!RefOr
    <2> QED
      BY <1>0, <1>7, <2>1 DEF Rest, Un!MakeClone, UnSupposed, Un!BoundsAssumption
  <1>8. ASSUME NEW b \in Branch, Un!Pushes(b) PROVE Rest'
    <2>1. clone.refs[b] \in History /\ Anc[clone.refs[b]] \subseteq History
      BY <1>8 DEF Un!Pushes, Rest, Un!RefOr, Un!Ref, UnSupposed, Un!HistoryAssumption
    <2> QED
      BY <1>0, <1>8, <2>1 DEF Rest, Un!Pushes, Un!Touch, Un!RefOr, UnSupposed, Un!BoundsAssumption
  <1>9. ASSUME NEW r \in Un!Ref, NEW c \in History \cup {Un!None}, Un!Commits(r, c) PROVE Rest'
    <2>1. PICK dirty \in BOOLEAN : clone' = [clone EXCEPT !.refs[r] = c, !.dirty = dirty]
      <3>1. clone.dirty \in BOOLEAN
        BY DEF Rest
      <3> QED
        BY <1>9, <3>1 DEF Un!Commits
    <2>2. /\ moves < MaxTouches /\ moves' = moves + 1 /\ UNCHANGED faults
          /\ made' = made \cup {c} /\ c \in History
          /\ UNCHANGED <<published, forge, bare, pc, my>>
      BY <1>9 DEF Un!Commits, Un!Touch
    <2>3. clone' \in CloneType
      BY <2>1 DEF Rest, Un!RefOr
    <2> QED
      BY <1>0, <2>2, <2>3 DEF Rest, UnSupposed, Un!BoundsAssumption
  <1>10. ASSUME NEW r \in Un!Ref, NEW c \in History \cup {Un!None}, Un!MovesRef(r, c) PROVE Rest'
    BY <1>0, <1>10 DEF Rest, Un!MovesRef, Un!Touch, Un!RefOr, UnSupposed, Un!BoundsAssumption
  <1>11. ASSUME NEW t \in Tag, NEW o \in Object \cup {Un!None}, Un!Tags(t, o) PROVE Rest'
    BY <1>0, <1>11 DEF Rest, Un!Tags, Un!Touch, Un!RefOr, UnSupposed, Un!BoundsAssumption
  <1>12. ASSUME NEW t \in Tag, Un!PushesTag(t) PROVE Rest'
    <2>1. clone.tags[t] \in Object /\ Anc[Tagging[clone.tags[t]]] \subseteq History
      BY <1>12 DEF Un!PushesTag, Rest, Un!RefOr, UnSupposed, Un!HistoryAssumption, Un!TagsAssumption
    <2> QED
      BY <1>0, <1>12, <2>1 DEF Rest, Un!PushesTag, Un!Touch, Un!RefOr, UnSupposed, Un!BoundsAssumption
  <1> QED
    BY <1>1, <1>2, <1>3, <1>4, <1>5, <1>6, <1>7, <1>8, <1>9, <1>10, <1>11, <1>12 DEF Un!Others

\* The commits a set of the clone's tags names.
CommitsOf(local) == {Tagging[clone.tags[t]] : t \in local}

\* A question that resolves is answered with commits.
LEMMA AnswersType ==
    ASSUME UnSupposed, Rest, NEW local \in SUBSET Tag, Un!Resolves(local)
    PROVE  Un!Unpushed(local) \in SUBSET History /\ Un!OnlyTags(local) \in SUBSET History
  <1>1. CommitsOf(local) \subseteq History
    BY DEF CommitsOf, Un!Resolves, Rest, CloneType, Un!RefOr, UnSupposed, Un!TagsAssumption
  <1>2. Un!Named(clone.refs) \subseteq History
    BY NamedType DEF Rest, CloneType
  <1>3. /\ Un!Reach(Un!Named(clone.refs) \cup CommitsOf(local)) \subseteq History
        /\ Un!Reach(CommitsOf(local)) \subseteq History
    BY <1>1, <1>2, ReachType DEF UnSupposed
  <1> QED
    BY <1>3 DEF Un!Unpushed, Un!OnlyTags, CommitsOf

LEMMA FlagsRemoves == ASSUME Flags, Un!Removes PROVE Flags'
  BY DEF Flags, Un!Removes, Un!BeginRemove, Un!AskStatus, Un!AskTags, Un!AskCache, Un!AskUnpushed, Un!AskOwed,
         Un!Decide, Un!Remove, Un!Still

LEMMA RestRemoves == ASSUME UnSupposed, Rest, Un!Removes PROVE Rest'
  <1> DEFINE World == UNCHANGED <<made, published, forge, bare, moves>>
             Step  == pc' \in {"idle", "status", "tags", "vouch", "unpushed", "owed",
                               "decided", "removing"}
             Spent == faults' \in {faults, faults + 1} /\ faults' \in 0..MaxFaults
  <1>0. ASSUME World, Step, Spent, clone' \in CloneType, my' \in MyType PROVE Rest'
    BY <1>0 DEF Rest
  <1>1. /\ UNCHANGED faults => Spent
        /\ Un!Fault => Spent
    BY DEF Rest, Un!Fault, UnSupposed, Un!BoundsAssumption
  <1> HIDE DEF Spent
  <1>2. ASSUME NEW v \in Un!Verdict PROVE [my EXCEPT !.verdict = v] \in MyType
    BY DEF Rest, MyType
  <1>3. ASSUME NEW removal \in Un!Removal, Un!BeginRemove(removal) PROVE Rest'
    <2>1. /\ [Un!Untold EXCEPT !.removal = removal] \in MyType
          /\ [Un!Untold EXCEPT !.removal = removal, !.verdict = "nothing"] \in MyType
      BY NothingYet DEF MyType, Un!Verdict
    <2>2. World /\ clone' = clone
      BY <1>3 DEF Un!BeginRemove, Un!Still, Un!world
    <2>3. Step /\ my' \in MyType /\ (UNCHANGED faults \/ Un!Fault)
      BY <1>3, <2>1 DEF Un!BeginRemove
    <2> QED
      BY <1>0, <1>1, <2>2, <2>3 DEF Rest
  <1>4. ASSUME Un!AskStatus PROVE Rest'
    <2>1. World /\ clone' = clone
      BY <1>4 DEF Un!AskStatus, Un!Still, Un!world
    <2>2. [my EXCEPT !.dirty = clone.dirty] \in MyType
      BY DEF Rest, MyType, CloneType
    <2>3. Step /\ my' \in MyType /\ (UNCHANGED faults \/ Un!Fault)
      BY <1>4, <1>2, <2>2 DEF Un!AskStatus, Un!Refused, Un!Answer, Un!Verdict
    <2> QED
      BY <1>0, <1>1, <2>1, <2>3 DEF Rest
  <1>5. ASSUME Un!AskTags PROVE Rest'
    <2>1. World /\ clone' = clone
      BY <1>5 DEF Un!AskTags, Un!Still, Un!world
    <2>2. [my EXCEPT !.here = clone.tags] \in MyType
      BY DEF Rest, MyType, CloneType
    <2>3. Step /\ my' \in MyType /\ (UNCHANGED faults \/ Un!Fault)
      BY <1>5, <1>2, <2>2 DEF Un!AskTags, Un!Refused, Un!Answer, Un!Verdict
    <2> QED
      BY <1>0, <1>1, <2>1, <2>3 DEF Rest
  <1>6. ASSUME Un!AskCache PROVE Rest'
    <2>1. World /\ clone' = clone
      BY <1>6 DEF Un!AskCache, Un!Still, Un!world
    <2>2. ASSUME NEW fetched PROVE [my EXCEPT !.local = Un!LocalTags(fetched)] \in MyType
      <3>1. Un!LocalTags(fetched) \in SUBSET Tag
        BY DEF Un!LocalTags
      <3> QED
        BY <3>1 DEF Rest, MyType
    <2>3. Step /\ my' \in MyType /\ (UNCHANGED faults \/ Un!Fault)
      BY <1>6, <2>2 DEF Un!AskCache, Un!Go
    <2> QED
      BY <1>0, <1>1, <2>1, <2>3 DEF Rest
  <1>7. ASSUME Un!AskUnpushed PROVE Rest'
    <2>1. World /\ clone' = clone
      BY <1>7 DEF Un!AskUnpushed, Un!Still, Un!world
    <2>2. CASE Un!Resolves(my.local)
      <3>1. Un!Unpushed(my.local) \in SUBSET History
        BY <2>2, AnswersType DEF Rest, MyType
      <3>2. \A v \in Un!Verdict :
               [my EXCEPT !.unpushed = Un!Unpushed(my.local), !.verdict = v] \in MyType
        BY <3>1 DEF Rest, MyType
      <3>3. Step /\ my' \in MyType /\ (UNCHANGED faults \/ Un!Fault)
        BY <1>7, <1>2, <3>2 DEF Un!AskUnpushed, Un!Refused, Un!Answer, Un!Verdict
      <3> QED
        BY <1>0, <1>1, <2>1, <3>3 DEF Rest
    <2>3. CASE ~Un!Resolves(my.local)
      <3>1. Step /\ my' \in MyType /\ (UNCHANGED faults \/ Un!Fault)
        BY <1>7, <1>2, <2>3 DEF Un!AskUnpushed, Un!Refused, Un!Answer, Un!Verdict
      <3> QED
        BY <1>0, <1>1, <2>1, <3>1 DEF Rest
    <2> QED
      BY <2>2, <2>3
  <1>8. ASSUME Un!AskOwed PROVE Rest'
    <2>1. World /\ clone' = clone
      BY <1>8 DEF Un!AskOwed, Un!Still, Un!world
    <2>2. ASSUME Un!Resolves(my.local)
          PROVE  [my EXCEPT !.owed = Un!OnlyTags(my.local)] \in MyType
      <3>1. Un!OnlyTags(my.local) \in SUBSET History
        BY <2>2, AnswersType DEF Rest, MyType
      <3> QED
        BY <3>1 DEF Rest, MyType
    <2>3. Step /\ my' \in MyType /\ (UNCHANGED faults \/ Un!Fault)
      BY <1>8, <2>2 DEF Un!AskOwed, Un!Go, Rest
    <2> QED
      BY <1>0, <1>1, <2>1, <2>3 DEF Rest
  <1>9. ASSUME Un!Decide PROVE Rest'
    BY <1>9, <1>0, <1>1 DEF Un!Decide, Un!Still, Un!world, Rest
  <1>10. ASSUME Un!Remove PROVE Rest'
    BY <1>10, <1>0, <1>1, NothingYet DEF Un!Remove, Un!Go, Un!counts, Rest
  <1> QED
    BY <1>3, <1>4, <1>5, <1>6, <1>7, <1>8, <1>9, <1>10 DEF Un!Removes

LEMMA TypeStep == ASSUME UnSupposed PROVE Un!TypeOK /\ [Un!Next]_Un!vars => Un!TypeOK'
  <1> SUFFICES ASSUME Un!TypeOK, [Un!Next]_Un!vars PROVE Un!TypeOK'
    OBVIOUS
  <1>1. Flags /\ Rest
    BY TypeParts
  <1>2. CASE Un!Next
    <2>1. Flags' /\ Rest'
      BY <1>1, <1>2, FlagsOthers, RestOthers, FlagsRemoves, RestRemoves DEF Un!Next
    <2> QED
      BY <2>1 DEF Un!TypeOK, Flags, Rest, CloneType, MyType
  <1>3. CASE UNCHANGED Un!vars
    BY <1>3 DEF Un!vars, Un!world, Un!history, Un!counts, Un!TypeOK
  <1> QED
    BY <1>2, <1>3

\* Every step keeps every variable in its type, whatever the history of commits.
THEOREM TypeCorrect == Un!Spec => []Un!TypeOK
  BY UnGiven, TypeInit, TypeStep, PTL DEF Un!Spec

(***************************************************************************)
(* What the forge has had: whatever the forge, the cache and the clone's   *)
(* tracking refs name, it has had, and every ancestor of that with it.     *)
(***************************************************************************)
Had(f)       == \A x \in DOMAIN f : f[x] # Un!None => f[x] \in published
HadTags(f)   == \A t \in DOMAIN f : f[t] # Un!None => Tagging[f[t]] \in published

SourceInv ==
    /\ \A c \in published : Anc[c] \subseteq published
    /\ Had(forge.heads) /\ HadTags(forge.tags)
    /\ ~strayed => Had(bare.heads) /\ HadTags(bare.tags) /\ Had(clone.remotes)

LEMMA SourceInit == ASSUME UnSupposed PROVE Un!Init => SourceInv
  <1> SUFFICES ASSUME Un!Init PROVE SourceInv
    OBVIOUS
  <1>1. \A c \in published : Anc[c] \subseteq published
    BY DEF Un!Init
  <1>2. Had(forge.heads)
    BY DEF Un!Init, Had, Un!RefOr
  <1>3. HadTags(forge.tags)
    BY DEF Un!Init, HadTags, Un!RefOr
  <1>4. Had(clone.remotes)
    BY DEF Un!Init, Un!NoClone, Un!NoHeads, Had
  <1> QED
    BY <1>1, <1>2, <1>3, <1>4 DEF Un!Init, SourceInv

\* A commit with its history makes the forge's past a past still.
LEMMA PastGrows ==
    ASSUME UnSupposed, SourceInv, NEW c \in History,
           published' = published \cup Anc[c]
    PROVE  \A d \in published' : Anc[d] \subseteq published'
  BY DEF UnSupposed, Un!HistoryAssumption, SourceInv

LEMMA SourceStep ==
    ASSUME UnSupposed, Un!TypeOK, SourceInv, [Un!Next]_Un!vars
    PROVE  SourceInv'
  <1> DEFINE Grows == published \subseteq published'
  <1>1. ASSUME Grows, UNCHANGED <<forge, bare, clone>>, strayed' = strayed,
               \A c \in published' : Anc[c] \subseteq published'
        PROVE  SourceInv'
    BY <1>1 DEF SourceInv, Had, HadTags
  <1>2. CASE UNCHANGED Un!vars
    BY <1>2, <1>1 DEF Un!vars, Un!world, Un!history, SourceInv
  <1>3. ASSUME NEW b \in Branch, NEW c \in History \cup {Un!None}, Un!ForgeMoves(b, c) PROVE SourceInv'
    <2>1. \A d \in published' : Anc[d] \subseteq published'
      BY <1>3 DEF Un!ForgeMoves, SourceInv, UnSupposed, Un!HistoryAssumption, Un!NamesAssumption, Un!None
    <2>2. Grows /\ (c = Un!None \/ c \in published')
      BY <1>3 DEF Un!ForgeMoves
    <2>3. forge'.heads = [forge.heads EXCEPT ![b] = c] /\ forge'.tags = forge.tags
      BY <1>3 DEF Un!ForgeMoves, Un!TypeOK
    <2>4. UNCHANGED <<bare, clone, strayed>>
      BY <1>3 DEF Un!ForgeMoves, Un!history
    <2> QED
      BY <2>1, <2>2, <2>3, <2>4 DEF SourceInv, Had, HadTags, Un!TypeOK
  <1>4. ASSUME NEW t \in Tag, NEW o \in Object \cup {Un!None}, Un!ForgeTags(t, o) PROVE SourceInv'
    BY <1>4 DEF Un!ForgeTags, SourceInv, Had, HadTags, Un!TypeOK, Un!history
  <1>5. ASSUME Un!Sweep PROVE SourceInv'
    <2>1. /\ bare'.heads = forge.heads /\ bare'.tags = forge.tags
          /\ UNCHANGED <<published, forge, clone, strayed>>
      BY <1>5 DEF Un!Sweep, Un!TypeOK, Un!history
    <2> QED
      BY <2>1 DEF SourceInv, Had, HadTags
  <1>6. ASSUME Un!Spoil PROVE SourceInv'
    <2>1. /\ bare'.heads = bare.heads /\ bare'.tags = bare.tags /\ clone'.remotes = clone.remotes
          /\ UNCHANGED <<published, forge, strayed>>
      BY <1>6 DEF Un!Spoil, Un!TypeOK
    <2> QED
      BY <2>1 DEF SourceInv, Had, HadTags
  <1>7. ASSUME Un!Edits PROVE SourceInv'
    <2>1. clone'.remotes = clone.remotes /\ UNCHANGED <<published, forge, bare, strayed>>
      BY <1>7 DEF Un!Edits, Un!TypeOK
    <2> QED
      BY <2>1 DEF SourceInv, Had, HadTags
  <1>8. ASSUME Un!Fetches PROVE SourceInv'
    <2>1. /\ UNCHANGED <<published, forge, bare, strayed>>
          /\ clone'.remotes = [b \in Branch |-> IF forge.heads[b] = Un!None
                                                THEN clone.remotes[b] ELSE forge.heads[b]]
      BY <1>8 DEF Un!Fetches, Un!TypeOK
    <2> QED
      BY <2>1 DEF SourceInv, Had, HadTags, Un!TypeOK
  <1>9. ASSUME NEW b \in Branch, Un!MakeClone(b) PROVE SourceInv'
    <2>1. clone'.remotes = bare.heads /\ UNCHANGED <<published, forge, bare, strayed>>
      BY <1>9 DEF Un!MakeClone
    <2> QED
      BY <2>1 DEF SourceInv, Had, HadTags
  <1>10. ASSUME NEW b \in Branch, Un!Pushes(b) PROVE SourceInv'
    <2>1. clone.refs[b] \in History
      BY <1>10 DEF Un!Pushes, Un!TypeOK, Un!RefOr, Un!Ref
    <2>2. clone'.remotes = [clone.remotes EXCEPT ![b] = clone.refs[b]]
      BY <1>10 DEF Un!Pushes, Un!TypeOK
    <2>3. CASE clone.origin = "forge"
      <3>1. /\ published' = published \cup Anc[clone.refs[b]]
            /\ forge'.heads = [forge.heads EXCEPT ![b] = clone.refs[b]]
            /\ forge'.tags = forge.tags
            /\ UNCHANGED <<bare, strayed>>
        BY <1>10, <2>3 DEF Un!Pushes, Un!TypeOK
      <3>2. clone.refs[b] \in published'
        BY <2>1, <3>1 DEF UnSupposed, Un!HistoryAssumption
      <3> QED
        BY <2>1, <2>2, <3>1, <3>2, PastGrows DEF SourceInv, Had, HadTags, Un!TypeOK
    <2>4. CASE clone.origin # "forge"
      BY <1>10, <2>4 DEF Un!Pushes, SourceInv, Had, HadTags
    <2> QED
      BY <2>3, <2>4
  <1>11. ASSUME NEW r \in Un!Ref, NEW c \in History \cup {Un!None}, Un!Commits(r, c) PROVE SourceInv'
    <2>1. clone'.remotes = clone.remotes /\ UNCHANGED <<published, forge, bare, strayed>>
      BY <1>11 DEF Un!Commits, Un!TypeOK
    <2> QED
      BY <2>1 DEF SourceInv, Had, HadTags
  <1>12. ASSUME NEW r \in Un!Ref, NEW c \in History \cup {Un!None}, Un!MovesRef(r, c) PROVE SourceInv'
    <2>1. clone'.remotes = clone.remotes /\ UNCHANGED <<published, forge, bare, strayed>>
      BY <1>12 DEF Un!MovesRef, Un!TypeOK
    <2> QED
      BY <2>1 DEF SourceInv, Had, HadTags
  <1>13. ASSUME NEW t \in Tag, NEW o \in Object \cup {Un!None}, Un!Tags(t, o) PROVE SourceInv'
    <2>1. clone'.remotes = clone.remotes /\ UNCHANGED <<published, forge, bare, strayed>>
      BY <1>13 DEF Un!Tags, Un!TypeOK
    <2> QED
      BY <2>1 DEF SourceInv, Had, HadTags
  <1>14. ASSUME NEW t \in Tag, Un!PushesTag(t) PROVE SourceInv'
    <2>1. /\ clone.tags[t] \in Object /\ Tagging[clone.tags[t]] \in History
          /\ Tagging[clone.tags[t]] \in Anc[Tagging[clone.tags[t]]]
      BY <1>14 DEF Un!PushesTag, Un!TypeOK, Un!RefOr, UnSupposed, Un!TagsAssumption, Un!HistoryAssumption
    <2>2. /\ published' = published \cup Anc[Tagging[clone.tags[t]]]
          /\ forge'.tags = [forge.tags EXCEPT ![t] = clone.tags[t]]
          /\ forge'.heads = forge.heads
          /\ UNCHANGED <<bare, clone, strayed>>
      BY <1>14 DEF Un!PushesTag, Un!TypeOK
    <2> QED
      BY <2>1, <2>2, PastGrows DEF SourceInv, Had, HadTags, Un!TypeOK
  <1>15. ASSUME Un!Removes PROVE SourceInv'
    <2>1. /\ UNCHANGED <<published, forge, bare, strayed>>
          /\ clone' \in {clone, Un!NoClone}
      BY <1>15 DEF Un!Removes, Un!BeginRemove, Un!AskStatus, Un!AskTags, Un!AskCache, Un!AskUnpushed, Un!AskOwed,
                   Un!Decide, Un!Remove, Un!Still, Un!world
    <2>2. Had(Un!NoClone.remotes)
      BY DEF Un!NoClone, Un!NoHeads, Had
    <2> QED
      BY <2>1, <2>2 DEF SourceInv, Had, HadTags
  <1> QED
    BY <1>2, <1>3, <1>4, <1>5, <1>6, <1>7, <1>8, <1>9, <1>10, <1>11, <1>12, <1>13, <1>14, <1>15
    DEF Un!Next, Un!Others

LEMMA CacheFromSource == ASSUME Un!TypeOK, SourceInv PROVE Un!CacheIsPublished
  <1> SUFFICES ASSUME ~strayed
               PROVE  Un!Reach(Un!Named(bare.heads) \cup Un!Tagged(bare.tags)) \subseteq published
    BY DEF Un!CacheIsPublished
  <1>1. Un!Named(bare.heads) \cup Un!Tagged(bare.tags) \subseteq published
    BY DEF SourceInv, Had, HadTags, Un!Named, Un!Tagged, Un!TypeOK
  <1> QED
    BY <1>1, ReachWithin DEF SourceInv

\* While nothing was pushed into the cache, it reaches nothing the forge has not had.
THEOREM CacheHoldsThePublished == Un!Spec => []Un!CacheIsPublished
  <1>1. Un!TypeOK /\ SourceInv => Un!CacheIsPublished
    BY CacheFromSource
  <1>2. Un!TypeOK /\ SourceInv /\ [Un!Next]_Un!vars => SourceInv'
    BY UnGiven, SourceStep
  <1> QED
    BY <1>1, <1>2, UnGiven, TypeInit, TypeStep, SourceInit, PTL DEF Un!Spec

(***************************************************************************)
(* What a removal was told, while nobody has touched the clone since.      *)
(***************************************************************************)
Asking == {"status", "tags", "vouch", "unpushed", "owed"}

\* What holds of the answers whoever is about.
Answers ==
    /\ clone.at = "none" => clone = Un!NoClone
    /\ pc = "owed" => my.verdict = "would lose"
    /\ pc \in Asking => my.owed = {}

\* What the answers say of the clone.
Faithful ==
    calm => /\ pc \in {"tags", "vouch", "unpushed"} => my.dirty = clone.dirty
            /\ pc = "vouch" => my.here = clone.tags
            /\ pc = "owed" => Un!Resolves(my.local) /\ my.unpushed = Un!Unpushed(my.local)
            /\ pc = "decided" => /\ my.owed \subseteq my.unpushed
                                 /\ my.owed \cap Un!Reach(Un!Named(clone.refs)) = {}

\* What they say of the forge: a tag that was vouched for is one it has had, and when
\* nothing would be lost it has had everything.
Vouched ==
    calm /\ ~strayed =>
        /\ pc = "unpushed" => \A t \in Tag \ my.local :
                                 clone.tags[t] # Un!None => Tagging[clone.tags[t]] \in published
        /\ pc \in {"decided", "removing"} /\ my.verdict = "nothing"
              => ~clone.dirty /\ Un!Held \subseteq published

\* What a clone nobody has touched is like, and what is said of it.
Untouched ==
    pristine => /\ ~clone.dirty
                /\ \A r \in Un!Ref : clone.refs[r] \in Un!Named(clone.remotes) \cup {Un!None}
                /\ pc # "idle" => calm
                /\ pc = "owed" => ~my.dirty /\ my.local # {}

LookInv == Answers /\ Faithful /\ Vouched /\ Untouched /\ Un!UntouchedMayGo

LEMMA LookInit == Un!Init => LookInv
  BY DEF Un!Init, LookInv, Answers, Faithful, Vouched, Untouched, Un!UntouchedMayGo, Asking

(***************************************************************************)
(* What goes on beside a removal, as it sees it: it leaves the clone       *)
(* alone, or touches it and is remembered, or makes one while nobody asks. *)
(***************************************************************************)
LeavesAlone ==
    /\ UNCHANGED <<clone, pc, my, calm, pristine, strayed>>
    /\ published \subseteq published' /\ (faults' = 0 => faults = 0)

IsRemembered ==
    /\ UNCHANGED <<pc, my>> /\ ~calm' /\ ~pristine'
    /\ clone'.at # "none"

LEMMA OthersEffects ==
    ASSUME UnSupposed, Un!TypeOK, Un!Others
    PROVE  LeavesAlone \/ IsRemembered \/ \E b \in Branch : Un!MakeClone(b)
  <1>1. ASSUME NEW b \in Branch, NEW c \in History \cup {Un!None}, Un!ForgeMoves(b, c)
        PROVE  LeavesAlone
    BY <1>1 DEF Un!ForgeMoves, Un!Move, LeavesAlone, Un!history
  <1>2. ASSUME NEW t \in Tag, NEW o \in Object \cup {Un!None}, Un!ForgeTags(t, o)
        PROVE  LeavesAlone
    BY <1>2 DEF Un!ForgeTags, Un!Move, LeavesAlone, Un!history
  <1>3. ASSUME Un!Sweep PROVE LeavesAlone
    BY <1>3 DEF Un!Sweep, Un!Move, LeavesAlone, Un!history
  <1>4. ASSUME Un!Spoil PROVE LeavesAlone \/ IsRemembered
    <2>1. faults' # 0
      BY <1>4 DEF Un!Spoil, Un!Fault, Un!TypeOK
    <2>2. CASE UNCHANGED <<clone, calm, pristine>>
      BY <1>4, <2>1, <2>2 DEF Un!Spoil, LeavesAlone
    <2>3. CASE ~UNCHANGED <<clone, calm, pristine>>
      BY <1>4, <2>3 DEF Un!Spoil, IsRemembered, Un!TypeOK
    <2> QED
      BY <2>2, <2>3
  <1>5. ASSUME Un!Edits PROVE IsRemembered
    BY <1>5 DEF Un!Edits, Un!Touch, IsRemembered, Un!TypeOK
  <1>6. ASSUME Un!Fetches PROVE IsRemembered
    BY <1>6 DEF Un!Fetches, Un!Touch, IsRemembered, Un!TypeOK
  <1>7. ASSUME NEW b \in Branch, Un!Pushes(b) PROVE IsRemembered
    BY <1>7 DEF Un!Pushes, Un!Touch, IsRemembered, Un!TypeOK
  <1>8. ASSUME NEW r \in Un!Ref, NEW c \in History \cup {Un!None}, Un!Commits(r, c) PROVE IsRemembered
    <2>1. PICK dirty : clone' = [clone EXCEPT !.refs[r] = c, !.dirty = dirty]
      BY <1>8 DEF Un!Commits
    <2> QED
      BY <1>8, <2>1 DEF Un!Commits, Un!Touch, IsRemembered, Un!TypeOK
  <1>9. ASSUME NEW r \in Un!Ref, NEW c \in History \cup {Un!None}, Un!MovesRef(r, c) PROVE IsRemembered
    BY <1>9 DEF Un!MovesRef, Un!Touch, IsRemembered, Un!TypeOK
  <1>10. ASSUME NEW t \in Tag, NEW o \in Object \cup {Un!None}, Un!Tags(t, o) PROVE IsRemembered
    BY <1>10 DEF Un!Tags, Un!Touch, IsRemembered, Un!TypeOK
  <1>11. ASSUME NEW t \in Tag, Un!PushesTag(t) PROVE IsRemembered
    BY <1>11 DEF Un!PushesTag, Un!Touch, IsRemembered, Un!TypeOK
  <1> QED
    BY <1>1, <1>2, <1>3, <1>4, <1>5, <1>6, <1>7, <1>8, <1>9, <1>10, <1>11 DEF Un!Others

LEMMA LookAlone == ASSUME LookInv, LeavesAlone PROVE LookInv'
  <1>1. Answers'
    BY DEF LeavesAlone, LookInv, Answers
  <1>2. Faithful'
    BY DEF LeavesAlone, LookInv, Faithful, Un!Resolves, Un!Unpushed
  <1>3. Un!Held' = Un!Held
    BY DEF LeavesAlone, Un!Held
  <1>4. Vouched'
    BY <1>3 DEF LeavesAlone, LookInv, Vouched
  <1>5. Untouched' /\ Un!UntouchedMayGo'
    BY DEF LeavesAlone, LookInv, Untouched, Un!UntouchedMayGo
  <1> QED
    BY <1>1, <1>2, <1>4, <1>5 DEF LookInv

LEMMA LookOthers ==
    ASSUME UnSupposed, Un!TypeOK, LookInv, Un!Others
    PROVE  LookInv'
  <1>1. CASE LeavesAlone
    BY <1>1, LookAlone
  <1>2. CASE IsRemembered
    BY <1>2 DEF IsRemembered, LookInv, Answers, Faithful, Vouched, Untouched, Un!UntouchedMayGo
  <1>3. ASSUME NEW b \in Branch, Un!MakeClone(b) PROVE LookInv'
    <2>1. /\ pc' = "idle" /\ clone'.at = "git" /\ ~clone'.dirty
          /\ clone'.refs = [Un!NoRefs EXCEPT ![b] = bare.heads[b]]
          /\ clone'.remotes = bare.heads
      BY <1>3 DEF Un!MakeClone
    <2>2. \A r \in Un!Ref : clone'.refs[r] \in Un!Named(clone'.remotes) \cup {Un!None}
      BY <2>1 DEF Un!NoRefs, Un!Named, Un!TypeOK, Un!Ref
    <2> QED
      BY <2>1, <2>2 DEF LookInv, Answers, Faithful, Vouched, Untouched, Un!UntouchedMayGo, Asking
  <1> QED
    BY <1>1, <1>2, <1>3, OthersEffects

(***************************************************************************)
(* The steps of a removal.                                                 *)
(***************************************************************************)
\* What a clone that is not there holds.
LEMMA NoneHoldsNothing ==
    ASSUME Un!TypeOK, clone = Un!NoClone
    PROVE  ~clone.dirty /\ Un!Held = {} /\ Un!Reach(Un!Named(clone.refs)) = {}
  <1>1. Un!Named(clone.refs) = {} /\ Un!Named(clone.tags) = {} /\ ~clone.dirty
    BY DEF Un!NoClone, Un!NoRefs, Un!NoTags, Un!Named
  <1> QED
    BY <1>1 DEF Un!Held, Un!Tagged, Un!Reach

LEMMA LookBegin ==
    ASSUME Un!TypeOK, LookInv, NEW removal \in Un!Removal, Un!BeginRemove(removal)
    PROVE  LookInv'
  <1>1. /\ UNCHANGED <<clone, published, pristine, strayed>> /\ calm'
        /\ my'.owed = {} /\ my'.unpushed = {}
        /\ pc' \in {"status", "decided", "removing"}
        /\ my'.verdict = "nothing" => clone.at = "none"
        /\ my'.verdict # "would lose"
    BY DEF Un!BeginRemove, Un!Still, Un!world, Un!Untold, Un!Fault
  <1>2. Answers'
    BY <1>1 DEF LookInv, Answers
  <1>3. Faithful'
    BY <1>1 DEF Faithful
  <1>4. Vouched'
    <2>1. Un!Held' = Un!Held
      BY <1>1 DEF Un!Held
    <2> QED
      BY <1>1, <2>1, NoneHoldsNothing DEF Vouched, LookInv, Answers
  <1>5. Untouched' /\ Un!UntouchedMayGo'
    BY <1>1 DEF LookInv, Untouched, Un!UntouchedMayGo
  <1> QED
    BY <1>2, <1>3, <1>4, <1>5 DEF LookInv

\* A question is asked, and the clone is as it was.
Asks == UNCHANGED <<clone, published, pristine, strayed, calm>>

\* A refusal ends the questions, and grants nothing.
LEMMA LookRefused ==
    ASSUME Un!TypeOK, LookInv, Asks, pc \in Asking, pc' = "decided", Un!Answer("could not tell")
    PROVE  LookInv'
  <1>1. my'.verdict = "could not tell" /\ my'.owed = {} /\ my'.unpushed = my.unpushed
    BY DEF Un!Answer, Un!TypeOK, LookInv, Answers
  <1>2. Answers'
    BY <1>1 DEF LookInv, Answers, Asks, Asking
  <1>3. Faithful'
    BY <1>1 DEF Faithful
  <1>4. Vouched'
    BY <1>1 DEF Vouched
  <1>5. Untouched' /\ Un!UntouchedMayGo'
    BY <1>1 DEF LookInv, Untouched, Un!UntouchedMayGo, Asks, Asking
  <1> QED
    BY <1>2, <1>3, <1>4, <1>5 DEF LookInv

LEMMA LookStatus == ASSUME Un!TypeOK, LookInv, Un!AskStatus PROVE LookInv'
  <1>1. Asks /\ pc = "status"
    BY DEF Un!AskStatus, Asks, Un!Still, Un!world
  <1>2. CASE pc' = "decided" /\ Un!Answer("could not tell")
    BY <1>1, <1>2, LookRefused DEF Asking
  <1>3. CASE pc' = "tags" /\ my' = [my EXCEPT !.dirty = clone.dirty]
    <2>1. my'.dirty = clone.dirty /\ my'.owed = my.owed
      BY <1>3 DEF Un!TypeOK
    <2>2. Answers'
      BY <1>1, <1>3, <2>1 DEF LookInv, Answers, Asks, Asking
    <2>3. Faithful'
      BY <1>1, <1>3, <2>1 DEF Faithful, Asks
    <2>4. Vouched'
      BY <1>3 DEF Vouched
    <2>5. Untouched' /\ Un!UntouchedMayGo'
      BY <1>1, <1>3 DEF LookInv, Untouched, Un!UntouchedMayGo, Asks
    <2> QED
      BY <2>2, <2>3, <2>4, <2>5 DEF LookInv
  <1> QED
    BY <1>2, <1>3 DEF Un!AskStatus, Un!Refused

LEMMA LookTags == ASSUME Un!TypeOK, LookInv, Un!AskTags PROVE LookInv'
  <1>1. Asks /\ pc = "tags"
    BY DEF Un!AskTags, Asks, Un!Still, Un!world
  <1>2. CASE pc' = "decided" /\ Un!Answer("could not tell")
    BY <1>1, <1>2, LookRefused DEF Asking
  <1>3. CASE /\ my' = [my EXCEPT !.here = clone.tags]
             /\ pc' = IF Un!Named(clone.tags) = {} THEN "unpushed" ELSE "vouch"
    <2>1. /\ my'.here = clone.tags /\ my'.dirty = my.dirty /\ my'.owed = my.owed
          /\ my'.local = my.local
      BY <1>3 DEF Un!TypeOK
    <2>2. Answers'
      BY <1>1, <1>3, <2>1 DEF LookInv, Answers, Asks, Asking
    <2>3. Faithful'
      BY <1>1, <1>3, <2>1 DEF LookInv, Faithful, Asks
    <2>4. pc' = "unpushed" => \A t \in Tag : clone.tags[t] = Un!None
      BY <1>3 DEF Un!Named, Un!TypeOK
    <2>5. Vouched'
      BY <1>1, <1>3, <2>4 DEF Vouched, Asks
    <2>6. Untouched' /\ Un!UntouchedMayGo'
      BY <1>1, <1>3 DEF LookInv, Untouched, Un!UntouchedMayGo, Asks
    <2> QED
      BY <2>2, <2>3, <2>5, <2>6 DEF LookInv
  <1> QED
    BY <1>2, <1>3 DEF Un!AskTags, Un!Refused

\* A tag that is not local is in the cache, under its name and at its object.
LEMMA LookCache == ASSUME Un!TypeOK, SourceInv, LookInv, Un!AskCache PROVE LookInv'
  <1>1. Asks /\ pc = "vouch" /\ pc' = "unpushed"
    BY DEF Un!AskCache, Asks, Un!Still, Un!world, Un!Go
  <1>2. PICK fetched \in {Un!NoTags, bare.tags} : my' = [my EXCEPT !.local = Un!LocalTags(fetched)]
    BY DEF Un!AskCache
  <1>3. /\ my'.local = Un!LocalTags(fetched) /\ my'.dirty = my.dirty /\ my'.owed = my.owed
    BY <1>2 DEF Un!TypeOK
  <1>4. Answers'
    BY <1>1, <1>3 DEF LookInv, Answers, Asks, Asking
  <1>5. Faithful'
    BY <1>1, <1>3 DEF LookInv, Faithful, Asks
  <1>6. Vouched'
    <2> SUFFICES ASSUME calm, ~strayed, NEW t \in Tag \ my'.local, clone.tags[t] # Un!None
                 PROVE  Tagging[clone.tags[t]] \in published
      BY <1>1 DEF Vouched, Asks
    <2>1. my.here = clone.tags
      BY <1>1 DEF LookInv, Faithful
    <2>2. fetched[t] = clone.tags[t]
      BY <1>3, <2>1 DEF Un!LocalTags
    <2>3. fetched = bare.tags
      BY <2>2 DEF Un!NoTags
    <2> QED
      BY <2>2, <2>3 DEF SourceInv, HadTags, Un!TypeOK
  <1>7. Untouched' /\ Un!UntouchedMayGo'
    BY <1>1 DEF LookInv, Untouched, Un!UntouchedMayGo, Asks
  <1> QED
    BY <1>4, <1>5, <1>6, <1>7 DEF LookInv

\* What a clone holds that its tracking refs do not reach hangs by a ref or a tag that
\* was asked about, or by a tag the forge has had.
LEMMA NothingElseIsHeld ==
    ASSUME UnSupposed, Un!TypeOK, SourceInv, Vouched, calm, ~strayed, pc = "unpushed",
           Un!Unpushed(my.local) = {}
    PROVE  Un!Held \subseteq published
  <1> DEFINE asked   == Un!Named(clone.refs) \cup CommitsOf(my.local)
             fetched == {Tagging[clone.tags[t]] : t \in {s \in Tag \ my.local : clone.tags[s] # Un!None}}
  <1>1. fetched \subseteq published
    BY DEF Vouched
  <1>2. Un!Reach(fetched) \subseteq published
    BY <1>1, ReachWithin DEF SourceInv
  <1>3. Un!Named(clone.remotes) \subseteq published
    BY DEF SourceInv, Had, Un!Named, Un!TypeOK
  <1>4. Un!Reach(Un!Named(clone.remotes)) \subseteq published
    BY <1>3, ReachWithin DEF SourceInv
  <1>5. Un!Reach(asked) \subseteq published
    BY <1>4 DEF Un!Unpushed, CommitsOf
  <1>6. Un!Tagged(clone.tags) \subseteq CommitsOf(my.local) \cup fetched
    BY DEF Un!Tagged, Un!Named, CommitsOf, Un!TypeOK
  <1>7. Un!Named(clone.refs) \cup Un!Tagged(clone.tags) \subseteq asked \cup fetched
    BY <1>6
  <1> HIDE DEF asked, fetched
  <1>8. Un!Held \subseteq Un!Reach(asked) \cup Un!Reach(fetched)
    <2>1. Un!Held \subseteq Un!Reach(asked \cup fetched)
      BY <1>7, ReachGrows DEF Un!Held
    <2>2. Un!Reach(asked \cup fetched) = Un!Reach(asked) \cup Un!Reach(fetched)
      BY ReachUnion
    <2> QED
      BY <2>1, <2>2
  <1> QED
    BY <1>2, <1>5, <1>8

\* The refs of an untouched clone reach what its tracking refs do.
LEMMA UntouchedHoldsTags ==
    ASSUME Un!TypeOK, Untouched, pristine, NEW local
    PROVE  Un!Unpushed(local) = Un!OnlyTags(local)
  <1>1. Un!Named(clone.refs) \subseteq Un!Named(clone.remotes)
    BY DEF Untouched, Un!Named, Un!TypeOK
  <1>2. Un!Reach(Un!Named(clone.refs)) \subseteq Un!Reach(Un!Named(clone.remotes))
    BY <1>1, ReachGrows
  <1>3. /\ Un!Reach(Un!Named(clone.refs) \cup CommitsOf(local))
              = Un!Reach(Un!Named(clone.refs)) \cup Un!Reach(CommitsOf(local))
        /\ Un!Reach(Un!Named(clone.refs) \cup Un!Named(clone.remotes))
              = Un!Reach(Un!Named(clone.refs)) \cup Un!Reach(Un!Named(clone.remotes))
    BY ReachUnion
  <1> QED
    BY <1>2, <1>3 DEF Un!Unpushed, Un!OnlyTags, CommitsOf

LEMMA LookUnpushed == ASSUME UnSupposed, Un!TypeOK, SourceInv, LookInv, Un!AskUnpushed PROVE LookInv'
  <1>1. Asks /\ pc = "unpushed"
    BY DEF Un!AskUnpushed, Asks, Un!Still, Un!world
  <1>2. CASE pc' = "decided" /\ Un!Answer("could not tell")
    BY <1>1, <1>2, LookRefused DEF Asking
  <1> DEFINE commits == Un!Unpushed(my.local)
  <1>3. ASSUME Un!Resolves(my.local),
               my' = [my EXCEPT !.unpushed = commits,
                                !.verdict = IF my.dirty \/ commits # {}
                                            THEN "would lose" ELSE "nothing"],
               pc' = IF commits # {} /\ my.local # {} THEN "owed" ELSE "decided"
        PROVE  LookInv'
    <2>1. /\ my'.unpushed = commits /\ my'.dirty = my.dirty /\ my'.local = my.local
          /\ my'.owed = {}
          /\ my'.verdict = IF my.dirty \/ commits # {} THEN "would lose" ELSE "nothing"
      BY <1>1, <1>3 DEF Un!TypeOK, LookInv, Answers, Asking
    <2>2. Answers'
      BY <1>1, <1>3, <2>1 DEF LookInv, Answers, Asks, Asking
    <2>3. Un!Unpushed(my.local)' = commits /\ Un!Resolves(my.local)'
      BY <1>1, <1>3, <2>1 DEF Asks, Un!Unpushed, Un!Resolves
    <2>4. Faithful'
      BY <1>3, <2>1, <2>3 DEF Faithful
    <2>5. Vouched'
      <3> SUFFICES ASSUME calm, ~strayed, my'.verdict = "nothing"
                   PROVE  ~clone.dirty /\ Un!Held \subseteq published
        <4>1. Un!Held' = Un!Held
          BY <1>1 DEF Asks, Un!Held
        <4> QED
          BY <1>1, <1>3, <4>1 DEF Vouched, Asks
      <3>1. ~my.dirty /\ commits = {}
        BY <2>1
      <3>2. ~clone.dirty
        BY <1>1, <3>1 DEF LookInv, Faithful
      <3> QED
        BY <1>1, <3>1, <3>2, NothingElseIsHeld DEF LookInv
    <2>6. ASSUME pristine
          PROVE  ~my.dirty /\ calm /\ (my.local = {} => commits = {})
      <3>1. ~my.dirty /\ calm
        BY <1>1, <2>6 DEF LookInv, Untouched, Faithful
      <3>2. commits = Un!OnlyTags(my.local)
        BY <2>6, UntouchedHoldsTags DEF LookInv
      <3>3. my.local = {} => Un!OnlyTags(my.local) = {}
        BY DEF Un!OnlyTags, Un!Reach
      <3> QED
        BY <3>1, <3>2, <3>3
    <2>7. Untouched'
      BY <1>1, <1>3, <2>1, <2>6 DEF LookInv, Untouched, Asks
    <2>8. Un!UntouchedMayGo'
      BY <1>1, <1>3, <2>1, <2>6 DEF Un!UntouchedMayGo, Asks
    <2> QED
      BY <2>2, <2>4, <2>5, <2>7, <2>8 DEF LookInv
  <1> QED
    BY <1>2, <1>3 DEF Un!AskUnpushed, Un!Refused

\* The second question about commits is a share of the first.
LEMMA OwedIsLess ==
    ASSUME NEW local
    PROVE  /\ Un!OnlyTags(local) \subseteq Un!Unpushed(local)
           /\ Un!OnlyTags(local) \cap Un!Reach(Un!Named(clone.refs)) = {}
  <1>1. /\ Un!Reach(Un!Named(clone.refs) \cup CommitsOf(local))
              = Un!Reach(Un!Named(clone.refs)) \cup Un!Reach(CommitsOf(local))
        /\ Un!Reach(Un!Named(clone.refs) \cup Un!Named(clone.remotes))
              = Un!Reach(Un!Named(clone.refs)) \cup Un!Reach(Un!Named(clone.remotes))
    BY ReachUnion
  <1> QED
    BY <1>1 DEF Un!Unpushed, Un!OnlyTags, CommitsOf

LEMMA LookOwed == ASSUME Un!TypeOK, LookInv, Un!AskOwed PROVE LookInv'
  <1>1. Asks /\ pc = "owed" /\ pc' = "decided"
    BY DEF Un!AskOwed, Asks, Un!Still, Un!world, Un!Go
  <1>2. /\ my'.verdict = "would lose" /\ my'.unpushed = my.unpushed /\ my'.dirty = my.dirty
        /\ my'.local = my.local
        /\ my'.owed = {} \/ my'.owed = Un!OnlyTags(my.local)
    BY <1>1 DEF Un!AskOwed, Un!TypeOK, LookInv, Answers, Asking
  <1>3. Answers'
    BY <1>1 DEF LookInv, Answers, Asks, Asking
  <1>4. Faithful'
    <2>1. calm => my.unpushed = Un!Unpushed(my.local)
      BY <1>1 DEF LookInv, Faithful
    <2> QED
      BY <1>1, <1>2, <2>1, OwedIsLess DEF Faithful, Asks
  <1>5. Vouched'
    BY <1>1, <1>2 DEF Vouched
  <1>6. Untouched'
    BY <1>1 DEF LookInv, Untouched, Asks
  <1>7. Un!UntouchedMayGo'
    <2> SUFFICES ASSUME pristine, faults' = 0
                 PROVE  ~my.dirty /\ my.local # {} /\ my'.owed = my.unpushed
      BY <1>1, <1>2 DEF Un!UntouchedMayGo, Asks
    <2>1. ~my.dirty /\ my.local # {} /\ calm
      BY <1>1 DEF LookInv, Untouched
    <2>2. Un!Resolves(my.local) /\ my.unpushed = Un!Unpushed(my.local)
      BY <1>1, <2>1 DEF LookInv, Faithful
    <2>3. ~Un!Fault
      BY DEF Un!Fault, Un!TypeOK
    <2>4. my'.owed = Un!OnlyTags(my.local)
      BY <2>2, <2>3 DEF Un!AskOwed, Un!TypeOK
    <2> QED
      BY <2>1, <2>2, <2>4, UntouchedHoldsTags DEF LookInv
  <1> QED
    BY <1>3, <1>4, <1>5, <1>6, <1>7 DEF LookInv

LEMMA LookDecide == ASSUME Un!TypeOK, LookInv, Un!Decide PROVE LookInv'
  <1>1. Asks /\ my' = my /\ pc = "decided" /\ pc' \in {"removing", "idle"}
    BY DEF Un!Decide, Asks, Un!Still, Un!world
  <1>2. Answers' /\ Faithful'
    BY <1>1 DEF LookInv, Answers, Faithful, Asks, Asking
  <1>3. Un!Held' = Un!Held
    BY <1>1 DEF Asks, Un!Held
  <1>4. Vouched'
    BY <1>1, <1>3 DEF LookInv, Vouched, Asks
  <1>5. Untouched' /\ Un!UntouchedMayGo'
    BY <1>1 DEF LookInv, Untouched, Un!UntouchedMayGo, Asks
  <1> QED
    BY <1>2, <1>4, <1>5 DEF LookInv

LEMMA LookRemove == ASSUME Un!TypeOK, LookInv, Un!Remove PROVE LookInv'
  <1>1. pc' = "idle"
    BY DEF Un!Remove, Un!Go
  <1>2. \/ clone' = Un!NoClone /\ ~pristine'
        \/ UNCHANGED <<clone, pristine>>
    BY DEF Un!Remove
  <1>3. Answers' /\ Faithful' /\ Vouched'
    BY <1>1, <1>2 DEF LookInv, Answers, Faithful, Vouched, Asking
  <1>4. Untouched'
    <2>1. CASE clone' = Un!NoClone /\ ~pristine'
      BY <2>1 DEF Untouched
    <2>2. CASE UNCHANGED <<clone, pristine>>
      BY <1>1, <2>2 DEF LookInv, Untouched
    <2> QED
      BY <1>2, <2>1, <2>2
  <1>5. Un!UntouchedMayGo'
    BY <1>1 DEF Un!UntouchedMayGo
  <1> QED
    BY <1>3, <1>4, <1>5 DEF LookInv

LEMMA LookStep ==
    ASSUME UnSupposed, Un!TypeOK, SourceInv, LookInv, [Un!Next]_Un!vars
    PROVE  LookInv'
  <1>1. CASE Un!Others
    BY <1>1, LookOthers
  <1>2. CASE Un!Removes
    BY <1>2, LookBegin, LookStatus, LookTags, LookCache, LookUnpushed, LookOwed, LookDecide,
       LookRemove DEF Un!Removes
  <1>3. CASE UNCHANGED Un!vars
    <2>1. LeavesAlone
      BY <1>3 DEF Un!vars, Un!world, Un!history, Un!counts, LeavesAlone
    <2> QED
      BY <2>1, LookAlone
  <1> QED
    BY <1>1, <1>2, <1>3 DEF Un!Next

\* A removal that was told there is nothing to lose, by questions nobody came between,
\* takes nothing the forge has not had.
THEOREM OnlyCopiesAreKept == Un!Spec => []Un!OnlyCopyIsKept
  <1>1. LookInv => Un!OnlyCopyIsKept
    BY DEF LookInv, Vouched, Un!OnlyCopyIsKept
  <1>2. Un!TypeOK /\ SourceInv /\ LookInv /\ [Un!Next]_Un!vars => SourceInv' /\ LookInv'
    BY UnGiven, SourceStep, LookStep
  <1> QED
    BY <1>1, <1>2, UnGiven, TypeInit, TypeStep, SourceInit, LookInit, PTL DEF Un!Spec

GuardInv == Un!TypeOK /\ SourceInv /\ LookInv

LEMMA GuardMeans == GuardInv => Un!UnsavedSafe
  <1> SUFFICES ASSUME GuardInv PROVE Un!UnsavedSafe
    OBVIOUS
  <1>1. Un!CacheIsPublished
    BY CacheFromSource DEF GuardInv
  <1> QED
    BY <1>1 DEF GuardInv, LookInv, Vouched, Faithful, Un!OnlyCopyIsKept, Un!OwedIsAShare,
       Un!UnsavedSafe

\* All that is said of the guard at once: the types, that the only copy is kept, that
\* the cache is of the forge, that an untouched clone is refused for its tags alone,
\* and that what is owed to tags is.
THEOREM GuardIsSafe == Spec => []UnsavedSafe
  <1> DEFINE OwnInv == part = "unsaved" => GuardInv
  <1>1. Init => OwnInv
    BY StartsAsOne, UnGiven, TypeInit, SourceInit, LookInit DEF GuardInv
  <1>2. OwnInv /\ [Next]_vars => OwnInv'
    BY StepsAsOne, UnGiven, TypeStep, SourceStep, LookStep DEF GuardInv
  <1>3. OwnInv => UnsavedSafe
    BY GuardMeans DEF UnsavedSafe
  <1> QED
    BY <1>1, <1>2, <1>3, PTL DEF Spec

(***************************************************************************)
(* The sweep of a workspace's holders.  A pid that was an orphan's is an   *)
(* orphan's still, or nobody's, or a stranger's: nothing comes back behind *)
(* a build whose dl has died.  And whoever the last reading did not find   *)
(* came after it.                                                          *)
(***************************************************************************)
KillSupposed == Ki!VerbAssumption /\ Ki!BoundsAssumption /\ Ki!Nobody \notin Ki!All

LEMMA KillGiven == KillSupposed
  BY KiVerbAssumption, KiBoundsAssumption, KiNobodyAssumption
  DEF KillSupposed, Ki!NobodyAssumption

Proc == [what : {"unborn", "gone", "stranger", "up", "ssh"},
         parent : {"none", "dl", "init", "self"},
         will : {"none", "yields", "clings", "untouchable"}]

Over(p) == proc[p].what \in {"gone", "stranger"}

KillTypes ==
    /\ proc \in [Ki!All -> Proc]
    /\ flock \in Ki!All \cup {Ki!Nobody} /\ (flock # Ki!Nobody => proc[flock].what = "up")
    /\ busy \in BOOLEAN /\ container \in BOOLEAN /\ deleted \in BOOLEAN
    /\ \A h \in reading \cup remaining : h.pid \in Ki!All /\ h.what \in {"up", "ssh"}
    /\ \A h \in remaining : h.orphan
    /\ since \subseteq Ki!All /\ moves \in 0..MaxMoves /\ faults \in 0..MaxFaults

\* Whom the readings name.
Named ==
    /\ \A h \in reading : h.orphan => proc[h.pid].parent = "init" \/ Over(h.pid)
    /\ \A h \in remaining :
          /\ \/ proc[h.pid].parent = "init" /\ proc[h.pid].what = h.what
             \/ Over(h.pid)
          /\ \E n \in reading : n.pid = h.pid /\ n.what = h.what

\* Whom the last reading did not find.
Looked == pc \notin {"look1", "end"} \/ endings # {}
Found ==
    Looked =>
        \A p \in Ki!All : Ki!Devpod(p) /\ proc[p].parent # "self" /\ p \notin since =>
            \E n \in reading : n.pid = p /\ n.what = proc[p].what

\* The sweeping launch's own `up`, and nobody else, is its child.
Child ==
    /\ \A p \in Pids : proc[p].parent # "self"
    /\ IF SweepFor = "kill" THEN proc[Own].parent # "self"
       ELSE (proc[Own].parent = "self" \/ Over(Own)) /\ \A h \in reading : h.pid # Own

\* What has been done is what the step it is at comes after.
Done ==
    /\ pc = "look1" => endings = {} /\ remaining = {}
    /\ pc \in {"look2", "KILL", "look3"} =>
          \A h \in remaining : \E t \in struck : t.pid = h.pid /\ t.sig = "TERM"
    /\ pc \in {"marker", "containers", "delete"} => SweepFor = "kill"
    /\ \A e \in endings : e.ending # "survived" => e.pid \in Ki!All /\ Over(e.pid)

Spared == Ki!SparesTheAttended /\ Ki!AskedBeforeForced

KillInv == KillTypes /\ Named /\ Found /\ Child /\ Done /\ Spared

LEMMA KillTyped == KillTypes => Ki!TypeOK
  BY DEF KillTypes, Ki!TypeOK, Proc

LEMMA KillInit == ASSUME KillSupposed PROVE Ki!Init => KillInv
  <1> SUFFICES ASSUME Ki!Init PROVE KillInv
    OBVIOUS
  <1>1. /\ proc \in [Ki!All -> {Ki!Unborn} \cup [what : {"up", "ssh"}, parent : {"dl", "init"},
                                              will : {"yields", "clings", "untouchable"}]
                        \cup {[what |-> "up", parent |-> "self", will |-> "yields"]}]
        /\ \A p \in Pids : proc[p].parent # "self"
        /\ IF SweepFor = "kill" THEN proc[Own] = Ki!Unborn ELSE proc[Own].parent = "self"
        /\ flock # Ki!Nobody => flock \in Pids /\ proc[flock].what = "up"
        /\ busy \in BOOLEAN /\ container \in BOOLEAN /\ deleted = FALSE
        /\ pc = "look1" /\ reading = {} /\ remaining = {} /\ endings = {}
        /\ since = {} /\ struck = {} /\ moves = 0 /\ faults = 0
    BY Zenon DEF Ki!Init
  <1>2. proc \in [Ki!All -> Proc]
    BY <1>1 DEF Ki!Unborn, Proc
  <1>3. KillTypes
    <2>1. flock \in Ki!All \cup {Ki!Nobody} /\ (flock # Ki!Nobody => proc[flock].what = "up")
      BY <1>1, Zenon DEF Ki!All
    <2>2. moves \in 0..MaxMoves /\ faults \in 0..MaxFaults
      <3> HIDE DEF Ki!Init
      <3>1. moves = 0 /\ faults = 0
        BY <1>1
      <3> QED
        BY <3>1 DEF KillSupposed, Ki!BoundsAssumption
    <2> QED
      BY <1>1, <1>2, <2>1, <2>2, Zenon DEF KillTypes
  <1>4. Child
    BY <1>1 DEF Child, Ki!Unborn
  <1> QED
    BY <1>1, <1>3, <1>4 DEF KillInv, Named, Found, Looked, Done, Spared,
       Ki!SparesTheAttended, Ki!AskedBeforeForced

(***************************************************************************)
(* What time does to a pid.                                                *)
(***************************************************************************)
Ages ==
    \A p \in Ki!All :
        /\ Over(p) => Over(p)'
        /\ proc[p].parent = "init" =>
              \/ proc'[p].parent = "init" /\ proc'[p].what = proc[p].what
              \/ Over(p)'
        /\ Ki!Devpod(p)' /\ p \notin since' =>
              Ki!Devpod(p) /\ p \notin since /\ proc'[p].what = proc[p].what
        /\ proc'[p].parent = "self" => proc[p].parent = "self"
        /\ proc[p].parent = "self" => proc'[p].parent = "self" \/ Over(p)'

\* The places of a pid that one step gives somebody else.
LEMMA PutAges ==
    ASSUME KillTypes, NEW p \in Ki!All, NEW r \in Proc, proc' = [proc EXCEPT ![p] = r],
           since \subseteq since', p \notin since' => since' = since,
           \/ r.what \in {"gone", "stranger"} /\ r.parent # "self"
           \/ /\ proc[p].parent \notin {"init", "self"} /\ ~Over(p)
              /\ r.parent # "self" /\ p \in since'
           \/ /\ proc[p].parent \notin {"init", "self"} /\ ~Over(p)
              /\ r.parent # "self" /\ r.what = proc[p].what /\ since' = since
    PROVE  Ages
  <1>1. proc'[p] = r /\ \A q \in Ki!All : q # p => proc'[q] = proc[q]
    BY DEF KillTypes
  <1>2. ASSUME NEW q \in Ki!All
        PROVE  /\ Over(q) => Over(q)'
               /\ proc[q].parent = "init" =>
                     \/ proc'[q].parent = "init" /\ proc'[q].what = proc[q].what
                     \/ Over(q)'
               /\ Ki!Devpod(q)' /\ q \notin since' =>
                     Ki!Devpod(q) /\ q \notin since /\ proc'[q].what = proc[q].what
               /\ proc'[q].parent = "self" => proc[q].parent = "self"
               /\ proc[q].parent = "self" => proc'[q].parent = "self" \/ Over(q)'
    <2>1. CASE q = p
      BY <1>1, <2>1 DEF Over, Ki!Devpod
    <2>2. CASE q # p
      BY <1>1, <2>2 DEF Over, Ki!Devpod
    <2> QED
      BY <2>1, <2>2
  <1> QED
    BY <1>2 DEF Ages

\* One step of somebody else.
Elsewhere(p) == \/ Ki!StartBuild(p) \/ Ki!Orphan(p) \/ Ki!Recycle(p)
                \/ Ki!TakeLock(p) \/ Ki!Exit(p)

\* What becomes of a pid is a process still.
LEMMA Becomes ==
    /\ Ki!Gone \in Proc /\ Ki!Stranger \in Proc
    /\ Ki!Gone.what = "gone" /\ Ki!Stranger.what = "stranger"
    /\ Ki!Gone.parent = "none" /\ Ki!Stranger.parent = "none"
  BY DEF Ki!Gone, Ki!Stranger, Ki!Unborn, Proc

LEMMA ElsewhereStep ==
    ASSUME KillSupposed, KillTypes, NEW p \in Ki!All, Elsewhere(p)
    PROVE  /\ Ages /\ KillTypes' /\ since \subseteq since' /\ Ki!LeftForTheLiving
           /\ UNCHANGED <<deleted, pc, reading, remaining, endings, struck, faults>>
  <1> USE DEF Ki!Aside
  <1>1. UNCHANGED <<deleted, pc, reading, remaining, endings, struck, faults>>
    BY DEF Elsewhere, Ki!StartBuild, Ki!Orphan, Ki!Recycle, Ki!TakeLock, Ki!Exit
  <1>2. Ki!LeftForTheLiving
    <2>1. ~Ki!SweepMarker
      BY <1>1 DEF Ki!SweepMarker, Ki!Go
    <2>2. container => container'
      BY DEF Elsewhere, Ki!StartBuild, Ki!Orphan, Ki!Recycle, Ki!TakeLock, Ki!Exit
    <2> QED
      BY <1>1, <2>1, <2>2 DEF Ki!LeftForTheLiving
  <1>3. Ki!Move => moves' \in 0..MaxMoves
    BY DEF Ki!Move, KillTypes, KillSupposed, Ki!BoundsAssumption
  <1>4. p # Ki!Nobody /\ proc[p] \in Proc
    BY DEF KillSupposed, KillTypes
  <1>5. ASSUME NEW r \in Proc, proc' = [proc EXCEPT ![p] = r],
               flock' \in {flock, Ki!Nobody}, flock' = p => r.what = "up",
               busy' \in BOOLEAN, container' \in BOOLEAN, since' \subseteq Ki!All,
               moves' \in 0..MaxMoves
        PROVE  KillTypes'
    BY <1>1, <1>5 DEF KillTypes
  <1>6. CASE Ki!StartBuild(p)
    <2> DEFINE r == [what |-> "up", parent |-> "dl", will |-> "yields"]
    <2>1. /\ r \in Proc /\ r.what = "up" /\ r.parent = "dl"
          /\ proc[p].parent = "none" /\ ~Over(p)
      BY <1>6 DEF Proc, Ki!StartBuild, Ki!Unborn, Over
    <2>2. /\ proc' = [proc EXCEPT ![p] = r] /\ since' = since \cup {p}
          /\ UNCHANGED <<flock, busy, container>> /\ Ki!Move
      BY <1>6 DEF Ki!StartBuild
    <2> HIDE DEF r
    <2> QED
      BY <1>1, <1>2, <1>3, <1>5, <2>1, <2>2, PutAges DEF KillTypes
  <1>7. CASE Ki!Orphan(p)
    <2> DEFINE r == [proc[p] EXCEPT !.parent = "init"]
    <2>1. /\ r \in Proc /\ r.what = proc[p].what /\ r.parent = "init"
          /\ proc[p].parent = "dl" /\ ~Over(p)
      BY <1>4, <1>7 DEF Proc, Ki!Orphan, Ki!Devpod, Over
    <2>2. /\ proc' = [proc EXCEPT ![p] = r] /\ since' = since
          /\ UNCHANGED <<flock, busy, container>> /\ Ki!Move
      BY <1>7 DEF Ki!Orphan, KillTypes
    <2> HIDE DEF r
    <2> QED
      BY <1>1, <1>2, <1>3, <1>4, <1>5, <2>1, <2>2, PutAges DEF KillTypes
  <1>8. CASE Ki!Recycle(p)
    <2>1. /\ proc' = [proc EXCEPT ![p] = Ki!Stranger] /\ since' = since \cup {p}
          /\ UNCHANGED <<flock, busy, container>> /\ Ki!Move /\ proc[p].what = "gone"
      BY <1>8, Becomes DEF Ki!Recycle
    <2>2. flock # p
      BY <1>4, <2>1 DEF KillTypes
    <2> QED
      BY <1>1, <1>2, <1>3, <1>5, <2>1, <2>2, PutAges, Becomes DEF KillTypes
  <1>9. CASE Ki!TakeLock(p)
    <2>1. UNCHANGED <<proc, since, moves>> /\ flock' = p /\ proc[p].what = "up"
          /\ busy' = TRUE /\ container' = TRUE
      BY <1>9 DEF Ki!TakeLock
    <2> QED
      BY <1>1, <1>2, <2>1 DEF KillTypes, Ages, Over, Ki!Devpod
  <1>10. CASE Ki!Exit(p)
    <2>1. /\ proc' = [proc EXCEPT ![p] = Ki!Gone] /\ UNCHANGED <<container, moves, since>>
          /\ flock' = IF flock = p THEN Ki!Nobody ELSE flock
          /\ busy' = (busy /\ flock # p)
      BY <1>10 DEF Ki!Exit
    <2>2. busy' \in BOOLEAN
      BY <2>1, Zenon
    <2> QED
      BY <1>1, <1>2, <1>4, <1>5, <2>1, <2>2, PutAges, Becomes DEF KillTypes
  <1> QED
    BY <1>6, <1>7, <1>8, <1>9, <1>10 DEF Elsewhere

(***************************************************************************)
(* The steps of the sweep.                                                 *)
(***************************************************************************)
\* A signal ends some of those it is sent to, and is put down for all of them.
LEMMA StrikeFacts ==
    ASSUME KillSupposed, KillTypes, NEW sig, NEW next, Ki!Strike(sig, next)
    PROVE  /\ pc = sig /\ pc' = next /\ Ages /\ KillTypes'
           /\ UNCHANGED <<container, moves, deleted, reading, remaining, endings, since,
                          faults>>
           /\ struck \subseteq struck'
           /\ \A h \in remaining : \E t \in struck' : t.pid = h.pid /\ t.sig = sig
           /\ \A t \in struck' \ struck :
                 /\ t.sig = sig
                 /\ \E h \in remaining :
                       /\ t.pid = h.pid
                       /\ t.was = IF ~Ki!Devpod(h.pid) THEN proc[h.pid].what
                                  ELSE IF Ki!Attended(h.pid) THEN "attended" ELSE "orphan"
  <1> DEFINE S    == {h.pid : h \in remaining}
             dead == {p \in S : Ki!Devpod(p) /\ Ki!Heeds(p, sig)}
             Was(p) == IF ~Ki!Devpod(p) THEN proc[p].what
                       ELSE IF Ki!Attended(p) THEN "attended" ELSE "orphan"
  <1>1. /\ pc = sig /\ pc' = next
        /\ UNCHANGED <<container, moves, deleted, reading, remaining, endings, since,
                       faults>>
        /\ proc' = [p \in Ki!All |-> IF p \in dead THEN Ki!Gone ELSE proc[p]]
        /\ flock' = IF flock \in dead THEN Ki!Nobody ELSE flock
        /\ busy' = (busy /\ ~(flock \in dead /\ sig = "TERM"))
        /\ struck' = struck \cup {[pid |-> p, sig |-> sig, was |-> Was(p)] : p \in S}
    BY Zenon DEF Ki!Strike, Ki!Go
  <1>2. \A p \in Ki!All : proc'[p] = proc[p] \/ proc'[p] = Ki!Gone
    <2> HIDE DEF dead
    <2> QED
      BY <1>1
  <1>3. Ages
    BY <1>1, <1>2, Becomes DEF Ages, Over, Ki!Devpod
  <1>4. KillTypes'
    <2>1. proc' \in [Ki!All -> Proc]
      <3> HIDE DEF dead
      <3> QED
        BY <1>1, Becomes DEF KillTypes
    <2>2. busy' \in BOOLEAN
      BY <1>1, Zenon
    <2>3. flock' # Ki!Nobody => flock' = flock /\ proc'[flock] = proc[flock]
      <3> HIDE DEF dead
      <3> QED
        BY <1>1 DEF KillTypes
    <2> HIDE DEF dead
    <2> QED
      BY <1>1, <2>1, <2>2, <2>3 DEF KillTypes
  <1>5. \A h \in remaining : \E t \in struck' : t.pid = h.pid /\ t.sig = sig
    <2> SUFFICES ASSUME NEW h \in remaining
                 PROVE  \E t \in struck' : t.pid = h.pid /\ t.sig = sig
      OBVIOUS
    <2> DEFINE t == [pid |-> h.pid, sig |-> sig, was |-> Was(h.pid)]
    <2>1. t \in struck'
      BY <1>1, Zenon
    <2>2. t.pid = h.pid /\ t.sig = sig
      OBVIOUS
    <2> QED
      BY <2>1, <2>2, Zenon
  <1>6. ASSUME NEW t \in struck' \ struck
        PROVE  /\ t.sig = sig
               /\ \E h \in remaining : t.pid = h.pid /\ t.was = Was(h.pid)
    <2>1. PICK h \in remaining : t = [pid |-> h.pid, sig |-> sig, was |-> Was(h.pid)]
      BY <1>1, <1>6, Zenon
    <2> QED
      BY <2>1
  <1>7. struck \subseteq struck'
    BY <1>1, Zenon
  <1> QED
    BY <1>1, <1>3, <1>4, <1>5, <1>6, <1>7, Zenon

\* What was read and reported stays true as time goes by.
LEMMA KeepNamed ==
    ASSUME KillTypes, Named, Ages, UNCHANGED <<reading, remaining>>
    PROVE  Named'
  BY DEF Named, Ages, KillTypes

LEMMA KeepFound ==
    ASSUME Found, Ages, UNCHANGED reading, Looked' => Looked
    PROVE  Found'
  BY DEF Found, Ages, Over, Ki!Devpod

LEMMA KeepChild ==
    ASSUME Child, Ages, UNCHANGED reading
    PROVE  Child'
  BY DEF Child, Ages, Ki!All

LEMMA KeepEndings ==
    ASSUME \A e \in endings : e.ending # "survived" => e.pid \in Ki!All /\ Over(e.pid),
           Ages, UNCHANGED endings
    PROVE  \A e \in endings' : e.ending # "survived" => e.pid \in Ki!All /\ Over(e.pid)'
  BY DEF Ages

LEMMA KillElsewhere ==
    ASSUME KillSupposed, KillInv, NEW p \in Ki!All, Elsewhere(p)
    PROVE  KillInv' /\ Ki!LeftForTheLiving
  <1>1. /\ Ages /\ KillTypes' /\ since \subseteq since' /\ Ki!LeftForTheLiving
        /\ UNCHANGED <<deleted, pc, reading, remaining, endings, struck, faults>>
    BY ElsewhereStep DEF KillInv
  <1>2. Named' /\ Found' /\ Child'
    BY <1>1, KeepNamed, KeepFound, KeepChild DEF KillInv, Looked
  <1>3. Done'
    BY <1>1, KeepEndings DEF KillInv, Done
  <1>4. Spared'
    BY <1>1 DEF KillInv, Spared, Ki!SparesTheAttended, Ki!AskedBeforeForced
  <1> QED
    BY <1>1, <1>2, <1>3, <1>4 DEF KillInv

LEMMA KillStrike ==
    ASSUME KillSupposed, KillInv,
           Ki!Strike("TERM", "look2") \/ Ki!Strike("KILL", "look3")
    PROVE  KillInv' /\ Ki!LeftForTheLiving
  <1>1. PICK sig \in {"TERM", "KILL"} :
           \/ sig = "TERM" /\ Ki!Strike("TERM", "look2")
           \/ sig = "KILL" /\ Ki!Strike("KILL", "look3")
    OBVIOUS
  <1> DEFINE next == IF sig = "TERM" THEN "look2" ELSE "look3"
  <1>2. Ki!Strike(sig, next)
    BY <1>1
  <1>3. /\ pc = sig /\ pc' = next /\ Ages /\ KillTypes'
        /\ UNCHANGED <<container, moves, deleted, reading, remaining, endings, since,
                       faults>>
        /\ struck \subseteq struck'
        /\ \A h \in remaining : \E t \in struck' : t.pid = h.pid /\ t.sig = sig
        /\ \A t \in struck' \ struck :
              /\ t.sig = sig
              /\ \E h \in remaining :
                    /\ t.pid = h.pid
                    /\ t.was = IF ~Ki!Devpod(h.pid) THEN proc[h.pid].what
                               ELSE IF Ki!Attended(h.pid) THEN "attended" ELSE "orphan"
    BY <1>2, StrikeFacts DEF KillInv
  <1>4. Named' /\ Found' /\ Child'
    BY <1>1, <1>3, KeepNamed, KeepFound, KeepChild DEF KillInv, Looked
  <1>5. sig = "KILL" => \A h \in remaining : \E t \in struck : t.pid = h.pid /\ t.sig = "TERM"
    BY <1>3 DEF KillInv, Done
  <1>6. Done'
    BY <1>1, <1>3, <1>5, KeepEndings DEF KillInv, Done
  <1>7. Ki!SparesTheAttended'
    <2>1. \A h \in remaining : Ki!Devpod(h.pid) => ~Ki!Attended(h.pid)
      BY DEF KillInv, Named, KillTypes, Over, Ki!Devpod, Ki!Attended
    <2>2. \A h \in remaining : ~Ki!Devpod(h.pid) => proc[h.pid].what \in {"gone", "stranger"}
      BY DEF KillInv, Named, KillTypes, Over, Ki!Devpod
    <2>3. ASSUME NEW t \in struck' \ struck
          PROVE  t.was \in {"orphan", "gone", "stranger"}
      <3>1. PICK h \in remaining :
              t.was = IF ~Ki!Devpod(h.pid) THEN proc[h.pid].what
                      ELSE IF Ki!Attended(h.pid) THEN "attended" ELSE "orphan"
        BY <1>3
      <3> QED
        BY <2>1, <2>2, <3>1
    <2> QED
      BY <2>3 DEF KillInv, Spared, Ki!SparesTheAttended
  <1>8. Ki!AskedBeforeForced'
    BY <1>1, <1>3, <1>5 DEF KillInv, Spared, Ki!AskedBeforeForced
  <1>9. Ki!LeftForTheLiving
    BY <1>1, <1>3 DEF Ki!LeftForTheLiving, Ki!SweepMarker, Ki!Go
  <1> QED
    BY <1>3, <1>4, <1>6, <1>7, <1>8, <1>9 DEF KillInv, Spared

\* A reading that succeeds finds everybody there is.
Reads == /\ since' = {} /\ UNCHANGED proc
         /\ \A h \in reading' : /\ h.pid \in Ki!All /\ h.what = proc[h.pid].what
                                /\ Ki!Devpod(h.pid) /\ proc[h.pid].parent # "self"
                                /\ h.orphan <=> proc[h.pid].parent = "init"
         /\ \A p \in Ki!All : Ki!Devpod(p) /\ proc[p].parent # "self" =>
               \E n \in reading' : n.pid = p /\ n.what = proc[p].what

LEMMA ReadsAll ==
    ASSUME since' = {}, UNCHANGED proc, reading' = Ki!Holders
    PROVE  Reads
  <1>1. \A h \in Ki!Holders :
           /\ h.pid \in Ki!All /\ h.what = proc[h.pid].what
           /\ Ki!Devpod(h.pid) /\ proc[h.pid].parent # "self"
           /\ h.orphan <=> proc[h.pid].parent = "init"
    <2> SUFFICES ASSUME NEW h \in Ki!Holders
                 PROVE  /\ h.pid \in Ki!All /\ h.what = proc[h.pid].what
                        /\ Ki!Devpod(h.pid) /\ proc[h.pid].parent # "self"
                        /\ h.orphan <=> proc[h.pid].parent = "init"
      OBVIOUS
    <2>1. PICK p \in Ki!All :
            /\ Ki!Devpod(p) /\ proc[p].parent # "self"
            /\ h = [pid |-> p, what |-> proc[p].what, orphan |-> proc[p].parent = "init"]
      BY Zenon DEF Ki!Holders
    <2> QED
      BY <2>1
  <1>2. ASSUME NEW p \in Ki!All, Ki!Devpod(p), proc[p].parent # "self"
        PROVE  \E n \in Ki!Holders : n.pid = p /\ n.what = proc[p].what
    <2> DEFINE n == [pid |-> p, what |-> proc[p].what, orphan |-> proc[p].parent = "init"]
    <2>1. n \in Ki!Holders
      BY <1>2, Zenon DEF Ki!Holders
    <2>2. n.pid = p /\ n.what = proc[p].what
      OBVIOUS
    <2> HIDE DEF n
    <2> QED
      BY <2>1, <2>2
  <1> QED
    BY <1>1, <1>2 DEF Reads

\* What a reading finds, and does not find.
LEMMA ReadsFacts ==
    ASSUME KillTypes, Child, Reads
    PROVE  /\ \A h \in reading' : h.orphan => proc'[h.pid].parent = "init"
           /\ \A h \in reading' : h.pid \in Ki!All /\ h.what \in {"up", "ssh"}
           /\ Found' /\ Child'
  <1>1. Found'
    BY DEF Found, Reads, Ki!Devpod
  <1>2. Child'
    BY DEF Child, Reads, KillTypes, Over, Ki!Devpod
  <1> QED
    BY <1>1, <1>2 DEF Reads, Ki!Devpod

LEMMA KillFirstLook ==
    ASSUME KillSupposed, KillInv, Ki!FirstLook
    PROVE  KillInv' /\ Ki!LeftForTheLiving
  <1>1. /\ UNCHANGED <<proc, flock, busy, container, moves, deleted, endings, struck>>
        /\ pc = "look1" /\ endings = {} /\ remaining = {}
    BY DEF Ki!FirstLook, Ki!host, KillInv, Done
  <1>2. Ki!LeftForTheLiving
    BY <1>1 DEF Ki!LeftForTheLiving, Ki!SweepMarker, Ki!Go, KillInv, KillTypes
  <1>3. Spared'
    BY <1>1 DEF KillInv, Spared, Ki!SparesTheAttended, Ki!AskedBeforeForced
  <1>4. CASE /\ reading' = Ki!Holders /\ since' = {} /\ UNCHANGED faults
             /\ remaining' = {h \in Ki!Holders : h.orphan}
             /\ pc' = IF remaining' = {} THEN "after" ELSE "TERM"
    <2>1. Reads /\ Found' /\ Child'
      BY <1>1, <1>4, ReadsAll, ReadsFacts DEF KillInv
    <2>2. \A h \in remaining' : h \in reading' /\ h.orphan
      BY <1>4
    <2>3. Named'
      BY <2>1, <2>2 DEF Named, Reads
    <2>4. KillTypes'
      BY <1>1, <1>4, <2>1, <2>2, ReadsFacts DEF KillInv, KillTypes
    <2>5. Done'
      BY <1>1, <1>4 DEF Done
    <2> QED
      BY <1>2, <1>3, <2>1, <2>3, <2>4, <2>5 DEF KillInv
  <1>5. CASE /\ faults < MaxFaults /\ faults' = faults + 1 /\ pc' = "end"
             /\ UNCHANGED <<reading, since, remaining>>
    <2>1. faults' \in 0..MaxFaults
      BY <1>5 DEF KillInv, KillTypes, KillSupposed, Ki!BoundsAssumption
    <2>2. KillTypes' /\ Named' /\ Child' /\ Done' /\ Found'
      BY <1>1, <1>5, <2>1 DEF KillInv, KillTypes, Named, Child, Done, Found, Looked, Over
    <2> QED
      BY <1>2, <1>3, <2>2 DEF KillInv
  <1> QED
    BY <1>4, <1>5 DEF Ki!FirstLook

\* Whoever is reported gone is: by this reading, or because the last one that
\* succeeded had left nobody to report.
LEMMA LookFacts ==
    ASSUME KillSupposed, KillInv, NEW from, NEW how, NEW next, Ki!LookAgain(from, how, next)
    PROVE  /\ pc = from /\ pc' = (IF remaining' = {} THEN "after" ELSE next)
           /\ UNCHANGED <<proc, flock, busy, container, moves, deleted, struck>>
           /\ remaining' \subseteq remaining
           /\ \A h \in remaining' : \E n \in reading' : n.pid = h.pid /\ n.what = h.what
           /\ \A e \in endings' \ endings : e.pid \in Ki!All /\ Over(e.pid)
           /\ endings \subseteq endings'
           /\ \/ reading' = Ki!Holders /\ since' = {} /\ UNCHANGED faults
              \/ /\ faults' \in 0..MaxFaults
                 /\ UNCHANGED <<reading, since>>
  <1>1. /\ pc = from /\ pc' = IF remaining' = {} THEN "after" ELSE next
        /\ UNCHANGED <<proc, flock, busy, container, moves, deleted, struck>>
        /\ remaining' = {h \in remaining : \E n \in reading' : n.pid = h.pid /\ n.what = h.what}
        /\ endings' = endings \cup {[pid |-> h.pid, ending |-> how] : h \in remaining \ remaining'}
    BY Zenon DEF Ki!LookAgain, Ki!Narrowed, Ki!Record, Ki!host
  <1>2. \/ reading' = Ki!Holders /\ since' = {} /\ UNCHANGED faults
        \/ /\ faults < MaxFaults /\ faults' = faults + 1
           /\ UNCHANGED <<reading, since>>
    BY DEF Ki!LookAgain
  <1>3. faults < MaxFaults /\ faults' = faults + 1 => faults' \in 0..MaxFaults
    BY DEF KillInv, KillTypes, KillSupposed, Ki!BoundsAssumption
  <1>4. ASSUME NEW h \in remaining \ remaining'
        PROVE  h.pid \in Ki!All /\ Over(h.pid)
    <2>1. h.pid \in Ki!All /\ h.what \in {"up", "ssh"}
      BY DEF KillInv, KillTypes
    <2>2. ~\E n \in reading' : n.pid = h.pid /\ n.what = h.what
      BY <1>1, <1>4
    <2>3. reading' = Ki!Holders
      BY <1>2, <2>2 DEF KillInv, Named
    <2>4. Reads
      BY <1>1, <1>2, <2>2, <2>3, ReadsAll DEF KillInv, Named
    <2> QED
      BY <2>1, <2>2, <2>4 DEF Reads, KillInv, Named, Ki!Devpod
  <1>5. ASSUME NEW e \in endings' \ endings PROVE e.pid \in Ki!All /\ Over(e.pid)
    <2>1. PICK h \in remaining \ remaining' : e = [pid |-> h.pid, ending |-> how]
      BY <1>1, <1>5, Zenon
    <2> QED
      BY <1>4, <2>1
  <1>6. remaining' \subseteq remaining
        /\ \A h \in remaining' : \E n \in reading' : n.pid = h.pid /\ n.what = h.what
    BY <1>1
  <1>7. endings \subseteq endings'
    BY <1>1, Zenon
  <1> QED
    BY <1>1, <1>2, <1>3, <1>5, <1>6, <1>7, Zenon

LEMMA KillLook ==
    ASSUME KillSupposed, KillInv,
           \/ Ki!LookAgain("look2", "terminated", "KILL")
           \/ Ki!LookAgain("look3", "killed", "after")
    PROVE  KillInv' /\ Ki!LeftForTheLiving
  <1>1. /\ \/ pc = "look2" /\ pc' \in {"KILL", "after"}
           \/ pc = "look3" /\ pc' = "after"
        /\ UNCHANGED <<proc, flock, busy, container, moves, deleted, struck>>
        /\ remaining' \subseteq remaining
        /\ \A h \in remaining' : \E n \in reading' : n.pid = h.pid /\ n.what = h.what
        /\ \A e \in endings' \ endings : e.pid \in Ki!All /\ Over(e.pid)
        /\ endings \subseteq endings'
        /\ \/ reading' = Ki!Holders /\ since' = {} /\ UNCHANGED faults
           \/ /\ faults' \in 0..MaxFaults
              /\ UNCHANGED <<reading, since>>
    <2>1. CASE Ki!LookAgain("look2", "terminated", "KILL")
      BY <2>1, LookFacts
    <2>2. CASE Ki!LookAgain("look3", "killed", "after")
      BY <2>2, LookFacts
    <2> QED
      BY <2>1, <2>2
  <1>2. Ki!LeftForTheLiving
    BY <1>1 DEF Ki!LeftForTheLiving, Ki!SweepMarker, Ki!Go, KillInv, KillTypes
  <1>3. Spared'
    BY <1>1 DEF KillInv, Spared, Ki!SparesTheAttended, Ki!AskedBeforeForced
  <1>4. Done'
    <2>1. \A e \in endings' : e.ending # "survived" => e.pid \in Ki!All /\ Over(e.pid)'
      BY <1>1 DEF KillInv, Done, Over
    <2> QED
      BY <1>1, <2>1 DEF KillInv, Done
  <1>5. \A h \in remaining' : \/ proc'[h.pid].parent = "init" /\ proc'[h.pid].what = h.what
                              \/ Over(h.pid)'
    BY <1>1 DEF KillInv, Named, Over
  <1>6. CASE reading' = Ki!Holders /\ since' = {} /\ UNCHANGED faults
    <2>1. Reads
      BY <1>1, <1>6, ReadsAll
    <2>2. /\ \A h \in reading' : h.orphan => proc'[h.pid].parent = "init"
          /\ \A h \in reading' : h.pid \in Ki!All /\ h.what \in {"up", "ssh"}
          /\ Found' /\ Child'
      BY <2>1, ReadsFacts DEF KillInv
    <2>3. Named'
      BY <1>1, <1>5, <2>2 DEF Named
    <2>4. KillTypes'
      BY <1>1, <1>6, <2>2 DEF KillInv, KillTypes
    <2> QED
      BY <1>2, <1>3, <1>4, <2>2, <2>3, <2>4 DEF KillInv
  <1>7. CASE faults' \in 0..MaxFaults /\ UNCHANGED <<reading, since>>
    <2>1. Named'
      BY <1>1, <1>5, <1>7 DEF KillInv, Named, Over
    <2>2. KillTypes'
      BY <1>1, <1>7 DEF KillInv, KillTypes
    <2>3. Found' /\ Child'
      BY <1>1, <1>7 DEF KillInv, Found, Looked, Child, Over, Ki!Devpod
    <2> QED
      BY <1>2, <1>3, <1>4, <2>1, <2>2, <2>3 DEF KillInv
  <1> QED
    BY <1>1, <1>6, <1>7

\* Whoever is alive when the sweep is at its end came after the last reading, or is
\* in it, as what it is and with what was behind it then.
LEMMA AliveIsRead ==
    ASSUME KillInv, Looked, NEW p \in Ki!All, Ki!Devpod(p), proc[p].parent # "self",
           p \notin since
    PROVE  \E n \in reading : /\ n.what = proc[p].what
                              /\ n.orphan => proc[p].parent = "init"
  <1>1. PICK n \in reading : n.pid = p /\ n.what = proc[p].what
    BY DEF KillInv, Found
  <1>2. n.orphan => proc[p].parent = "init"
    BY <1>1 DEF KillInv, Named, Over, Ki!Devpod
  <1> QED
    BY <1>1, <1>2

\* The steps at the end, of which only a kill takes the last three.
LEMMA KillEnds ==
    ASSUME KillSupposed, KillInv,
           Ki!Sum \/ Ki!SweepMarker \/ Ki!KillContainers \/ Ki!Delete \/ Ki!StrikeRefused
    PROVE  KillInv' /\ Ki!LeftForTheLiving
  <1>1. /\ UNCHANGED <<proc, flock, moves, reading, remaining, since, struck>>
        /\ Looked /\ pc' \in {"marker", "containers", "delete", "end"}
        /\ pc' \in {"marker", "containers", "delete"} => SweepFor = "kill"
    BY DEF Ki!Sum, Ki!SweepMarker, Ki!KillContainers, Ki!Delete, Ki!StrikeRefused, Ki!Go,
       Ki!host, Looked, KillInv, Done
  <1>2. Ki!SweepMarker \/ Ki!KillContainers \/ Ki!Delete =>
           /\ SweepFor = "kill"
           /\ \A p \in Ki!All : proc[p].parent # "self"
    BY DEF Ki!SweepMarker, Ki!KillContainers, Ki!Delete, Ki!Go, KillInv, Done, Child, Ki!All
  <1>3. \A e \in endings' \ endings : e.ending = "survived"
    <2>1. CASE Ki!Sum
      <3>1. endings' = endings \cup {[pid |-> h.pid, ending |-> "survived"] : h \in remaining}
        BY <2>1, Zenon DEF Ki!Sum, Ki!Record
      <3> SUFFICES ASSUME NEW e \in endings' \ endings PROVE e.ending = "survived"
        OBVIOUS
      <3>2. PICK h \in remaining : e = [pid |-> h.pid, ending |-> "survived"]
        BY <3>1, Zenon
      <3> QED
        BY <3>2
    <2>2. CASE ~Ki!Sum
      BY <2>2 DEF Ki!SweepMarker, Ki!KillContainers, Ki!Delete, Ki!StrikeRefused
    <2> QED
      BY <2>1, <2>2
  <1>4. KillTypes'
    <2>1. faults' \in 0..MaxFaults
      <3>1. faults' = faults \/ (faults < MaxFaults /\ faults' = faults + 1)
        BY DEF Ki!Sum, Ki!SweepMarker, Ki!KillContainers, Ki!Delete, Ki!StrikeRefused, Ki!host
      <3>2. faults \in 0..MaxFaults /\ MaxFaults \in Nat
        BY DEF KillInv, KillTypes, KillSupposed, Ki!BoundsAssumption
      <3> QED
        BY <3>1, <3>2
    <2>2. busy' \in BOOLEAN
      BY DEF Ki!Sum, Ki!SweepMarker, Ki!KillContainers, Ki!Delete, Ki!StrikeRefused,
         Ki!host, KillInv, KillTypes
    <2>3. container' \in BOOLEAN
      BY DEF Ki!Sum, Ki!SweepMarker, Ki!KillContainers, Ki!Delete, Ki!StrikeRefused,
         Ki!host, KillInv, KillTypes
    <2>4. deleted' \in BOOLEAN
      BY DEF Ki!Sum, Ki!SweepMarker, Ki!KillContainers, Ki!Delete, Ki!StrikeRefused,
         KillInv, KillTypes
    <2> QED
      BY <1>1, <2>1, <2>2, <2>3, <2>4 DEF KillInv, KillTypes
  <1>5. Named' /\ Found' /\ Child' /\ Spared'
    BY <1>1 DEF KillInv, Named, Found, Child, Spared, Over, Ki!Devpod,
       Ki!SparesTheAttended, Ki!AskedBeforeForced
  <1>6. Done'
    BY <1>1, <1>3 DEF KillInv, Done, Over
  <1>7. busy /\ ~busy' /\ Ki!SweepMarker => flock \in since \cup {Ki!Nobody}
    <2> SUFFICES ASSUME Ki!SweepMarker, busy, ~busy', flock # Ki!Nobody, flock \notin since
                 PROVE  FALSE
      OBVIOUS
    <2>1. reading = {}
      BY DEF Ki!SweepMarker
    <2>2. flock \in Ki!All /\ Ki!Devpod(flock)
      BY DEF KillInv, KillTypes, Ki!Devpod
    <2> QED
      BY <1>1, <1>2, <2>1, <2>2, AliveIsRead
  <1>8. container /\ ~container' => \A p \in Ki!All : Ki!Attended(p) => p \in since
    <2> SUFFICES ASSUME container, ~container', NEW p \in Ki!All, Ki!Attended(p),
                        p \notin since
                 PROVE  FALSE
      OBVIOUS
    <2>1. Ki!KillContainers /\ \A h \in reading : h.orphan
      BY DEF Ki!Sum, Ki!SweepMarker, Ki!KillContainers, Ki!Delete, Ki!StrikeRefused, Ki!host
    <2>2. Ki!Devpod(p) /\ proc[p].parent = "dl"
      BY <1>2, <2>1 DEF Ki!Attended
    <2> QED
      BY <1>1, <2>1, <2>2, AliveIsRead
  <1>9. deleted' /\ ~deleted => \A p \in Ki!All : proc[p].what = "up" => p \in since
    <2> SUFFICES ASSUME deleted', ~deleted, NEW p \in Ki!All, proc[p].what = "up",
                        p \notin since
                 PROVE  FALSE
      OBVIOUS
    <2>1. Ki!Delete /\ \A h \in reading : h.what # "up"
      BY DEF Ki!Sum, Ki!SweepMarker, Ki!KillContainers, Ki!Delete, Ki!StrikeRefused
    <2>2. Ki!Devpod(p) /\ proc[p].parent # "self"
      BY <1>2, <2>1 DEF Ki!Devpod
    <2> QED
      BY <1>1, <2>1, <2>2, AliveIsRead
  <1> QED
    BY <1>4, <1>5, <1>6, <1>7, <1>8, <1>9 DEF KillInv, Ki!LeftForTheLiving

LEMMA KillStep ==
    ASSUME KillSupposed
    PROVE  KillInv /\ [Ki!Next]_Ki!vars => KillInv' /\ [Ki!LeftForTheLiving]_Ki!vars
  <1> SUFFICES ASSUME KillInv, [Ki!Next]_Ki!vars
               PROVE  KillInv' /\ [Ki!LeftForTheLiving]_Ki!vars
    OBVIOUS
  <1>1. CASE UNCHANGED Ki!vars
    BY <1>1 DEF Ki!vars, Ki!host, KillInv, KillTypes, Named, Found, Looked, Child, Done,
       Spared, Over, Ki!Devpod, Ki!SparesTheAttended, Ki!AskedBeforeForced
  <1>2. CASE \E p \in Ki!All : Elsewhere(p)
    BY <1>2, KillElsewhere
  <1>3. CASE Ki!FirstLook
    BY <1>3, KillFirstLook
  <1> QED
    BY <1>1, <1>2, <1>3, KillStrike, KillLook, KillEnds DEF Ki!Next, Ki!Sweep, Elsewhere

\* What is said of a process at the end is true of it.
LEMMA KillReports == ASSUME KillSupposed, KillInv PROVE Ki!ReportIsTrue
  <1>1. \A e \in Ki!LetGo : ~Ki!Devpod(e.pid)
    BY DEF Ki!LetGo, KillInv, Done, Over, Ki!Devpod
  <1>2. ASSUME Ki!Freed = "entirely", NEW p \in Ki!All, Ki!Devpod(p)
        PROVE  p \in since \/ proc[p].parent = "self"
    <2>1. reading = {} /\ endings # {}
      BY <1>2 DEF Ki!Freed, Ki!LetGo
    <2> QED
      BY <1>2, <2>1, AliveIsRead DEF Looked
  <1> QED
    BY <1>1, <1>2 DEF Ki!ReportIsTrue

\* The sweep of a workspace's holders, whatever dies, ends, starts or takes over a pid
\* beside it: no signal reaches a build or a session that somebody is behind, nothing
\* is killed that was not asked first, what is reported gone is, and the marker, the
\* containers and the workspace are left to whatever the last reading found alive
\* (sweep_holders, still_there, Freed, sweep_marker, kill_containers, blocks_a_delete).
THEOREM SweepIsSafe == Spec => KillSafe
  <1> DEFINE OwnInv == part = "kill" => KillInv
  <1>1. Init => OwnInv
    BY StartsAsOne, KillInit, KillGiven
  <1>2. OwnInv /\ [Next]_vars => OwnInv'
    BY StepsAsOne, KillStep, KillGiven
  <1>3. OwnInv /\ [Next]_vars => [part = "kill" => Ki!KillSafe]_vars
    <2> SUFFICES ASSUME OwnInv, [Next]_vars, part = "kill" PROVE Ki!KillSafe
      OBVIOUS
    <2>1. Ki!SweepHolds
      BY KillTyped, KillReports, KillGiven DEF KillInv, Spared, Ki!SweepHolds
    <2>2. CASE Ki!LeftForTheLiving
      BY <2>1, <2>2 DEF Ki!KillSafe
    <2>3. CASE UNCHANGED Ki!vars
      BY <2>1, <2>3 DEF Ki!KillSafe, Ki!LeftForTheLiving, Ki!vars, Ki!host
    <2> QED
      BY <2>2, <2>3, StepsAsOne, KillStep, KillGiven
  <1> QED
    BY <1>1, <1>2, <1>3, PTL DEF Spec, KillSafe

\* A launch that waits for the workspace is never counted among what holds it
\* (Ours::ChildrenOf).
THEOREM OwnIsNeverAHolder == Ki!Spec => []Ki!OwnIsNoHolder
  <1>1. KillInv => Ki!OwnIsNoHolder
    BY DEF KillInv, Child, Ki!OwnIsNoHolder
  <1>2. Ki!Spec => Ki!Init /\ [][Ki!Next]_Ki!vars
    BY DEF Ki!Spec
  <1> QED
    BY <1>1, <1>2, KillGiven, KillInit, KillStep, PTL

(***************************************************************************)
(* The volumes of removed workspaces.                                      *)
(***************************************************************************)
VnSupposed ==
    /\ Vn!NobodyAssumption /\ Vn!WorkspaceAssumption
    /\ Vn!VerbsAssumption /\ Vn!BoundsAssumption

LEMMA VnGiven == VnSupposed
  BY VnNobodyAssumption, VnWorkspaceAssumption, VnVerbsAssumption, VnBoundsAssumption
  DEF VnSupposed

\* What a document of a workspace says, if there is one, is its volumes.
All(w)      == {<<"pixi", f1>>, <<"dind", w>>}
Says(f)     == \A w \in Homes : f[w] \in {{}, All(w)}

\* A volume a copy has named is named by a copy: a removal that drops one has seen all
\* its volumes gone, and nobody else makes new ones known before it has.
CopiesInv ==
    /\ Vn!TypeOK
    /\ pc[solo] \in {"create", "complete"} =>
          flock[my[solo].ws] = solo /\ my[solo].ws \in listed
    /\ Says(result) /\ Says(copy) /\ Says(my[solo].plan)
    /\ my[solo].named \in {{}, All(my[solo].ws)} \/ pc[solo] \notin {"delete", "sweep"}
    /\ \A v \in kept : \E w \in Homes : v \in copy[w]
    /\ pc[solo] = "forget" => kept \cap All(my[solo].ws) = {}

LEMMA VnNames == ASSUME Vn!TypeOK, NEW w \in Homes
                 PROVE  Vn!Names(w) = All(w) /\ All(w) \in SUBSET Vn!Volume
  BY DEF Vn!TypeOK, Vn!Names, All, Vn!Volume

LEMMA CopiesInit == ASSUME VnSupposed PROVE Vn!Init => CopiesInv
  <1> SUFFICES ASSUME Vn!Init PROVE CopiesInv
    OBVIOUS
  <1>1. PICK h \in Homes : h = CHOOSE w \in Homes : TRUE
    BY DEF VnSupposed, Vn!WorkspaceAssumption
  <1>2. my[solo] = Vn!Told("up", h) /\ my \in [{solo} -> {Vn!Told("up", h)}]
    BY <1>1 DEF Vn!Init
  <1>3. Vn!Told("up", h) \in Vn!Mine /\ Says(Vn!Told("up", h).plan)
    BY DEF Vn!Told, Vn!Mine, Vn!Verb, Says
  <1>4. Vn!TypeOK
    BY <1>2, <1>3 DEF Vn!Init, Vn!TypeOK, Vn!Step
  <1> QED
    BY <1>2, <1>3, <1>4 DEF Vn!Init, CopiesInv, Says

\* A step moves the process on.
LEMMA SoloGoto ==
    ASSUME Vn!TypeOK, NEW step \in Vn!Step, Vn!Goto(solo, step)
    PROVE  pc' \in [{solo} -> Vn!Step] /\ pc'[solo] = step
  BY DEF Vn!TypeOK, Vn!Goto

\* What stays listed.
LEMMA SoloListed ==
    ASSUME Vn!TypeOK, NEW S \in SUBSET Homes, Vn!Listed(S)
    PROVE  listed' = S /\ steady' \in [{solo} -> SUBSET listed']
  BY DEF Vn!TypeOK, Vn!Listed

LEMMA CopiesBegin == ASSUME VnSupposed, CopiesInv, Vn!Begin(solo) PROVE CopiesInv'
  <1>1. PICK verb \in SoloVerbs, w \in Homes :
            /\ my' = [my EXCEPT ![solo] = Vn!Told(verb, w)]
            /\ Vn!Goto(solo, CASE verb = "up" -> "up" [] verb = "prune" -> "plan"
                                [] verb = "purge" -> "mine" [] OTHER -> "name")
    BY DEF Vn!Begin
  <1>2. UNCHANGED <<folder, listed, result, container, flock, volumes, copy, kept>>
        /\ steady' = [steady EXCEPT ![solo] = listed]
    BY DEF Vn!Begin, Vn!devpod
  <1>3. Vn!Told(verb, w) \in Vn!Mine /\ Says(Vn!Told(verb, w).plan)
    BY DEF Vn!Told, Vn!Mine, Vn!Verb, Says, VnSupposed, Vn!VerbsAssumption
  <1>4. my' \in [{solo} -> Vn!Mine] /\ my'[solo] = Vn!Told(verb, w)
    BY <1>1, <1>3 DEF CopiesInv, Vn!TypeOK
  <1>5. pc' \in [{solo} -> Vn!Step] /\ pc'[solo] \in {"up", "plan", "mine", "name"}
    BY <1>1 DEF CopiesInv, Vn!TypeOK, Vn!Goto, Vn!Step
  <1>6. Vn!TypeOK'
    BY <1>2, <1>4, <1>5 DEF CopiesInv, Vn!TypeOK
  <1> QED
    BY <1>2, <1>3, <1>4, <1>5, <1>6 DEF CopiesInv, Says

\* The steps that write nothing but where the process is.
LEMMA CopiesMoves ==
    ASSUME VnSupposed, CopiesInv, Vn!UpFails(solo) \/ Vn!Last(solo) \/ Vn!Crash(solo) \/ Vn!Answer(solo)
    PROVE  CopiesInv'
  <1>1. UNCHANGED <<folder, listed, result, container, volumes, copy, my, kept>>
    BY DEF Vn!UpFails, Vn!Last, Vn!Crash, Vn!Answer, Vn!devpod
  <1>2. pc' \in [{solo} -> Vn!Step] /\ pc'[solo] \in {"idle", "empty", "relist"}
    BY DEF Vn!UpFails, Vn!Last, Vn!Crash, Vn!Answer, Vn!Goto, CopiesInv, Vn!TypeOK, Vn!Step
  <1>3. flock' \in [Homes -> {solo} \cup {nobody}] /\ steady' \in [{solo} -> SUBSET listed]
    BY DEF Vn!UpFails, Vn!Last, Vn!Crash, Vn!Answer, CopiesInv, Vn!TypeOK, Vn!devpod
  <1>4. Vn!TypeOK'
    BY <1>1, <1>2, <1>3 DEF CopiesInv, Vn!TypeOK
  <1> QED
    BY <1>1, <1>2, <1>4 DEF CopiesInv, Says

LEMMA CopiesUp ==
    ASSUME VnSupposed, CopiesInv, Vn!Up(solo) \/ Vn!Create(solo) \/ Vn!Complete(solo) PROVE CopiesInv'
  <1> DEFINE w == my[solo].ws
  <1>0. w \in Homes /\ my \in [{solo} -> Vn!Mine] /\ Vn!TypeOK
    BY DEF CopiesInv, Vn!TypeOK, Vn!Mine
  <1>1. Vn!Names(w) = All(w) /\ All(w) \in SUBSET Vn!Volume
    BY <1>0, VnNames
  <1> HIDE DEF w
  <1>2. CASE Vn!Up(solo)
    <2>1. UNCHANGED <<folder, result, container, volumes, copy, my, kept>>
          /\ Vn!Listed(listed \cup {w}) /\ flock' = [flock EXCEPT ![w] = solo]
          /\ Vn!Goto(solo, "create")
      BY <1>2 DEF Vn!Up, w
    <2>2. listed' = listed \cup {w} /\ steady' \in [{solo} -> SUBSET listed'] /\ listed' \subseteq Homes
      BY <1>0, <2>1, SoloListed DEF Vn!TypeOK
    <2>3. pc' \in [{solo} -> Vn!Step] /\ pc'[solo] = "create"
      BY <1>0, <2>1, SoloGoto DEF Vn!Step
    <2>4. flock' \in [Homes -> {solo} \cup {nobody}] /\ flock'[w] = solo
      BY <1>0, <2>1 DEF Vn!TypeOK
    <2>5. Vn!TypeOK'
      BY <1>0, <2>1, <2>2, <2>3, <2>4 DEF Vn!TypeOK
    <2> QED
      BY <2>1, <2>2, <2>3, <2>4, <2>5 DEF CopiesInv, Says, w
  <1>3. CASE Vn!Create(solo)
    <2>1. UNCHANGED <<folder, listed, result, flock, copy, my, kept, steady>>
          /\ container' = [container EXCEPT ![w] = All(w)]
          /\ volumes' = volumes \cup All(w) /\ Vn!Goto(solo, "complete") /\ pc[solo] = "create"
      BY <1>1, <1>3 DEF Vn!Create, w
    <2>2. pc' \in [{solo} -> Vn!Step] /\ pc'[solo] = "complete"
      BY <1>0, <2>1, SoloGoto DEF Vn!Step
    <2>3. container' \in [Homes -> SUBSET Vn!Volume] /\ volumes' \subseteq Vn!Volume
      BY <1>0, <1>1, <2>1 DEF Vn!TypeOK
    <2>4. Vn!TypeOK'
      BY <1>0, <2>1, <2>2, <2>3 DEF Vn!TypeOK
    <2> QED
      BY <2>1, <2>2, <2>4 DEF CopiesInv, Says
  <1>4. CASE Vn!Complete(solo)
    <2>1. UNCHANGED <<folder, listed, container, volumes, copy, my, kept, steady>>
          /\ result' = [result EXCEPT ![w] = All(w)]
          /\ flock' = [flock EXCEPT ![w] = nobody] /\ Vn!Goto(solo, "keep") /\ pc[solo] = "complete"
      BY <1>1, <1>4 DEF Vn!Complete, w
    <2>2. pc' \in [{solo} -> Vn!Step] /\ pc'[solo] = "keep"
      BY <1>0, <2>1, SoloGoto DEF Vn!Step
    <2>3. result' \in [Homes -> SUBSET Vn!Volume] /\ flock' \in [Homes -> {solo} \cup {nobody}]
          /\ result'[w] = All(w) /\ \A x \in Homes : x # w => result'[x] = result[x]
      BY <1>0, <1>1, <2>1 DEF Vn!TypeOK
    <2>4. w \in listed
      BY <2>1 DEF CopiesInv, w
    <2>5. Vn!TypeOK'
      BY <1>0, <2>1, <2>2, <2>3, <2>4 DEF Vn!TypeOK
    <2>6. Says(result)'
      BY <2>3 DEF CopiesInv, Says
    <2> QED
      BY <2>1, <2>2, <2>5, <2>6 DEF CopiesInv, Says
  <1> QED
    BY <1>2, <1>3, <1>4

LEMMA CopiesKeep == ASSUME VnSupposed, CopiesInv, Vn!Keep(solo) PROVE CopiesInv'
  <1> DEFINE w == my[solo].ws
  <1>0. w \in Homes /\ Vn!TypeOK
    BY DEF CopiesInv, Vn!TypeOK, Vn!Mine
  <1>1. result[w] \in {{}, All(w)} /\ copy[w] \in {{}, All(w)} /\ result[w] \subseteq Vn!Volume
    BY <1>0 DEF CopiesInv, Says, Vn!TypeOK
  <1> HIDE DEF w
  <1>2. UNCHANGED <<folder, listed, result, container, flock, volumes, my, steady>>
        /\ Vn!Goto(solo, "idle")
    BY DEF Vn!Keep, Vn!devpod
  <1>3. pc' \in [{solo} -> Vn!Step] /\ pc'[solo] = "idle"
    BY <1>0, <1>2, SoloGoto DEF Vn!Step
  <1>4. \/ /\ result[w] = All(w)
           /\ copy' = [copy EXCEPT ![w] = All(w)]
           /\ kept' = kept \cup (All(w) \cap volumes)
        \/ UNCHANGED <<copy, kept>>
    BY <1>1 DEF Vn!Keep, w
  <1>5. CASE UNCHANGED <<copy, kept>>
    <2>1. Vn!TypeOK'
      BY <1>0, <1>2, <1>3, <1>5 DEF Vn!TypeOK
    <2> QED
      BY <1>2, <1>3, <1>5, <2>1 DEF CopiesInv, Says
  <1>6. CASE /\ result[w] = All(w)
             /\ copy' = [copy EXCEPT ![w] = All(w)]
             /\ kept' = kept \cup (All(w) \cap volumes)
    <2>1. /\ copy' \in [Homes -> SUBSET Vn!Volume]
          /\ copy'[w] = All(w) /\ \A x \in Homes : x # w => copy'[x] = copy[x]
      BY <1>0, <1>1, <1>6 DEF Vn!TypeOK
    <2>2. Vn!TypeOK'
      BY <1>0, <1>2, <1>3, <1>6, <2>1 DEF Vn!TypeOK
    <2>3. Says(copy)'
      BY <2>1 DEF CopiesInv, Says
    <2>4. \A v \in kept' : \E x \in Homes : v \in copy'[x]
      <3> SUFFICES ASSUME NEW v \in kept' PROVE \E x \in Homes : v \in copy'[x]
        OBVIOUS
      <3>1. CASE v \in All(w)
        BY <1>0, <2>1, <3>1
      <3>2. CASE v \notin All(w)
        <4>1. PICK x \in Homes : v \in copy[x]
          BY <1>6, <3>2 DEF CopiesInv
        <4> QED
          BY <1>1, <2>1, <3>2, <4>1
      <3> QED
        BY <3>1, <3>2
    <2> QED
      BY <1>2, <1>3, <2>2, <2>3, <2>4 DEF CopiesInv, Says
  <1> QED
    BY <1>4, <1>5, <1>6

\* What the process carries changes, and where it is.
LEMMA CopiesCarry ==
    ASSUME VnSupposed, CopiesInv,
           UNCHANGED <<folder, listed, result, container, flock, volumes, copy, kept, steady>>,
           my' \in [{solo} -> Vn!Mine], Says(my'[solo].plan),
           NEW step \in Vn!Step \ {"create", "complete", "forget"}, Vn!Goto(solo, step),
           my'[solo].named \in {{}, All(my'[solo].ws)} \/ step \notin {"delete", "sweep"}
    PROVE  CopiesInv'
  <1>1. pc' \in [{solo} -> Vn!Step] /\ pc'[solo] = step
    BY SoloGoto DEF CopiesInv
  <1>2. Vn!TypeOK'
    BY <1>1 DEF CopiesInv, Vn!TypeOK
  <1> QED
    BY <1>1, <1>2 DEF CopiesInv, Says

LEMMA CopiesRead ==
    ASSUME VnSupposed, CopiesInv,
           Vn!Name(solo) \/ Vn!Plan(solo) \/ Vn!Relist(solo) \/ Vn!Ours(solo) \/ Vn!NextOne(solo)
    PROVE  CopiesInv'
  <1> DEFINE w == my[solo].ws
  <1>0. /\ w \in Homes /\ my \in [{solo} -> Vn!Mine] /\ Vn!TypeOK
        /\ Says(my[solo].plan) /\ my[solo].plan \in [Homes -> SUBSET Vn!Volume]
    BY DEF CopiesInv, Vn!TypeOK, Vn!Mine
  <1>1. UNCHANGED <<folder, listed, result, container, flock, volumes, copy, kept, steady>>
    BY DEF Vn!Name, Vn!Plan, Vn!Relist, Vn!Ours, Vn!NextOne, Vn!devpod
  <1>2. CASE Vn!Name(solo)
    <2>1. my' = [my EXCEPT ![solo].named = result[w]] /\ Vn!Goto(solo, "delete")
      BY <1>2 DEF Vn!Name
    <2>2. result[w] \in {{}, All(w)} /\ result[w] \in SUBSET Vn!Volume
      BY <1>0 DEF CopiesInv, Says, Vn!TypeOK
    <2>3. /\ my' \in [{solo} -> Vn!Mine] /\ my'[solo].plan = my[solo].plan
          /\ my'[solo].ws = w /\ my'[solo].named = result[w]
      BY <1>0, <2>1, <2>2 DEF Vn!Mine
    <2> QED
      BY <1>0, <1>1, <2>1, <2>2, <2>3, CopiesCarry DEF Vn!Step
  <1>3. CASE Vn!Plan(solo)
    <2> DEFINE seen == [x \in Homes |-> IF x \in listed THEN {} ELSE copy[x]]
    <2>1. my' = [my EXCEPT ![solo].plan = seen] /\ Vn!Goto(solo, "answer")
      BY <1>3 DEF Vn!Plan
    <2>2. seen \in [Homes -> SUBSET Vn!Volume] /\ Says(seen)
      BY <1>0 DEF CopiesInv, Says, Vn!TypeOK
    <2> HIDE DEF seen
    <2>3. my' \in [{solo} -> Vn!Mine] /\ my'[solo].plan = seen
      BY <1>0, <2>1, <2>2 DEF Vn!Mine
    <2> QED
      BY <1>1, <2>1, <2>2, <2>3, CopiesCarry DEF Vn!Step
  <1>4. CASE Vn!Relist(solo) \/ Vn!Ours(solo)
    <2>1. PICK S \in SUBSET Homes : my' = [my EXCEPT ![solo].left = S]
      BY <1>0, <1>4 DEF Vn!Relist, Vn!Ours, Vn!TypeOK
    <2>2. my' \in [{solo} -> Vn!Mine] /\ my'[solo].plan = my[solo].plan
      BY <1>0, <2>1 DEF Vn!Mine
    <2>3. Vn!Goto(solo, "next")
      BY <1>4 DEF Vn!Relist, Vn!Ours
    <2> QED
      BY <1>0, <1>1, <2>2, <2>3, CopiesCarry DEF Vn!Step
  <1>5. CASE Vn!NextOne(solo)
    <2>0. PICK x \in my[solo].left :
            IF my[solo].verb = "prune"
            THEN /\ my' = [my EXCEPT ![solo].ws = x, ![solo].named = my[solo].plan[x],
                                     ![solo].left = @ \ {x}]
                 /\ Vn!Goto(solo, "sweep")
            ELSE /\ my' = [my EXCEPT ![solo].ws = x, ![solo].left = @ \ {x}]
                 /\ Vn!Goto(solo, "name")
      BY <1>5 DEF Vn!NextOne
    <2>1. x \in Homes
      BY <1>0 DEF Vn!Mine
    <2>2. my[solo].plan[x] \in {{}, All(x)} /\ my[solo].plan[x] \in SUBSET Vn!Volume
      BY <1>0, <2>1 DEF Says
    <2>3. CASE my[solo].verb = "prune"
      <3>1. my' = [my EXCEPT ![solo].ws = x, ![solo].named = my[solo].plan[x],
                             ![solo].left = @ \ {x}] /\ Vn!Goto(solo, "sweep")
        BY <2>0, <2>3
      <3>2. my' \in [{solo} -> Vn!Mine] /\ my'[solo].plan = my[solo].plan
            /\ my'[solo].ws = x /\ my'[solo].named = my[solo].plan[x]
        BY <1>0, <2>1, <2>2, <3>1 DEF Vn!Mine
      <3> QED
        BY <1>0, <1>1, <2>2, <3>1, <3>2, CopiesCarry DEF Vn!Step
    <2>4. CASE my[solo].verb # "prune"
      <3>1. my' = [my EXCEPT ![solo].ws = x, ![solo].left = @ \ {x}] /\ Vn!Goto(solo, "name")
        BY <2>0, <2>4
      <3>2. my' \in [{solo} -> Vn!Mine] /\ my'[solo].plan = my[solo].plan
        BY <1>0, <2>1, <3>1 DEF Vn!Mine
      <3> QED
        BY <1>0, <1>1, <3>1, <3>2, CopiesCarry DEF Vn!Step
    <2> QED
      BY <2>3, <2>4
  <1> QED
    BY <1>2, <1>3, <1>4, <1>5

LEMMA CopiesDelete == ASSUME VnSupposed, CopiesInv, Vn!Delete(solo) PROVE CopiesInv'
  <1> DEFINE w == my[solo].ws
  <1>0. w \in Homes /\ Vn!TypeOK
    BY DEF CopiesInv, Vn!TypeOK, Vn!Mine
  <1> HIDE DEF w
  <1>1. UNCHANGED <<folder, flock, volumes, copy, my, kept>> /\ pc[solo] = "delete"
    BY DEF Vn!Delete
  <1>2. /\ pc' \in [{solo} -> Vn!Step]
        /\ pc'[solo] \in {"sweep", "idle", "next"}
    BY <1>0 DEF Vn!Delete, Vn!After, Vn!Goto, Vn!TypeOK, Vn!Step
  <1>3. container' \in [Homes -> SUBSET Vn!Volume]
    BY <1>0 DEF Vn!Delete, Vn!TypeOK
  <1>4. \/ UNCHANGED <<listed, result, steady>>
        \/ Vn!Listed(listed \ {w}) /\ result' = [result EXCEPT ![w] = {}]
    BY DEF Vn!Delete, w
  <1>5. CASE UNCHANGED <<listed, result, steady>>
    <2>1. Vn!TypeOK'
      BY <1>0, <1>1, <1>2, <1>3, <1>5 DEF Vn!TypeOK
    <2> QED
      BY <1>1, <1>2, <1>5, <2>1 DEF CopiesInv, Says
  <1>6. CASE Vn!Listed(listed \ {w}) /\ result' = [result EXCEPT ![w] = {}]
    <2>1. listed' = listed \ {w} /\ steady' \in [{solo} -> SUBSET listed'] /\ listed' \subseteq Homes
      BY <1>0, <1>6, SoloListed DEF Vn!TypeOK
    <2>2. /\ result' \in [Homes -> SUBSET Vn!Volume] /\ result'[w] = {}
          /\ \A x \in Homes : x # w => result'[x] = result[x]
      BY <1>0, <1>6 DEF Vn!TypeOK
    <2>3. Vn!TypeOK'
      BY <1>0, <1>1, <1>2, <1>3, <2>1, <2>2 DEF Vn!TypeOK
    <2>4. Says(result)'
      BY <2>2 DEF CopiesInv, Says
    <2> QED
      BY <1>1, <1>2, <2>3, <2>4 DEF CopiesInv, Says
  <1> QED
    BY <1>4, <1>5, <1>6

\* A sweep that got all it was to take leaves none of the workspace's volumes.
LEMMA CopiesSweep == ASSUME VnSupposed, CopiesInv, Vn!Sweep(solo) PROVE CopiesInv'
  <1> DEFINE named == my[solo].named
  <1>1. UNCHANGED <<folder, listed, result, container, flock, copy, my, steady>>
        /\ pc[solo] = "sweep"
    BY DEF Vn!Sweep, Vn!devpod
  <1>2. PICK went \in SUBSET volumes : volumes' = volumes \ went /\ kept' = kept \ went
    BY DEF Vn!Sweep
  <1>3. /\ pc' \in [{solo} -> Vn!Step] /\ pc'[solo] \in {"forget", "idle", "next"}
        /\ pc'[solo] = "forget" => named # {} /\ named \cap volumes' = {}
    BY DEF CopiesInv, Vn!Sweep, Vn!After, Vn!Goto, Vn!TypeOK, Vn!Step
  <1>4. kept' \subseteq volumes' /\ volumes' \subseteq Vn!Volume
    BY <1>2 DEF CopiesInv, Vn!TypeOK
  <1>5. Vn!TypeOK'
    BY <1>1, <1>3, <1>4 DEF CopiesInv, Vn!TypeOK
  <1>6. pc'[solo] = "forget" => kept' \cap All(my[solo].ws) = {}
    BY <1>1, <1>3, <1>4 DEF CopiesInv
  <1> QED
    BY <1>1, <1>2, <1>3, <1>5, <1>6 DEF CopiesInv, Says

LEMMA CopiesForget ==
    ASSUME VnSupposed, CopiesInv, Vn!Forget(solo) \/ Vn!Empty(solo)
    PROVE  CopiesInv'
  <1>0. my[solo].ws \in Homes
    BY DEF CopiesInv, Vn!TypeOK, Vn!Mine
  <1>1. UNCHANGED <<folder, listed, result, container, flock, volumes, my, steady>>
    BY DEF Vn!Forget, Vn!Empty, Vn!devpod
  <1>2. /\ pc' \in [{solo} -> Vn!Step] /\ pc'[solo] \in {"idle", "next"}
    BY DEF CopiesInv, Vn!Forget, Vn!Empty, Vn!After, Vn!Goto, Vn!TypeOK, Vn!Step
  <1>3. /\ copy' \in [Homes -> SUBSET Vn!Volume] /\ kept' \subseteq kept
        /\ \A x \in Homes : copy'[x] \in {{}, copy[x]}
        /\ \A v \in kept' : \E x \in Homes : v \in copy'[x]
    <2>1. CASE Vn!Forget(solo)
      <3>1. copy' = [copy EXCEPT ![my[solo].ws] = {}] /\ kept' = kept /\ pc[solo] = "forget"
        BY <2>1 DEF Vn!Forget
      <3>2. /\ copy' \in [Homes -> SUBSET Vn!Volume]
            /\ \A x \in Homes : copy'[x] = IF x = my[solo].ws THEN {} ELSE copy[x]
        BY <1>0, <3>1 DEF CopiesInv, Vn!TypeOK
      <3>3. \A v \in kept : v \notin copy[my[solo].ws]
        BY <1>0, <3>1 DEF CopiesInv, Says
      <3> QED
        BY <3>1, <3>2, <3>3 DEF CopiesInv
    <2>2. CASE Vn!Empty(solo)
      <3>1. PICK stays \in SUBSET Homes :
              /\ copy' = [x \in Homes |-> IF x \in stays THEN copy[x] ELSE {}]
              /\ kept' = kept \cap UNION {copy[x] : x \in stays}
        BY <2>2 DEF Vn!Empty
      <3>2. \A v \in kept' : \E x \in stays : v \in copy[x]
        BY <3>1
      <3> QED
        BY <3>1, <3>2 DEF CopiesInv, Vn!TypeOK
    <2> QED
      BY <2>1, <2>2
  <1>4. Vn!TypeOK'
    BY <1>1, <1>2, <1>3 DEF CopiesInv, Vn!TypeOK
  <1> QED
    BY <1>1, <1>2, <1>3, <1>4 DEF CopiesInv, Says

\* Everybody else.
LEMMA CopiesStrangers ==
    ASSUME VnSupposed, CopiesInv, NEW w \in Homes,
           Vn!BareDelete(w) \/ Vn!BareUp(w) \/ Vn!DropContainer(w) \/ Vn!Move(w)
    PROVE  CopiesInv'
  <1>0. Vn!TypeOK /\ Vn!Names(w) = All(w) /\ All(w) \in SUBSET Vn!Volume
    BY VnNames DEF CopiesInv
  <1>1. ~Vn!Move(w)
    <2> SUFFICES ASSUME Vn!Move(w) PROVE FALSE
      OBVIOUS
    <2> QED
      BY <1>0 DEF Vn!Move, Vn!TypeOK
  <1>2. UNCHANGED <<folder, flock, copy, pc, my, kept>> /\ flock[w] = nobody
    BY <1>1 DEF Vn!BareDelete, Vn!BareUp, Vn!DropContainer, Vn!Stranger
  <1>3. nobody # solo
    BY DEF VnSupposed, Vn!NobodyAssumption
  <1>4. CASE Vn!BareDelete(w)
    <2>1. listed' = listed \ {w} /\ steady' \in [{solo} -> SUBSET listed'] /\ listed' \subseteq Homes
      BY <1>0, <1>4, SoloListed DEF Vn!BareDelete, Vn!TypeOK
    <2>2. /\ result' \in [Homes -> SUBSET Vn!Volume] /\ result'[w] = {}
          /\ \A x \in Homes : x # w => result'[x] = result[x]
          /\ container' \in [Homes -> SUBSET Vn!Volume] /\ volumes' = volumes
      BY <1>0, <1>4 DEF Vn!BareDelete, Vn!TypeOK
    <2>3. Vn!TypeOK'
      BY <1>0, <1>2, <2>1, <2>2 DEF Vn!TypeOK
    <2> QED
      BY <1>2, <1>3, <2>1, <2>2, <2>3 DEF CopiesInv, Says
  <1>5. CASE Vn!BareUp(w)
    <2>1. listed' = listed \cup {w} /\ steady' \in [{solo} -> SUBSET listed'] /\ listed' \subseteq Homes
      BY <1>0, <1>5, SoloListed DEF Vn!BareUp, Vn!TypeOK
    <2>2. /\ result' \in [Homes -> SUBSET Vn!Volume] /\ result'[w] = All(w)
          /\ \A x \in Homes : x # w => result'[x] = result[x]
          /\ container' \in [Homes -> SUBSET Vn!Volume] /\ volumes' = volumes \cup All(w)
      BY <1>0, <1>5 DEF Vn!BareUp, Vn!TypeOK
    <2>3. Vn!TypeOK'
      BY <1>0, <1>2, <2>1, <2>2 DEF Vn!TypeOK
    <2> QED
      BY <1>2, <2>1, <2>2, <2>3 DEF CopiesInv, Says
  <1>6. CASE Vn!DropContainer(w)
    <2>1. UNCHANGED <<listed, result, volumes, steady>>
          /\ container' \in [Homes -> SUBSET Vn!Volume]
      BY <1>0, <1>6 DEF Vn!DropContainer, Vn!TypeOK
    <2>2. Vn!TypeOK'
      BY <1>0, <1>2, <2>1 DEF Vn!TypeOK
    <2> QED
      BY <1>2, <2>1, <2>2 DEF CopiesInv, Says
  <1> QED
    BY <1>1, <1>4, <1>5, <1>6

LEMMA CopiesStep == ASSUME VnSupposed PROVE CopiesInv /\ [Vn!Next]_Vn!vars => CopiesInv'
  <1> SUFFICES ASSUME CopiesInv, [Vn!Next]_Vn!vars PROVE CopiesInv'
    OBVIOUS
  <1>1. CASE UNCHANGED Vn!vars
    BY <1>1 DEF Vn!vars, Vn!devpod, CopiesInv, Vn!TypeOK, Says
  <1>2. CASE Vn!Begin(solo) \/ Vn!Goes(solo) \/ Vn!Crash(solo)
    BY <1>2, CopiesBegin, CopiesMoves, CopiesUp, CopiesKeep, CopiesRead, CopiesDelete, CopiesSweep,
       CopiesForget, Zenon DEF Vn!Goes
  <1>3. CASE \E w \in Homes :
               Vn!BareDelete(w) \/ Vn!BareUp(w) \/ Vn!DropContainer(w) \/ Vn!Move(w)
    BY <1>3, CopiesStrangers
  <1> QED
    BY <1>1, <1>2, <1>3 DEF Vn!Next

(***************************************************************************)
(* Several dls on one workspace: whose volumes a sweep takes is not among  *)
(* the workspaces listed all along.                                        *)
(***************************************************************************)
VrSupposed ==
    /\ Vr!NobodyAssumption /\ Vr!WorkspaceAssumption
    /\ Vr!VerbsAssumption /\ Vr!BoundsAssumption

LEMMA VrGiven == VrSupposed
  BY VrNobodyAssumption, VrWorkspaceAssumption, VrVerbsAssumption, VrBoundsAssumption
  DEF VrSupposed

\* The types the sweeps of several processes lean on.
SweptTypes ==
    /\ folder \in [{w1} -> Sources] /\ listed \subseteq {w1}
    /\ result \in [{w1} -> SUBSET Vr!Volume] /\ copy \in [{w1} -> SUBSET Vr!Volume]
    /\ pc \in [Racers -> Vr!Step] /\ my \in [Racers -> Vr!Mine]
    /\ steady \in [Racers -> SUBSET listed]

\* A removal sweeps behind a delete that devpod granted, and a prune what its second
\* listing did not name: since the workspace was let go of, the history of what was
\* listed all along is without it.
SweptInv ==
    /\ SweptTypes
    /\ \A p \in Racers :
          /\ pc[p] = "sweep" => my[p].ws \notin steady[p]
          /\ my[p].verb = "prune" /\ pc[p] \in {"next", "sweep", "forget"} =>
                my[p].left \cap steady[p] = {}
          /\ my[p].verb = "prune" => pc[p] \notin {"mine", "name", "delete"}

LEMMA SweptInit == ASSUME VrSupposed PROVE Vr!Init => SweptInv
  <1> SUFFICES ASSUME Vr!Init PROVE SweptInv
    OBVIOUS
  <1>1. (CHOOSE w \in {w1} : TRUE) = w1
    OBVIOUS
  <1>2. Vr!Told("up", w1) \in Vr!Mine
    BY DEF Vr!Told, Vr!Mine, Vr!Verb
  <1>3. my \in [Racers -> Vr!Mine]
    BY <1>1, <1>2 DEF Vr!Init
  <1>4. SweptTypes
    BY <1>3 DEF Vr!Init, SweptTypes, Vr!Step
  <1> QED
    BY <1>4 DEF Vr!Init, SweptInv, SweptTypes

LEMMA RaceGoto ==
    ASSUME SweptTypes, NEW p \in Racers, NEW step \in Vr!Step, Vr!Goto(p, step)
    PROVE  /\ pc' \in [Racers -> Vr!Step] /\ pc'[p] = step
           /\ \A q \in Racers : q # p => pc'[q] = pc[q]
  BY DEF SweptTypes, Vr!Goto

\* What was listed all along only shrinks, and the rest is as it was, where nobody
\* begins, answers or comes to a sweep.
LEMMA SweptQuiet ==
    ASSUME SweptInv, folder' \in [{w1} -> Sources], listed' \subseteq {w1},
           result' \in [{w1} -> SUBSET Vr!Volume], copy' \in [{w1} -> SUBSET Vr!Volume],
           pc' \in [Racers -> Vr!Step], UNCHANGED my,
           steady' \in [Racers -> SUBSET listed'],
           \A q \in Racers : steady'[q] \subseteq steady[q],
           \A q \in Racers :
               \/ pc'[q] = pc[q]
               \/ pc'[q] \notin {"next", "sweep", "forget", "mine", "name", "delete"}
               \/ pc'[q] = "sweep" /\ my[q].ws \notin steady'[q] /\ my[q].verb # "prune"
               \/ pc'[q] = "forget" /\ pc[q] = "sweep"
               \/ pc'[q] = "next" /\ (my[q].verb # "prune" \/ pc[q] \in {"sweep", "forget"})
    PROVE  SweptInv'
  BY DEF SweptInv, SweptTypes

LEMMA SweptBegin == ASSUME VrSupposed, SweptInv, NEW p \in Racers, Vr!Begin(p) PROVE SweptInv'
  <1>1. PICK verb \in RaceVerbs, w \in {w1} :
            /\ my' = [my EXCEPT ![p] = Vr!Told(verb, w)]
            /\ Vr!Goto(p, CASE verb = "up" -> "up" [] verb = "prune" -> "plan"
                             [] verb = "purge" -> "mine" [] OTHER -> "name")
    BY DEF Vr!Begin
  <1>2. UNCHANGED <<folder, listed, result, copy>> /\ steady' = [steady EXCEPT ![p] = listed]
    BY DEF Vr!Begin, Vr!devpod
  <1>3. Vr!Told(verb, w) \in Vr!Mine /\ Vr!Told(verb, w).verb = verb
    BY DEF Vr!Told, Vr!Mine, Vr!Verb, VrSupposed, Vr!VerbsAssumption
  <1>4. my' \in [Racers -> Vr!Mine] /\ my'[p].verb = verb
        /\ \A q \in Racers : q # p => my'[q] = my[q]
    BY <1>1, <1>3 DEF SweptInv, SweptTypes
  <1>5. /\ pc' \in [Racers -> Vr!Step] /\ pc'[p] \in {"up", "plan", "mine", "name"}
        /\ verb = "prune" => pc'[p] = "plan"
        /\ \A q \in Racers : q # p => pc'[q] = pc[q]
    BY <1>1 DEF SweptInv, SweptTypes, Vr!Goto, Vr!Step
  <1>6. /\ steady' \in [Racers -> SUBSET listed']
        /\ \A q \in Racers : q # p => steady'[q] = steady[q]
    BY <1>2 DEF SweptInv, SweptTypes
  <1> QED
    BY <1>2, <1>4, <1>5, <1>6 DEF SweptInv, SweptTypes

\* A step that changes what is listed.
LEMMA RaceListed ==
    ASSUME SweptTypes, NEW S \in SUBSET {w1}, Vr!Listed(S)
    PROVE  /\ listed' = S /\ steady' \in [Racers -> SUBSET listed']
           /\ \A q \in Racers : steady'[q] = steady[q] \cap S
  BY DEF SweptTypes, Vr!Listed

LEMMA SweptUp ==
    ASSUME VrSupposed, SweptInv, NEW p \in Racers,
           Vr!Up(p) \/ Vr!Create(p) \/ Vr!UpFails(p) \/ Vr!Complete(p) \/ Vr!Keep(p)
           \/ Vr!Last(p) \/ Vr!Empty(p) \/ Vr!Crash(p)
    PROVE  SweptInv'
  <1>0. my[p].ws = w1 /\ SweptTypes
    BY DEF SweptInv, SweptTypes, Vr!Mine
  <1>1. folder' = folder /\ my' = my
    BY DEF Vr!Up, Vr!Create, Vr!UpFails, Vr!Complete, Vr!Keep, Vr!Last, Vr!Empty, Vr!Crash, Vr!devpod
  <1>2. /\ listed' \subseteq {w1} /\ steady' \in [Racers -> SUBSET listed']
        /\ \A q \in Racers : steady'[q] \subseteq steady[q]
    <2>1. CASE Vr!Up(p)
      <3>1. Vr!Listed(listed \cup {w1}) /\ listed \cup {w1} \in SUBSET {w1}
        BY <1>0, <2>1 DEF Vr!Up, SweptTypes
      <3> QED
        BY <1>0, <3>1, RaceListed
    <2>2. CASE ~Vr!Up(p)
      <3>1. UNCHANGED <<listed, steady>>
        BY <2>2 DEF Vr!Create, Vr!UpFails, Vr!Complete, Vr!Keep, Vr!Last, Vr!Empty, Vr!Crash, Vr!devpod
      <3> QED
        BY <1>0, <3>1 DEF SweptTypes
    <2> QED
      BY <2>1, <2>2
  <1>3. pc' \in [Racers -> Vr!Step] /\ pc'[p] \in {"create", "complete", "keep", "idle", "empty"}
        /\ \A q \in Racers : q # p => pc'[q] = pc[q]
    BY <1>0 DEF Vr!Up, Vr!Create, Vr!UpFails, Vr!Complete, Vr!Keep, Vr!Last, Vr!Empty, Vr!Crash,
       Vr!Goto, SweptTypes, Vr!Step
  <1>4. Vr!Names(w1) \in SUBSET Vr!Volume
    BY <1>0 DEF Vr!Names, Vr!Volume, SweptTypes
  <1>5. result' \in [{w1} -> SUBSET Vr!Volume]
    BY <1>0, <1>4
    DEF Vr!Up, Vr!Create, Vr!UpFails, Vr!Complete, Vr!Keep, Vr!Last, Vr!Empty, Vr!Crash, Vr!devpod, SweptTypes
  <1>6. copy' \in [{w1} -> SUBSET Vr!Volume]
    BY <1>0
    DEF Vr!Up, Vr!Create, Vr!UpFails, Vr!Complete, Vr!Keep, Vr!Last, Vr!Empty, Vr!Crash, Vr!devpod, SweptTypes
  <1> QED
    BY <1>0, <1>1, <1>2, <1>3, <1>5, <1>6, SweptQuiet DEF SweptTypes

LEMMA SweptDelete ==
    ASSUME VrSupposed, SweptInv, NEW p \in Racers,
           Vr!Delete(p) \/ Vr!Sweep(p) \/ Vr!Forget(p)
    PROVE  SweptInv'
  <1>0. my[p].ws = w1 /\ SweptTypes
    BY DEF SweptInv, SweptTypes, Vr!Mine
  <1>1. folder' = folder /\ my' = my
    BY DEF Vr!Delete, Vr!Sweep, Vr!Forget, Vr!devpod
  <1>2. copy' \in [{w1} -> SUBSET Vr!Volume] /\ result' \in [{w1} -> SUBSET Vr!Volume]
    BY <1>0 DEF Vr!Delete, Vr!Sweep, Vr!Forget, Vr!devpod, SweptTypes
  <1>3. \A q \in Racers : q # p => pc'[q] = pc[q]
    BY <1>0 DEF Vr!Delete, Vr!Sweep, Vr!Forget, Vr!Goto, SweptTypes
  <1>4. CASE /\ pc[p] = "delete" /\ my[p].verb # "prune"
             /\ Vr!Listed(listed \ {my[p].ws})
             /\ Vr!Goto(p, "sweep") \/ Vr!Goto(p, "idle")
    <2>1. /\ listed' = listed \ {w1} /\ steady' \in [Racers -> SUBSET listed']
          /\ \A q \in Racers : steady'[q] \subseteq steady[q] /\ w1 \notin steady'[q]
      <3>1. listed \ {w1} \in SUBSET {w1}
        BY <1>0 DEF SweptTypes
      <3> QED
        BY <1>0, <1>4, <3>1, RaceListed
    <2>2. pc' \in [Racers -> Vr!Step] /\ pc'[p] \in {"sweep", "idle", "next"}
      BY <1>0, <1>4 DEF Vr!Goto, SweptTypes, Vr!Step
    <2> QED
      BY <1>0, <1>1, <1>2, <1>3, <1>4, <2>1, <2>2, SweptQuiet DEF SweptTypes
  <1>5. CASE /\ pc[p] = "delete" /\ my[p].verb # "prune"
             /\ Vr!Goto(p, Vr!After(p)) /\ UNCHANGED <<listed, steady>>
    <2>1. pc' \in [Racers -> Vr!Step] /\ pc'[p] \in {"idle", "next"}
      BY <1>0, <1>5 DEF Vr!Goto, Vr!After, SweptTypes, Vr!Step
    <2> QED
      BY <1>0, <1>1, <1>2, <1>3, <1>5, <2>1, SweptQuiet DEF SweptTypes
  <1>6. CASE Vr!Sweep(p) \/ Vr!Forget(p)
    <2>1. UNCHANGED <<listed, steady>> /\ pc[p] \in {"sweep", "forget"}
      BY <1>6 DEF Vr!Sweep, Vr!Forget, Vr!devpod
    <2>2. pc' \in [Racers -> Vr!Step]
          /\ (pc'[p] \in {"idle", "next"} \/ (pc[p] = "sweep" /\ pc'[p] = "forget"))
      <3>1. \/ pc[p] = "sweep" /\ Vr!Goto(p, "forget")
            \/ Vr!Goto(p, Vr!After(p))
        BY <1>6 DEF Vr!Sweep, Vr!Forget
      <3>2. Vr!After(p) \in {"idle", "next"}
        BY DEF Vr!After
      <3>3. Vr!After(p) \in Vr!Step /\ "forget" \in Vr!Step
        BY DEF Vr!After, Vr!Step
      <3> QED
        BY <1>0, <3>1, <3>2, <3>3, RaceGoto
    <2> QED
      BY <1>0, <1>1, <1>2, <1>3, <2>1, <2>2, SweptQuiet DEF SweptTypes
  <1>7. pc[p] = "delete" => my[p].verb # "prune"
    BY DEF SweptInv
  <1> QED
    BY <1>4, <1>5, <1>6, <1>7 DEF Vr!Delete

\* A removal of several takes the next one.
LEMMA RaceTakes ==
    ASSUME SweptTypes, NEW p \in Racers, Vr!NextOne(p)
    PROVE  /\ my' \in [Racers -> Vr!Mine]
           /\ \E w \in my[p].left :
                /\ my'[p].ws = w /\ my'[p].verb = my[p].verb /\ my'[p].left = my[p].left \ {w}
                /\ pc'[p] = IF my[p].verb = "prune" THEN "sweep" ELSE "name"
  <1>0. my[p] \in Vr!Mine /\ my \in [Racers -> Vr!Mine] /\ pc \in [Racers -> Vr!Step]
    BY DEF SweptTypes
  <1>1. PICK w \in my[p].left :
          IF my[p].verb = "prune"
          THEN /\ my' = [my EXCEPT ![p].ws = w, ![p].named = my[p].plan[w], ![p].left = @ \ {w}]
               /\ Vr!Goto(p, "sweep")
          ELSE /\ my' = [my EXCEPT ![p].ws = w, ![p].left = @ \ {w}]
               /\ Vr!Goto(p, "name")
    BY DEF Vr!NextOne
  <1>2. w \in {w1} /\ my[p].plan[w] \in SUBSET Vr!Volume
    BY <1>0 DEF Vr!Mine
  <1>3. CASE my[p].verb = "prune"
    <2>1. my' = [my EXCEPT ![p].ws = w, ![p].named = my[p].plan[w], ![p].left = @ \ {w}]
          /\ Vr!Goto(p, "sweep")
      BY <1>1, <1>3
    <2> QED
      BY <1>0, <1>2, <1>3, <2>1 DEF Vr!Goto, Vr!Mine
  <1>4. CASE my[p].verb # "prune"
    <2>1. my' = [my EXCEPT ![p].ws = w, ![p].left = @ \ {w}] /\ Vr!Goto(p, "name")
      BY <1>1, <1>4
    <2> QED
      BY <1>0, <1>2, <1>4, <2>1 DEF Vr!Goto, Vr!Mine
  <1> QED
    BY <1>3, <1>4

LEMMA SweptRead ==
    ASSUME VrSupposed, SweptInv, NEW p \in Racers,
           Vr!Name(p) \/ Vr!Plan(p) \/ Vr!Answer(p) \/ Vr!Relist(p) \/ Vr!Ours(p) \/ Vr!NextOne(p)
    PROVE  SweptInv'
  <1>0. /\ SweptTypes /\ my[p] \in Vr!Mine
    BY DEF SweptInv, SweptTypes
  <1>1. UNCHANGED <<folder, listed, result, copy>>
    BY DEF Vr!Name, Vr!Plan, Vr!Answer, Vr!Relist, Vr!Ours, Vr!NextOne, Vr!devpod
  <1>2. \A q \in Racers : q # p => pc'[q] = pc[q] /\ my'[q] = my[q] /\ steady'[q] = steady[q]
    BY <1>0 DEF Vr!Name, Vr!Plan, Vr!Answer, Vr!Relist, Vr!Ours, Vr!NextOne, Vr!Goto, SweptTypes
  <1>3. SUFFICES ASSUME pc' \in [Racers -> Vr!Step], my' \in [Racers -> Vr!Mine],
                        steady' \in [Racers -> SUBSET listed]
                 PROVE  /\ pc'[p] = "sweep" => my'[p].ws \notin steady'[p]
                        /\ my'[p].verb = "prune" /\ pc'[p] \in {"next", "sweep", "forget"} =>
                              my'[p].left \cap steady'[p] = {}
                        /\ my'[p].verb = "prune" => pc'[p] \notin {"mine", "name", "delete"}
    <2>1. pc' \in [Racers -> Vr!Step]
      BY <1>0 DEF Vr!Name, Vr!Plan, Vr!Answer, Vr!Relist, Vr!Ours, Vr!NextOne, Vr!Goto, SweptTypes,
         Vr!Step
    <2>2. steady' \in [Racers -> SUBSET listed]
      BY <1>0 DEF Vr!Name, Vr!Plan, Vr!Answer, Vr!Relist, Vr!Ours, Vr!NextOne, SweptTypes
    <2>3. my' \in [Racers -> Vr!Mine]
      <3>1. CASE Vr!Name(p)
        BY <1>0, <3>1 DEF Vr!Name, SweptTypes, Vr!Mine
      <3>2. CASE Vr!Plan(p)
        <4> DEFINE seen == [w \in {w1} |-> IF w \in listed THEN {} ELSE copy[w]]
        <4>1. seen \in [{w1} -> SUBSET Vr!Volume]
          BY <1>0 DEF SweptTypes
        <4>2. my' = [my EXCEPT ![p].plan = seen]
          BY <3>2 DEF Vr!Plan
        <4> HIDE DEF seen
        <4> QED
          BY <1>0, <4>1, <4>2 DEF SweptTypes, Vr!Mine
      <3>3. CASE Vr!Answer(p)
        BY <1>0, <3>3 DEF Vr!Answer, SweptTypes
      <3>4. CASE Vr!Relist(p) \/ Vr!Ours(p)
        <4>1. PICK S \in SUBSET {w1} : my' = [my EXCEPT ![p].left = S]
          BY <1>0, <3>4 DEF Vr!Relist, Vr!Ours, SweptTypes
        <4> QED
          BY <1>0, <4>1 DEF SweptTypes, Vr!Mine
      <3>5. CASE Vr!NextOne(p)
        BY <1>0, <3>5, RaceTakes DEF SweptTypes
      <3> QED
        BY <3>1, <3>2, <3>3, <3>4, <3>5
    <2> QED
      BY <1>0, <1>1, <1>2, <2>1, <2>2, <2>3 DEF SweptInv, SweptTypes
  <1>4. CASE Vr!Name(p)
    <2>1. my'[p].verb = my[p].verb /\ pc[p] = "name" /\ pc'[p] = "delete"
      BY <1>0, <1>4 DEF Vr!Name, Vr!Goto, SweptTypes, Vr!Mine
    <2> QED
      BY <2>1 DEF SweptInv
  <1>5. CASE Vr!Plan(p) \/ Vr!Answer(p)
    <2>1. pc'[p] \in {"answer", "idle", "relist"}
      BY <1>0, <1>5 DEF Vr!Plan, Vr!Answer, Vr!Goto, SweptTypes
    <2> QED
      BY <2>1
  <1>6. CASE Vr!Relist(p) \/ Vr!Ours(p)
    <2>1. pc'[p] = "next" /\ steady' = steady
      BY <1>0, <1>6 DEF Vr!Relist, Vr!Ours, Vr!Goto, SweptTypes
    <2>2. CASE Vr!Relist(p)
      <3> DEFINE S == {w \in {w1} \ listed : my[p].plan[w] # {}}
      <3>1. my' = [my EXCEPT ![p].left = S] /\ S \cap listed = {}
        BY <2>2 DEF Vr!Relist
      <3> HIDE DEF S
      <3>2. my'[p].left = S
        BY <1>0, <3>1 DEF SweptTypes, Vr!Mine
      <3>3. steady'[p] \subseteq listed
        BY <1>0, <2>1 DEF SweptTypes
      <3> QED
        BY <2>1, <3>1, <3>2, <3>3
    <2>3. CASE Vr!Ours(p)
      <3>1. my'[p].verb = my[p].verb /\ pc[p] = "mine"
        BY <1>0, <2>3 DEF Vr!Ours, SweptTypes, Vr!Mine
      <3> QED
        BY <2>1, <3>1 DEF SweptInv
    <2> QED
      BY <1>6, <2>2, <2>3
  <1>7. CASE Vr!NextOne(p)
    <2>1. PICK w \in my[p].left :
            /\ my'[p].ws = w /\ my'[p].verb = my[p].verb /\ my'[p].left = my[p].left \ {w}
            /\ pc'[p] = IF my[p].verb = "prune" THEN "sweep" ELSE "name"
      BY <1>0, <1>7, RaceTakes
    <2>2. steady' = steady /\ pc[p] = "next"
      BY <1>7 DEF Vr!NextOne
    <2>3. my[p].verb = "prune" => my[p].left \cap steady[p] = {}
      BY <2>2 DEF SweptInv
    <2> QED
      BY <2>1, <2>2, <2>3
  <1> QED
    BY <1>4, <1>5, <1>6, <1>7

\* Nobody else is asked what they leave listed: what is let go of is not listed all along.
LEMMA SweptStrangers ==
    ASSUME VrSupposed, SweptInv, NEW w \in {w1},
           Vr!BareDelete(w) \/ Vr!BareUp(w) \/ Vr!DropContainer(w) \/ Vr!Move(w)
    PROVE  SweptInv'
  <1>0. SweptTypes /\ w = w1
    BY DEF SweptInv
  <1>1. UNCHANGED <<copy, pc, my>>
    BY DEF Vr!BareDelete, Vr!BareUp, Vr!DropContainer, Vr!Move, Vr!Stranger
  <1>2. folder' \in [{w1} -> Sources]
    BY <1>0 DEF Vr!BareDelete, Vr!BareUp, Vr!DropContainer, Vr!Move, Vr!Stranger, SweptTypes
  <1>3. /\ listed' \subseteq {w1} /\ steady' \in [Racers -> SUBSET listed']
        /\ \A q \in Racers : steady'[q] \subseteq steady[q]
    <2>1. CASE Vr!BareDelete(w) \/ Vr!BareUp(w)
      <3>1. PICK S \in SUBSET {w1} : Vr!Listed(S)
        BY <1>0, <2>1 DEF Vr!BareDelete, Vr!BareUp, SweptTypes
      <3> QED
        BY <1>0, <3>1, RaceListed
    <2>2. CASE Vr!DropContainer(w) \/ Vr!Move(w)
      BY <1>0, <2>2 DEF Vr!DropContainer, Vr!Move, SweptTypes
    <2> QED
      BY <2>1, <2>2
  <1>4. Vr!Names(w1) \in SUBSET Vr!Volume
    BY <1>0 DEF Vr!Names, Vr!Volume, SweptTypes
  <1>5. result' \in [{w1} -> SUBSET Vr!Volume]
    BY <1>0, <1>4 DEF Vr!BareDelete, Vr!BareUp, Vr!DropContainer, Vr!Move, SweptTypes
  <1> QED
    BY <1>0, <1>1, <1>2, <1>3, <1>5, SweptQuiet DEF SweptTypes

LEMMA SweptStep == ASSUME VrSupposed PROVE SweptInv /\ [Vr!Next]_Vr!vars => SweptInv'
  <1> SUFFICES ASSUME SweptInv, [Vr!Next]_Vr!vars PROVE SweptInv'
    OBVIOUS
  <1>1. CASE UNCHANGED Vr!vars
    BY <1>1 DEF Vr!vars, Vr!devpod, SweptInv, SweptTypes
  <1>2. ASSUME NEW p \in Racers, Vr!Begin(p) \/ Vr!Goes(p) \/ Vr!Crash(p) PROVE SweptInv'
    BY <1>2, SweptBegin, SweptUp, SweptDelete, SweptRead, Zenon DEF Vr!Goes
  <1>3. CASE \E w \in {w1} :
               Vr!BareDelete(w) \/ Vr!BareUp(w) \/ Vr!DropContainer(w) \/ Vr!Move(w)
    BY <1>3, SweptStrangers
  <1> QED
    BY <1>1, <1>2, <1>3 DEF Vr!Next

LEMMA SweptMeans == ASSUME SweptInv PROVE Vr!SweptAfterLetGo
  <1> SUFFICES ASSUME NEW p \in Racers, NEW w \in {w1}, pc[p] = "sweep", w \in steady[p]
               PROVE  FALSE
    BY DEF Vr!SweptAfterLetGo
  <1>1. my[p].ws = w1
    BY DEF SweptInv, SweptTypes, Vr!Mine
  <1> QED
    BY <1>1 DEF SweptInv

\* What a copy has named stays named until docker has removed it: a removal drops a
\* copy only after the sweep that took every volume it names (sweep_volumes), whichever
\* step dl dies at or docker refuses.  And of two dls, with strangers deleting and
\* recreating behind them, none sweeps a workspace devpod has listed all along
\* (prune's second listing).
THEOREM VolumesAreSafe == Spec => VolumesSafe
  <1> DEFINE OwnInv == /\ part = "names" => CopiesInv
                       /\ part = "races" => SweptInv
  <1>1. Init => OwnInv
    BY StartsAsOne, VnGiven, VrGiven, CopiesInit, SweptInit
  <1>2. OwnInv /\ [Next]_vars => OwnInv'
    BY StepsAsOne, VnGiven, VrGiven, CopiesStep, SweptStep
  <1>3. CopiesInv => Vn!TypeOK /\ Vn!StaysNamed
    BY DEF CopiesInv, Vn!StaysNamed, Vn!Named
  <1>4. OwnInv => /\ part = "names" => Vn!TypeOK /\ Vn!StaysNamed
                  /\ part = "races" => Vr!SweptAfterLetGo
    BY <1>3, SweptMeans
  <1> QED
    BY <1>1, <1>2, <1>4, PTL DEF Spec, VolumesSafe

(***************************************************************************)
(* Prune and the agent worktrees.  What the second weighing said of a unit *)
(* still to be looked at is so, wherever nobody came after it; and a run's *)
(* own removals are of other places.                                       *)
(***************************************************************************)
WtSupposed == Wt!PlacesAssumption /\ Wt!BoundsAssumption

LEMMA WtGiven == WtSupposed
  BY WtPlacesAssumption, WtBoundsAssumption DEF WtSupposed

Place == [kind : Wt!Kinds, dirty : BOOLEAN, env : Wt!Envs]
Entry == [on : BOOLEAN, lock : BOOLEAN, elsewhere : BOOLEAN, admin : BOOLEAN]

\* A place, or one of those in it.
Beneath(s, t) == t = s \/ <<s, t>> \in Nesting
\* A place that holds nothing but the clone's own, and nothing of value.
HoldsNothing(t) ==
    Wt!Ours(t) /\ ~Wt!Dirty(t) /\ ~Wt!Unaskable(t) /\ ~Wt!NowhereElse(t) /\ ~Wt!Claimed(t)

AtRest   == pc # "acting" => fresh = Wt!NoPlan /\ todo = {} /\ names = {}
Rooted   == \A p \in Nesting : Wt!Here(p[2]) => Wt!Here(p[1])
Approved ==
    /\ \A u, w \in plan.units : u.at = w.at => u = w
    /\ \A u \in plan.units : \A r \in u.forgets : Where[r] \in u.radius

\* The units of the second weighing.
Reweighed ==
    \A v \in fresh.units :
        /\ v.at \in v.radius /\ \A t \in v.radius : Beneath(v.at, t)
        /\ v.insisted => \E u \in plan.units : u.at = v.at /\ u.insisted
        /\ \A r \in v.forgets :
              /\ Where[r] \in v.radius
              /\ \/ v.insisted \/ Where[r] \in sinceWeigh
                 \/ ~reg[r].lock /\ reg[r].elsewhere

\* Those the run has not come to.
Ahead == {v \in fresh.units : \E u \in todo : Wt!Same(u, v)}
AsWeighed ==
    \A v \in Ahead :
        /\ \A t \in v.radius \ sinceWeigh :
              /\ v.insisted \/ HoldsNothing(t)
              /\ Wt!Ours(t) => \E r \in v.forgets : Where[r] = t
        /\ v.bytes => \A t \in Spots : Beneath(v.at, t) /\ Wt!Here(t) => t \in v.radius \cup sinceWeigh
        /\ ~v.bytes => \A t \in v.radius : Wt!Here(t) => t \in sinceWeigh
        /\ \A r \in names : Where[r] \notin v.radius

ToForget ==
    \A r \in names :
        /\ Wt!Here(Where[r]) => Where[r] \in sinceWeigh
        /\ \E u \in plan.units : r \in u.forgets
        /\ \E v \in fresh.units : r \in v.forgets

EnvsAsWeighed ==
    \A s \in fresh.envs :
        /\ s \notin sinceWeigh /\ at[s].kind \in {"plain", "worktree"} => at[s].env = "derivable"
        /\ \A t \in {s} \cup Wt!Holder(s) :
              t \notin sinceWeigh /\ Wt!Here(t) /\ Wt!Ours(t) => ~Wt!Claimed(t)

Gone == Wt!NoWorkLost /\ Wt!GrowsByStrangersOnly /\ Wt!EnvsAreDerivable
WorkInv ==
    /\ Wt!TypeOK /\ AtRest /\ Rooted /\ Approved /\ Reweighed /\ AsWeighed /\ ToForget
    /\ EnvsAsWeighed /\ Gone

-----------------------------------------------------------------------------
LEMMA ReasonsAre ==
    ASSUME NEW t, NEW mute
    PROVE  /\ Wt!Reasons(t, mute) = {} => HoldsNothing(t)
           /\ HoldsNothing(t) => Wt!Reasons(t, {}) = {}
           /\ "claim" \notin Wt!Reasons(t, mute) => ~Wt!Ours(t) \/ ~Wt!Claimed(t)
           /\ ~Wt!Ours(t) \/ ~Wt!Claimed(t) => "claim" \notin Wt!Reasons(t, mute)
  <1>1. CASE ~Wt!Ours(t)
    BY <1>1 DEF Wt!Reasons, HoldsNothing
  <1>2. CASE Wt!Ours(t)
    <2>1. \A m : /\ "dirty" \in Wt!Reasons(t, m) <=> Wt!Dirty(t)
                 /\ "unaskable" \in Wt!Reasons(t, m) <=> Wt!Unaskable(t)
                 /\ "commits" \in Wt!Reasons(t, m) <=> Wt!NowhereElse(t)
                 /\ "claim" \in Wt!Reasons(t, m) <=> Wt!Claimed(t)
                 /\ "blank" \in Wt!Reasons(t, m) <=> t \in m
                 /\ Wt!Reasons(t, m) \subseteq {"dirty", "unaskable", "commits", "claim", "blank"}
      BY <1>2 DEF Wt!Reasons
    <2> QED
      BY <1>2, <2>1 DEF HoldsNothing
  <1> QED
    BY <1>1, <1>2

\* What a place is is what is there and what is registered there.
LEMMA SameThere ==
    ASSUME NEW t, at'[t] = at[t], \A r \in Listings : Where[r] = t => reg'[r] = reg[r]
    PROVE  /\ Wt!Here(t)' = Wt!Here(t) /\ Wt!Ours(t)' = Wt!Ours(t)
           /\ Wt!Claimed(t)' = Wt!Claimed(t) /\ HoldsNothing(t)' = HoldsNothing(t)
  <1>1. Wt!Here(t)' = Wt!Here(t)
    BY DEF Wt!Here
  <1>2. Wt!Joined(t)' = Wt!Joined(t) /\ \A r \in Wt!Joined(t) : reg'[r] = reg[r]
    BY DEF Wt!Joined
  <1>3. Wt!Ours(t)' = Wt!Ours(t) /\ Wt!Claimed(t)' = Wt!Claimed(t)
    BY <1>2 DEF Wt!Ours, Wt!Claimed
  <1>4. Wt!Dirty(t)' = Wt!Dirty(t) /\ Wt!Unaskable(t)' = Wt!Unaskable(t)
        /\ Wt!NowhereElse(t)' = Wt!NowhereElse(t)
    BY <1>1, <1>2 DEF Wt!Dirty, Wt!Unaskable, Wt!NowhereElse
  <1> QED
    BY <1>1, <1>3, <1>4 DEF HoldsNothing

-----------------------------------------------------------------------------
(* A weighing.                                                             *)
LEMMA UnitIs ==
    ASSUME NEW mute, NEW insisted, NEW v \in Wt!Units(mute, insisted)
    PROVE  v = [at |-> v.at, bytes |-> Wt!Here(v.at),
                forgets |-> UNION {{r \in Wt!Joined(t) : Wt!Ours(t)} : t \in Wt!Tree(v.at)},
                insisted |-> \E t \in Wt!Tree(v.at) : Wt!Reasons(t, mute) # {},
                radius |-> Wt!Tree(v.at)]
  <1>1. PICK s \in {x \in Wt!Nodes : /\ Wt!Removable(x, mute, insisted)
                                     /\ \A o \in Wt!Outer(x) : ~Wt!Removable(o, mute, insisted)} :
          v = [at |-> s, bytes |-> Wt!Here(s),
               forgets |-> UNION {{r \in Wt!Joined(t) : Wt!Ours(t)} : t \in Wt!Tree(s)},
               insisted |-> \E t \in Wt!Tree(s) : Wt!Reasons(t, mute) # {}, radius |-> Wt!Tree(s)]
    BY DEF Wt!Units
  <1>2. v.at = s
    BY <1>1
  <1> QED
    BY <1>1, <1>2

LEMMA UnitsAre ==
    ASSUME NEW mute, NEW insisted, NEW v \in Wt!Units(mute, insisted)
    PROVE  /\ v.at \in Wt!Nodes /\ Wt!Removable(v.at, mute, insisted)
           /\ \A o \in Wt!Outer(v.at) : ~Wt!Removable(o, mute, insisted)
           /\ v.bytes = Wt!Here(v.at) /\ v.radius = Wt!Tree(v.at)
           /\ v.forgets = UNION {{r \in Wt!Joined(t) : Wt!Ours(t)} : t \in Wt!Tree(v.at)}
           /\ v.insisted \in BOOLEAN
           /\ v.insisted <=> \E t \in Wt!Tree(v.at) : Wt!Reasons(t, mute) # {}
  <1>1. PICK s \in {x \in Wt!Nodes : /\ Wt!Removable(x, mute, insisted)
                                     /\ \A o \in Wt!Outer(x) : ~Wt!Removable(o, mute, insisted)} :
          v = [at |-> s, bytes |-> Wt!Here(s),
               forgets |-> UNION {{r \in Wt!Joined(t) : Wt!Ours(t)} : t \in Wt!Tree(s)},
               insisted |-> \E t \in Wt!Tree(s) : Wt!Reasons(t, mute) # {}, radius |-> Wt!Tree(s)]
    BY DEF Wt!Units
  <1>2. v.at = s
    BY <1>1
  <1> QED
    BY <1>1, <1>2

LEMMA TreeIs ==
    ASSUME WtSupposed, NEW s \in Spots
    PROVE  /\ s \in Wt!Tree(s) /\ Wt!Tree(s) \in SUBSET Spots
           /\ \A t \in Wt!Tree(s) : Beneath(s, t) /\ (t = s \/ (Wt!Here(s) /\ Wt!Here(t)))
           /\ \A t \in Spots : Wt!Here(s) /\ Beneath(s, t) /\ Wt!Here(t) => t \in Wt!Tree(s)
           /\ ~Wt!Here(s) => Wt!Tree(s) = {s}
  BY DEF WtSupposed, Wt!PlacesAssumption, Wt!Tree, Beneath

LEMMA OuterIs ==
    ASSUME WtSupposed, NEW s
    PROVE  /\ \A o : o \in Wt!Outer(s) <=> (<<o, s>> \in Nesting /\ Wt!Here(s))
           /\ \A o \in Wt!Outer(s) : Wt!Outer(o) = {} /\ o \in Spots
  <1>1. \A o : o \in Wt!Holder(s) <=> <<o, s>> \in Nesting
    <2>1. \A q \in Nesting : q = <<q[1], q[2]>> /\ q[1] \in Spots /\ q[2] \in Spots
      BY DEF WtSupposed, Wt!PlacesAssumption
    <2> QED
      BY <2>1 DEF Wt!Holder
  <1>2. \A o : o \in Wt!Outer(s) <=> (<<o, s>> \in Nesting /\ Wt!Here(s))
    BY <1>1 DEF Wt!Outer
  <1>3. ASSUME NEW o \in Wt!Outer(s) PROVE Wt!Outer(o) = {} /\ o \in Spots
    <2>1. <<o, s>> \in Nesting
      BY <1>2, <1>3
    <2>2. o \in Spots /\ \A q \in Nesting : q[2] # o
      BY <2>1 DEF WtSupposed, Wt!PlacesAssumption
    <2> QED
      BY <2>2 DEF Wt!Outer, Wt!Holder
  <1> QED
    BY <1>2, <1>3

LEMMA UnitsType ==
    ASSUME WtSupposed, NEW mute, NEW insisted, NEW v \in Wt!Units(mute, insisted)
    PROVE  v \in Wt!Unit /\ v.at \in Spots
  <1>1. v.at \in Spots
    BY UnitsAre DEF Wt!Nodes
  <1>2. v.bytes \in BOOLEAN /\ v.insisted \in BOOLEAN
    BY UnitsAre DEF Wt!Here
  <1>3. v.radius \in SUBSET Spots
    BY <1>1, UnitsAre, TreeIs
  <1>4. v.forgets \in SUBSET Listings
    BY UnitsAre DEF Wt!Joined
  <1> QED
    <2> DEFINE S == v.at
               B == Wt!Here(v.at)
               F == UNION {{r \in Wt!Joined(t) : Wt!Ours(t)} : t \in Wt!Tree(v.at)}
               J == \E t \in Wt!Tree(v.at) : Wt!Reasons(t, mute) # {}
               R == Wt!Tree(v.at)
    <2>1. v = [at |-> S, bytes |-> B, forgets |-> F, insisted |-> J, radius |-> R]
      BY UnitIs, Zenon
    <2>2. J \in BOOLEAN
      OBVIOUS
    <2> HIDE DEF S, B, F, J, R
    <2>3. v.at = S /\ v.bytes = B /\ v.forgets = F /\ v.insisted = J /\ v.radius = R
      BY <2>1, Zenon
    <2>4. S \in Spots /\ B \in BOOLEAN /\ F \in SUBSET Listings /\ R \in SUBSET Spots
      BY <1>1, <1>2, <1>3, <1>4, <2>3
    <2> QED
      BY <2>1, <2>2, <2>4, Zenon DEF Wt!Unit

\* Two units have two roots, and no place in common.
LEMMA UnitsApart ==
    ASSUME WtSupposed, NEW mute, NEW insisted,
           NEW v \in Wt!Units(mute, insisted), NEW w \in Wt!Units(mute, insisted)
    PROVE  /\ v.at = w.at => v = w
           /\ v # w => v.radius \cap w.radius = {}
  <1>1. v.at = w.at => v = w
    BY UnitIs, Zenon
  <1>2. ASSUME NEW t \in v.radius \cap w.radius, v.at # w.at PROVE FALSE
    <2>1. Beneath(v.at, t) /\ (t = v.at \/ Wt!Here(t)) /\ v.at \in Spots
      BY <1>2, UnitsAre, UnitsType, TreeIs
    <2>2. Beneath(w.at, t) /\ (t = w.at \/ Wt!Here(t)) /\ w.at \in Spots
      BY <1>2, UnitsAre, UnitsType, TreeIs
    <2>3. CASE t = v.at
      <3>1. w.at \in Wt!Outer(v.at)
        BY <1>2, <2>2, <2>3, OuterIs DEF Beneath
      <3> QED
        BY <3>1, UnitsAre
    <2>4. CASE t = w.at
      <3>1. v.at \in Wt!Outer(w.at)
        BY <1>2, <2>1, <2>4, OuterIs DEF Beneath
      <3> QED
        BY <3>1, UnitsAre
    <2>5. CASE t # v.at /\ t # w.at
      <3>1. <<v.at, t>> \in Nesting /\ <<w.at, t>> \in Nesting
        BY <2>1, <2>2, <2>5 DEF Beneath
      <3> QED
        BY <1>2, <3>1 DEF WtSupposed, Wt!PlacesAssumption
    <2> QED
      BY <2>3, <2>4, <2>5
  <1> QED
    BY <1>1, <1>2

\* What a weighing says of a unit.
LEMMA UnitsMean ==
    ASSUME WtSupposed, NEW mute, NEW insisted, NEW v \in Wt!Units(mute, insisted)
    PROVE  /\ v.insisted => v.at \in insisted
           /\ ~v.insisted => \A t \in v.radius : HoldsNothing(t)
           /\ \A r \in v.forgets : Where[r] \in v.radius
           /\ \A r \in v.forgets : v.insisted \/ (~reg[r].lock /\ reg[r].elsewhere)
           /\ \A t \in v.radius : Wt!Ours(t) => \E r \in v.forgets : Where[r] = t
  <1>1. v.at \in Spots
    BY UnitsType
  <1>2. ASSUME v.insisted PROVE v.at \in insisted
    <2>1. Wt!Root(v.at) \cap insisted # {}
      BY <1>2, UnitsAre DEF Wt!Removable
    <2>2. ASSUME NEW o \in Wt!Outer(v.at), o \in insisted PROVE FALSE
      <3>1. Wt!Root(o) = {o}
        BY OuterIs DEF Wt!Root
      <3>2. Wt!Removable(o, mute, insisted)
        BY <2>2, <3>1 DEF Wt!Removable
      <3> QED
        BY <3>2, UnitsAre
    <2> QED
      BY <2>1, <2>2 DEF Wt!Root
  <1>3. ASSUME ~v.insisted PROVE \A t \in v.radius : HoldsNothing(t)
    BY <1>3, UnitsAre, ReasonsAre
  <1>4. \A r \in v.forgets :
            r \in Listings /\ reg[r].on /\ Where[r] \in v.radius
    BY UnitsAre DEF Wt!Joined
  <1>5. ASSUME NEW r \in v.forgets, ~v.insisted PROVE ~reg[r].lock /\ reg[r].elsewhere
    <2>1. r \in Wt!Joined(Where[r]) /\ HoldsNothing(Where[r])
      BY <1>3, <1>4, <1>5 DEF Wt!Joined
    <2> QED
      BY <2>1 DEF HoldsNothing, Wt!NowhereElse, Wt!Claimed
  <1>6. ASSUME NEW t \in v.radius, Wt!Ours(t) PROVE \E r \in v.forgets : Where[r] = t
    <2>1. PICK r \in Wt!Joined(t) : TRUE
      BY <1>6 DEF Wt!Ours
    <2> QED
      BY <1>6, <2>1, UnitsAre DEF Wt!Joined
  <1> QED
    BY <1>2, <1>3, <1>4, <1>5, <1>6

\* What a weighing says of an environment.
LEMMA EnvsMean ==
    ASSUME WtSupposed, NEW mute, NEW insisted, NEW s \in Wt!Derivable(mute, insisted)
    PROVE  /\ s \in Spots /\ at[s].env = "derivable"
           /\ \A t \in {s} \cup Wt!Holder(s) :
                 Wt!Here(t) /\ Wt!Ours(t) => ~Wt!Claimed(t)
  <1>1. s \in Spots /\ at[s].env = "derivable" /\ Wt!Claims(s, mute) = {}
    BY DEF Wt!Derivable
  <1>2. ASSUME NEW t \in {s} \cup Wt!Holder(s), Wt!Here(t) PROVE "claim" \notin Wt!Reasons(t, mute)
    <2>1. Wt!Here(s)
      BY DEF Wt!Derivable, Wt!Here
    <2>2. t \in {s} \cup Wt!Outer(s)
      BY <1>2, <2>1 DEF Wt!Outer
    <2> QED
      BY <1>1, <2>2 DEF Wt!Claims
  <1> QED
    BY <1>1, <1>2, ReasonsAre

LEMMA WeighedType ==
    ASSUME WtSupposed, NEW mute, NEW insisted
    PROVE  /\ Wt!Weighed(mute, insisted).envs = Wt!Derivable(mute, insisted)
           /\ Wt!Weighed(mute, insisted).units = Wt!Units(mute, insisted)
           /\ Wt!Weighed(mute, insisted).envs \subseteq Spots
           /\ \A v \in Wt!Weighed(mute, insisted).units : v \in Wt!Unit
  BY UnitsType, EnvsMean DEF Wt!Weighed

-----------------------------------------------------------------------------
LEMMA WorkInit == ASSUME WtSupposed PROVE Wt!Init => WorkInv
  <1> SUFFICES ASSUME Wt!Init PROVE WorkInv
    OBVIOUS
  <1>1. at \in [Spots -> Place]
    <2> DEFINE S == {Wt!Empty} \cup [kind : {"plain"}, dirty : {TRUE}, env : {"none"}]
                     \cup [kind : {"worktree"}, dirty : BOOLEAN, env : {"none", "derivable"}]
    <2>1. \A x \in S : x \in Place
      <3>1. Wt!Empty \in Place
        BY DEF Wt!Empty, Wt!Kinds, Wt!Envs, Place
      <3>2. \A x \in [kind : {"plain"}, dirty : {TRUE}, env : {"none"}] : x \in Place
        BY DEF Wt!Kinds, Wt!Envs, Place
      <3>3. \A x \in [kind : {"worktree"}, dirty : BOOLEAN, env : {"none", "derivable"}] : x \in Place
        BY DEF Wt!Kinds, Wt!Envs, Place
      <3> QED
        BY <3>1, <3>2, <3>3
    <2>2. at \in [Spots -> S]
      BY DEF Wt!Init
    <2> HIDE DEF S
    <2> QED
      BY <2>1, <2>2
  <1>2. reg \in [Listings -> Entry]
    <2> DEFINE S == {Wt!Off, [Wt!Off EXCEPT !.on = TRUE],
                     [Wt!Off EXCEPT !.on = TRUE, !.lock = TRUE],
                     [Wt!Off EXCEPT !.on = TRUE, !.elsewhere = FALSE]}
    <2>1. \A x \in S : x \in Entry
      <3>1. Wt!Off \in Entry
        BY DEF Wt!Off, Entry
      <3>2. \A x \in Entry : /\ [x EXCEPT !.on = TRUE] \in Entry
                             /\ [x EXCEPT !.lock = TRUE] \in Entry
                             /\ [x EXCEPT !.elsewhere = FALSE] \in Entry
        BY DEF Entry
      <3> QED
        BY <3>1, <3>2
    <2>2. reg \in [Listings -> S]
      BY DEF Wt!Init
    <2> HIDE DEF S
    <2> QED
      BY <2>1, <2>2
  <1>3. plan = Wt!NoPlan /\ fresh = Wt!NoPlan /\ todo = {} /\ names = {} /\ gone = {} /\ pc = "idle"
        /\ sinceWeigh = {} /\ moves = 0 /\ faults = 0
    BY DEF Wt!Init
  <1>4. Wt!NoPlan.units = {} /\ Wt!NoPlan.envs = {}
    BY DEF Wt!NoPlan
  <1>5. Wt!TypeOK
    BY <1>1, <1>2, <1>3, <1>4 DEF Wt!TypeOK, Place, Entry, WtSupposed, Wt!BoundsAssumption
  <1>6. Rooted
    BY DEF Wt!Init, Rooted
  <1> QED
    BY <1>3, <1>4, <1>5, <1>6
    DEF WorkInv, AtRest, Approved, Reweighed, Ahead, AsWeighed, ToForget, EnvsAsWeighed, Gone,
        Wt!NoWorkLost, Wt!GrowsByStrangersOnly, Wt!EnvsAreDerivable

\* What the others do is done at one place, and nothing that was there goes.
LEMMA OthersAre ==
    ASSUME WtSupposed, Wt!TypeOK, Rooted, Wt!Others
    PROVE  \E s \in Spots :
              /\ Wt!Move(s)
              /\ at' \in [Spots -> Place]
              /\ reg' \in [Listings -> Entry]
              /\ \A t \in Spots : t # s => at'[t] = at[t]
              /\ \A r \in Listings : Where[r] # s => reg'[r] = reg[r]
              /\ Rooted'
  <1>0. /\ at \in [Spots -> Place] /\ reg \in [Listings -> Entry] /\ Where \in [Listings -> Spots]
        /\ \A p \in Nesting : p[1] \in Spots /\ p[2] \in Spots /\ p[1] # p[2]
        /\ \A s, h : h \in Wt!Holder(s) <=> \E p \in Nesting : p[1] = h /\ p[2] = s
    BY DEF Wt!TypeOK, Place, Entry, WtSupposed, Wt!PlacesAssumption, Wt!Holder
  <1>1. ASSUME NEW s \in Spots, at' = at, Wt!Move(s), reg' \in [Listings -> Entry],
               \A r \in Listings : Where[r] # s => reg'[r] = reg[r]
        PROVE  \A t \in Spots : t # s => at'[t] = at[t] /\ Rooted'
    BY <1>0, <1>1 DEF Rooted, Wt!Here
  <1>2. ASSUME NEW s \in Spots, NEW x \in Place,
               at' = [at EXCEPT ![s] = x], x.kind # "absent",
               Wt!Here(s) \/ \A h \in Wt!Holder(s) : Wt!Here(h)
        PROVE  at' \in [Spots -> Place] /\ (\A t \in Spots : t # s => at'[t] = at[t]) /\ Rooted'
    <2>1. at' \in [Spots -> Place] /\ at'[s] = x /\ \A t \in Spots : t # s => at'[t] = at[t]
      BY <1>0, <1>2
    <2>2. ASSUME NEW p \in Nesting, Wt!Here(p[2])' PROVE Wt!Here(p[1])'
      <3>1. Wt!Here(p[1])
        BY <1>0, <1>2, <2>1, <2>2 DEF Rooted, Wt!Here
      <3> QED
        BY <1>0, <1>2, <2>1, <3>1 DEF Wt!Here
    <2> QED
      BY <2>1, <2>2 DEF Rooted
  <1>3. ASSUME NEW r \in Listings, NEW e, reg' = [reg EXCEPT ![r] = e], e \in Entry
        PROVE  reg' \in [Listings -> Entry] /\ \A q \in Listings : q # r => reg'[q] = reg[q]
    BY <1>0, <1>3
  <1>4. \A x \in Place :
            /\ [x EXCEPT !.kind = "worktree"] \in Place
            /\ [x EXCEPT !.kind = "worktree"].kind = "worktree"
            /\ [x EXCEPT !.dirty = TRUE] \in Place /\ [x EXCEPT !.dirty = TRUE].kind = x.kind
            /\ [x EXCEPT !.dirty = FALSE] \in Place /\ [x EXCEPT !.dirty = FALSE].kind = x.kind
            /\ \A c \in Wt!Envs :
                  [x EXCEPT !.env = c] \in Place /\ [x EXCEPT !.env = c].kind = x.kind
    BY DEF Place, Wt!Kinds
  <1>5. ASSUME NEW r \in Listings, Wt!AddWorktree(r) \/ Wt!Commit(r) \/ Wt!Fetch(r)
                                   \/ Wt!Lock(r) \/ Wt!Gc(r)
        PROVE  \E e \in Entry : reg' = [reg EXCEPT ![r] = e]
    <2>1. reg[r] \in Entry
      BY <1>0
    <2>2. /\ [Wt!Off EXCEPT !.on = TRUE] \in Entry /\ Wt!Off \in Entry
          /\ [reg[r] EXCEPT !.elsewhere = FALSE] \in Entry
          /\ [reg[r] EXCEPT !.elsewhere = TRUE] \in Entry
          /\ [reg[r] EXCEPT !.lock = TRUE] \in Entry
          /\ [reg[r] EXCEPT !.admin = FALSE] \in Entry
      BY <2>1 DEF Entry, Wt!Off
    <2>3. CASE Wt!AddWorktree(r)
      BY <2>2, <2>3 DEF Wt!AddWorktree
    <2>4. CASE Wt!Commit(r)
      BY <2>2, <2>4 DEF Wt!Commit
    <2>5. CASE Wt!Fetch(r)
      BY <2>2, <2>5 DEF Wt!Fetch
    <2>6. CASE Wt!Lock(r)
      BY <2>2, <2>6 DEF Wt!Lock
    <2>7. CASE Wt!Gc(r)
      BY <2>2, <2>7 DEF Wt!Gc
    <2> QED
      BY <1>5, <2>3, <2>4, <2>5, <2>6, <2>7
  <1>6. ASSUME NEW r \in Listings, Wt!Fetch(r) \/ Wt!Lock(r) \/ Wt!Gc(r)
        PROVE  at' = at /\ Wt!Move(Where[r])
    BY <1>6 DEF Wt!Fetch, Wt!Lock, Wt!Gc
  <1>7. ASSUME NEW r \in Listings, Wt!AddWorktree(r) \/ Wt!Commit(r)
        PROVE  /\ Wt!Here(Where[r]) \/ \A h \in Wt!Holder(Where[r]) : Wt!Here(h)
               /\ Wt!Move(Where[r])
               /\ \E x \in Place : x.kind # "absent" /\ at' = [at EXCEPT ![Where[r]] = x]
    <2>1. at[Where[r]] \in Place
      BY <1>0
    <2>2. CASE Wt!AddWorktree(r)
      <3>1. /\ at' = [at EXCEPT ![Where[r]] = [at[Where[r]] EXCEPT !.kind = "worktree"]]
            /\ Wt!Move(Where[r]) /\ \A h \in Wt!Holder(Where[r]) : Wt!Here(h)
        BY <2>2 DEF Wt!AddWorktree, Wt!Free, Wt!Here
      <3> QED
        BY <1>4, <2>1, <3>1
    <2>3. CASE Wt!Commit(r)
      <3>1. /\ at' = [at EXCEPT ![Where[r]] = [at[Where[r]] EXCEPT !.dirty = FALSE]]
            /\ Wt!Move(Where[r]) /\ at[Where[r]].kind = "worktree"
        BY <2>3 DEF Wt!Commit
      <3> QED
        BY <1>4, <2>1, <3>1 DEF Wt!Here
    <2> QED
      BY <1>7, <2>2, <2>3
  <1>8. ASSUME NEW s \in Spots,
               Wt!Edit(s) \/ Wt!Change(s) \/ \E k \in {"plain", "worktree", "link"} : Wt!PutThere(s, k)
        PROVE  /\ Wt!Here(s) \/ \A h \in Wt!Holder(s) : Wt!Here(h)
               /\ Wt!Move(s) /\ reg' = reg
               /\ \E x \in Place : x.kind # "absent" /\ at' = [at EXCEPT ![s] = x]
    <2>1. at[s] \in Place
      BY <1>0
    <2>2. CASE Wt!Edit(s)
      <3>1. /\ at' = [at EXCEPT ![s] = [at[s] EXCEPT !.dirty = TRUE]]
            /\ Wt!Move(s) /\ reg' = reg /\ at[s].kind = "worktree"
        BY <2>2 DEF Wt!Edit
      <3> QED
        BY <1>4, <2>1, <3>1 DEF Wt!Here
    <2>3. CASE Wt!Change(s)
      <3>1. PICK c \in Wt!Envs : at' = [at EXCEPT ![s] = [at[s] EXCEPT !.env = c]]
        BY <2>3 DEF Wt!Change
      <3> QED
        BY <1>4, <2>1, <2>3, <3>1 DEF Wt!Change, Wt!Here
    <2>4. CASE \E k \in {"plain", "worktree", "link"} : Wt!PutThere(s, k)
      <3>1. PICK k \in {"plain", "worktree", "link"} : Wt!PutThere(s, k)
        BY <2>4
      <3> DEFINE x == [kind |-> k, dirty |-> k = "plain", env |-> "none"]
      <3>2. at' = [at EXCEPT ![s] = x]
        BY <3>1 DEF Wt!PutThere
      <3>3. x \in Place /\ x.kind = k
        BY DEF Place, Wt!Kinds, Wt!Envs
      <3> HIDE DEF x
      <3>4. Wt!Move(s) /\ reg' = reg /\ \A h \in Wt!Holder(s) : Wt!Here(h)
        BY <3>1 DEF Wt!PutThere, Wt!Free, Wt!Here
      <3> QED
        BY <3>2, <3>3, <3>4
    <2> QED
      BY <1>8, <2>2, <2>3, <2>4
  <1>9. CASE \E r \in Listings : Wt!AddWorktree(r) \/ Wt!Commit(r) \/ Wt!Fetch(r)
                                 \/ Wt!Lock(r) \/ Wt!Gc(r)
    <2>1. PICK r \in Listings : Wt!AddWorktree(r) \/ Wt!Commit(r) \/ Wt!Fetch(r)
                                \/ Wt!Lock(r) \/ Wt!Gc(r)
      BY <1>9
    <2>2. Where[r] \in Spots
      BY <1>0
    <2>3. reg' \in [Listings -> Entry] /\ \A q \in Listings : Where[q] # Where[r] => reg'[q] = reg[q]
      BY <1>3, <1>5, <2>1
    <2>4. CASE Wt!AddWorktree(r) \/ Wt!Commit(r)
      <3>1. PICK x \in Place :
               x.kind # "absent" /\ at' = [at EXCEPT ![Where[r]] = x] /\ Wt!Move(Where[r])
               /\ (Wt!Here(Where[r]) \/ \A h \in Wt!Holder(Where[r]) : Wt!Here(h))
        BY <1>7, <2>4
      <3> QED
        BY <1>2, <2>2, <2>3, <3>1
    <2>5. CASE Wt!Fetch(r) \/ Wt!Lock(r) \/ Wt!Gc(r)
      <3>1. at' = at /\ Wt!Move(Where[r]) /\ Rooted'
        BY <1>6, <2>5 DEF Rooted, Wt!Here
      <3> QED
        BY <1>0, <2>2, <2>3, <3>1
    <2> QED
      BY <2>1, <2>4, <2>5
  <1>10. CASE \E s \in Spots : Wt!Edit(s) \/ Wt!Change(s)
                              \/ \E k \in {"plain", "worktree", "link"} : Wt!PutThere(s, k)
    <2>1. PICK s \in Spots : Wt!Edit(s) \/ Wt!Change(s)
                              \/ \E k \in {"plain", "worktree", "link"} : Wt!PutThere(s, k)
      BY <1>10
    <2>2. PICK x \in Place :
             x.kind # "absent" /\ at' = [at EXCEPT ![s] = x]
      BY <1>8, <2>1
    <2>3. Wt!Move(s) /\ reg' = reg /\ (Wt!Here(s) \/ \A h \in Wt!Holder(s) : Wt!Here(h))
      BY <1>8, <2>1
    <2> QED
      BY <1>0, <1>2, <2>2, <2>3
  <1> QED
    BY <1>9, <1>10, Zenon DEF Wt!Others

LEMMA WorkTypes ==
    /\ Wt!TypeOK <=>
        /\ at \in [Spots -> Place] /\ reg \in [Listings -> Entry]
        /\ pc \in {"idle", "asked", "acting"}
        /\ plan.envs \subseteq Spots /\ (\A u \in plan.units : u \in Wt!Unit)
        /\ fresh.envs \subseteq Spots /\ (\A u \in fresh.units : u \in Wt!Unit)
        /\ todo \subseteq plan.units /\ names \subseteq Listings /\ sinceWeigh \subseteq Spots
        /\ (\A u, v \in fresh.units : u # v => u.radius \cap v.radius = {})
        /\ moves \in 0..MaxEdits /\ faults \in 0..MaxSnags
    /\ Wt!TypeOK' <=>
        /\ at' \in [Spots -> Place] /\ reg' \in [Listings -> Entry]
        /\ pc' \in {"idle", "asked", "acting"}
        /\ plan'.envs \subseteq Spots /\ (\A u \in plan'.units : u \in Wt!Unit)
        /\ fresh'.envs \subseteq Spots /\ (\A u \in fresh'.units : u \in Wt!Unit)
        /\ todo' \subseteq plan'.units /\ names' \subseteq Listings /\ sinceWeigh' \subseteq Spots
        /\ (\A u, v \in fresh'.units : u # v => u.radius \cap v.radius = {})
        /\ moves' \in 0..MaxEdits /\ faults' \in 0..MaxSnags
  BY DEF Wt!TypeOK, Place, Entry, Wt!Unit

LEMMA WorkOthers == ASSUME WtSupposed, WorkInv, Wt!Others PROVE WorkInv'
  <1>0. Wt!TypeOK /\ Rooted
    BY DEF WorkInv
  <1>1. PICK s \in Spots :
              /\ Wt!Move(s)
              /\ at' \in [Spots -> Place] /\ reg' \in [Listings -> Entry]
              /\ \A t \in Spots : t # s => at'[t] = at[t]
              /\ \A r \in Listings : Where[r] # s => reg'[r] = reg[r]
              /\ Rooted'
    BY <1>0, OthersAre
  <1>2. /\ UNCHANGED <<pc, plan, todo, fresh, names, gone, faults>>
        /\ sinceWeigh' = sinceWeigh \cup {s} /\ moves < MaxEdits /\ moves' = moves + 1
    BY <1>1 DEF Wt!Move, Wt!run
  <1>3. \A t \in Spots : t \notin sinceWeigh' =>
            /\ t \notin sinceWeigh /\ at'[t] = at[t] /\ Wt!Here(t)' = Wt!Here(t)
            /\ Wt!Ours(t)' = Wt!Ours(t)
            /\ Wt!Claimed(t)' = Wt!Claimed(t) /\ HoldsNothing(t)' = HoldsNothing(t)
    BY <1>1, <1>2, SameThere
  <1>4. Wt!TypeOK'
    <2>1. moves' \in 0..MaxEdits
      BY <1>0, <1>2 DEF Wt!TypeOK, WtSupposed, Wt!BoundsAssumption
    <2> QED
      BY <1>0, <1>1, <1>2, <2>1, WorkTypes
  <1>5. \A v \in fresh.units : v \in Wt!Unit /\ v.radius \subseteq Spots /\ v.forgets \subseteq Listings
                               /\ v.at \in Spots
    BY <1>0 DEF Wt!TypeOK, Wt!Unit
  <1>6. (AtRest /\ Approved /\ Gone)'
    BY <1>2 DEF WorkInv, AtRest, Approved, Gone, Wt!NoWorkLost, Wt!GrowsByStrangersOnly,
       Wt!EnvsAreDerivable
  <1>7. Reweighed'
    BY <1>1, <1>2, <1>5 DEF WorkInv, Reweighed
  <1>8. Ahead' = Ahead
    BY <1>2 DEF Ahead, Wt!Same
  <1>9. AsWeighed'
    <2> SUFFICES ASSUME NEW v \in Ahead
                 PROVE  /\ \A t \in v.radius \ sinceWeigh' :
                              /\ v.insisted \/ HoldsNothing(t)'
                              /\ Wt!Ours(t)' => \E r \in v.forgets : Where[r] = t
                        /\ v.bytes => \A t \in Spots : Beneath(v.at, t) /\ Wt!Here(t)' =>
                                           t \in v.radius \cup sinceWeigh'
                        /\ ~v.bytes => \A t \in v.radius : Wt!Here(t)' => t \in sinceWeigh'
                        /\ \A r \in names : Where[r] \notin v.radius
      BY <1>2, <1>8 DEF AsWeighed, Beneath
    <2>1. v.radius \subseteq Spots
      BY <1>5 DEF Ahead
    <2> QED
      BY <1>2, <1>3, <2>1 DEF WorkInv, AsWeighed
  <1>10. ToForget'
    BY <1>0, <1>2, <1>3 DEF WorkInv, ToForget, Wt!TypeOK, WtSupposed, Wt!PlacesAssumption
  <1>11. EnvsAsWeighed'
    <2>1. \A t : Wt!Holder(t) \subseteq Spots
      BY DEF Wt!Holder, WtSupposed, Wt!PlacesAssumption
    <2>2. fresh.envs \subseteq Spots /\ fresh' = fresh /\ \A t : Wt!Holder(t)' = Wt!Holder(t)
      BY <1>0, <1>2 DEF Wt!TypeOK, Wt!Holder
    <2> QED
      BY <1>2, <1>3, <2>1, <2>2 DEF WorkInv, EnvsAsWeighed
  <1> QED
    BY <1>1, <1>4, <1>6, <1>7, <1>9, <1>10, <1>11 DEF WorkInv

-----------------------------------------------------------------------------
(* The run.                                                                *)
LEMMA MuteCosts ==
    ASSUME WtSupposed, Wt!TypeOK, NEW mute \in Wt!Mute, Wt!Spend(mute)
    PROVE  faults' \in 0..MaxSnags
  BY DEF Wt!Mute, Wt!Spend, Wt!TypeOK, WtSupposed, Wt!BoundsAssumption

LEMMA WorkPlan == ASSUME WtSupposed, WorkInv, Wt!Plan PROVE WorkInv'
  <1>0. Wt!TypeOK /\ AtRest
    BY DEF WorkInv
  <1>1. PICK force \in Insistence, mute \in Wt!Mute :
            plan' = Wt!Weighed(mute, IF force THEN Spots ELSE {}) /\ Wt!Spend(mute)
    BY DEF Wt!Plan
  <1>2. /\ UNCHANGED <<at, reg, todo, fresh, names, gone, moves>> /\ sinceWeigh' = {}
        /\ pc = "idle" /\ pc' \in {"idle", "asked"}
    BY DEF Wt!Plan, Wt!world
  <1>3. fresh = Wt!NoPlan /\ todo = {} /\ names = {} /\ fresh.units = {} /\ fresh.envs = {}
    BY <1>0, <1>2 DEF AtRest, Wt!NoPlan
  <1> DEFINE insisted == IF force THEN Spots ELSE {}
  <1>4. plan'.units = Wt!Units(mute, insisted) /\ plan'.envs \subseteq Spots
        /\ \A u \in plan'.units : u \in Wt!Unit
    BY <1>1, WeighedType
  <1> HIDE DEF insisted
  <1>5. Wt!TypeOK'
    BY <1>0, <1>1, <1>2, <1>3, <1>4, MuteCosts, WorkTypes
  <1>6. Approved'
    BY <1>4, UnitsApart, UnitsMean DEF Approved
  <1> QED
    BY <1>2, <1>3, <1>5, <1>6
    DEF WorkInv, AtRest, Rooted, Reweighed, Ahead, AsWeighed, ToForget, EnvsAsWeighed, Gone,
        Wt!Here, Wt!NoWorkLost, Wt!GrowsByStrangersOnly, Wt!EnvsAreDerivable

LEMMA WorkConfirm == ASSUME WtSupposed, WorkInv, Wt!Confirm PROVE WorkInv'
  <1>0. Wt!TypeOK /\ AtRest
    BY DEF WorkInv
  <1> DEFINE insisted == {u.at : u \in {v \in plan.units : v.insisted}}
  <1>1. PICK mute \in Wt!Mute : fresh' = Wt!Weighed(mute, insisted) /\ Wt!Spend(mute)
    BY DEF Wt!Confirm
  <1>2. /\ UNCHANGED <<at, reg, plan, names, gone, moves>> /\ sinceWeigh' = {}
        /\ pc = "asked" /\ pc' = "acting" /\ todo' = plan.units
    BY DEF Wt!Confirm, Wt!world
  <1>3. names = {}
    BY <1>0, <1>2 DEF AtRest
  <1>4. /\ fresh'.units = Wt!Units(mute, insisted) /\ fresh'.envs = Wt!Derivable(mute, insisted)
        /\ fresh'.envs \subseteq Spots /\ \A u \in fresh'.units : u \in Wt!Unit
    BY <1>1, WeighedType
  <1>5. \A s \in insisted : \E u \in plan.units : u.at = s /\ u.insisted
    OBVIOUS
  <1> HIDE DEF insisted
  <1>6. Wt!TypeOK'
    BY <1>0, <1>1, <1>2, <1>3, <1>4, MuteCosts, UnitsApart, WorkTypes
  <1>7. ASSUME NEW v \in fresh'.units
        PROVE  /\ v.at \in v.radius /\ \A t \in v.radius : Beneath(v.at, t)
               /\ v.insisted => \E u \in plan.units : u.at = v.at /\ u.insisted
               /\ \A r \in v.forgets :
                     Where[r] \in v.radius /\ (v.insisted \/ (~reg[r].lock /\ reg[r].elsewhere))
               /\ \A t \in v.radius :
                     /\ v.insisted \/ HoldsNothing(t)
                     /\ Wt!Ours(t) => \E r \in v.forgets : Where[r] = t
               /\ v.bytes => \A t \in Spots : Beneath(v.at, t) /\ Wt!Here(t) => t \in v.radius
               /\ ~v.bytes => \A t \in v.radius : ~Wt!Here(t)
    <2>1. v \in Wt!Units(mute, insisted)
      BY <1>4, <1>7
    <2>2. v.at \in Spots /\ v.radius = Wt!Tree(v.at) /\ v.bytes = Wt!Here(v.at)
      BY <2>1, UnitsAre, UnitsType
    <2>3. v.insisted => \E u \in plan.units : u.at = v.at /\ u.insisted
      BY <1>5, <2>1, UnitsMean
    <2>4. /\ v.at \in v.radius /\ \A t \in v.radius : Beneath(v.at, t)
          /\ v.bytes => \A t \in Spots : Beneath(v.at, t) /\ Wt!Here(t) => t \in v.radius
          /\ ~v.bytes => \A t \in v.radius : ~Wt!Here(t)
      BY <2>2, TreeIs
    <2>5. /\ \A r \in v.forgets :
                Where[r] \in v.radius /\ (v.insisted \/ (~reg[r].lock /\ reg[r].elsewhere))
          /\ \A t \in v.radius :
                     /\ v.insisted \/ HoldsNothing(t)
                     /\ Wt!Ours(t) => \E r \in v.forgets : Where[r] = t
      BY <2>1, UnitsMean
    <2> QED
      BY <2>3, <2>4, <2>5
  <1>8. /\ \A t : Wt!Here(t)' = Wt!Here(t) /\ Wt!Ours(t)' = Wt!Ours(t)
                  /\ HoldsNothing(t)' = HoldsNothing(t) /\ Wt!Claimed(t)' = Wt!Claimed(t)
                  /\ Wt!Holder(t)' = Wt!Holder(t)
        /\ \A v, t : Beneath(v, t)' = Beneath(v, t)
    BY <1>2, SameThere DEF Beneath, Wt!Holder
  <1>9. Reweighed'
    BY <1>2, <1>7, <1>8 DEF Reweighed
  <1>10. AsWeighed'
    BY <1>2, <1>3, <1>7, <1>8 DEF AsWeighed, Ahead
  <1>11. EnvsAsWeighed'
    BY <1>2, <1>4, <1>8, EnvsMean DEF EnvsAsWeighed
  <1>12. (AtRest /\ Rooted /\ Approved /\ ToForget /\ Gone)'
    BY <1>2, <1>3, <1>8
    DEF WorkInv, AtRest, Rooted, Approved, ToForget, Gone, Wt!NoWorkLost,
        Wt!GrowsByStrangersOnly, Wt!EnvsAreDerivable
  <1> QED
    BY <1>6, <1>9, <1>10, <1>11, <1>12 DEF WorkInv

\* Everything is withheld, or the run is cut short.
LEMMA WorkAbandon == ASSUME WtSupposed, WorkInv, Wt!Abandon PROVE WorkInv'
  <1>1. /\ UNCHANGED <<at, reg, sinceWeigh, gone, moves>> /\ pc' = "idle"
        /\ plan' = Wt!NoPlan /\ todo' = {} /\ fresh' = Wt!NoPlan /\ names' = {}
        /\ faults < MaxSnags /\ faults' = faults + 1
    BY DEF Wt!Abandon, Wt!world, Wt!Fault
  <1>2. Wt!NoPlan.units = {} /\ Wt!NoPlan.envs = {}
    BY DEF Wt!NoPlan
  <1>3. faults' \in 0..MaxSnags
    BY <1>1 DEF WorkInv, Wt!TypeOK, WtSupposed, Wt!BoundsAssumption
  <1>4. Wt!TypeOK'
    BY <1>1, <1>2, <1>3, WorkTypes DEF WorkInv
  <1> QED
    BY <1>1, <1>2, <1>4
    DEF WorkInv, AtRest, Rooted, Approved, Reweighed, Ahead, AsWeighed, ToForget, EnvsAsWeighed,
        Gone, Wt!Here, Wt!NoWorkLost, Wt!GrowsByStrangersOnly, Wt!EnvsAreDerivable

\* A unit is passed over, or the names it has are to be forgotten.
LEMMA WorkPasses ==
    ASSUME WtSupposed, WorkInv, NEW u \in todo, pc = "acting", names = {}, todo' = todo \ {u},
           UNCHANGED <<at, reg, pc, plan, fresh, sinceWeigh, gone, moves, faults>>,
           \/ names' = {}
           \/ \E v \in Wt!Confirmed(u) : names' = v.forgets /\ ~v.bytes
    PROVE  WorkInv'
  <1>0. Wt!TypeOK
    BY DEF WorkInv
  <1>1. names' \subseteq Listings
    BY <1>0 DEF Wt!Confirmed, Wt!TypeOK, Wt!Unit
  <1>2. Wt!TypeOK'
    BY <1>0, <1>1, WorkTypes
  <1>3. Ahead' \subseteq Ahead /\ \A v \in Ahead' : v.at # u.at
    <2>1. \A w \in todo : w.at = u.at => w = u
      BY <1>0 DEF WorkInv, Approved, Wt!TypeOK
    <2> QED
      BY <2>1 DEF Ahead, Wt!Same
  <1>4. /\ \A t : Wt!Here(t)' = Wt!Here(t) /\ Wt!Ours(t)' = Wt!Ours(t)
                  /\ HoldsNothing(t)' = HoldsNothing(t) /\ Wt!Claimed(t)' = Wt!Claimed(t)
                  /\ Wt!Holder(t)' = Wt!Holder(t)
        /\ \A v, t : Beneath(v, t)' = Beneath(v, t)
    BY SameThere DEF Beneath, Wt!Holder
  <1>5. ASSUME NEW r \in names'
        PROVE  /\ Wt!Here(Where[r]) => Where[r] \in sinceWeigh
               /\ \E w \in plan.units : r \in w.forgets
               /\ \E v \in fresh.units : r \in v.forgets
               /\ \A v \in Ahead' : Where[r] \notin v.radius
    <2>1. PICK v \in Wt!Confirmed(u) : r \in v.forgets /\ ~v.bytes
      BY <1>5
    <2>2. /\ v \in fresh.units /\ v.at = u.at /\ v.forgets \subseteq u.forgets
          /\ u \in plan.units /\ v \in Ahead
      BY <1>0, <2>1 DEF Wt!Confirmed, Wt!Same, Ahead, Wt!TypeOK
    <2>3. Where[r] \in v.radius
      BY <2>1, <2>2 DEF WorkInv, Reweighed
    <2>4. Wt!Here(Where[r]) => Where[r] \in sinceWeigh
      BY <2>1, <2>2, <2>3 DEF WorkInv, AsWeighed
    <2>5. \A w \in Ahead' : w # v /\ w \in fresh.units
      BY <1>3, <2>2 DEF Ahead
    <2>6. \A w \in Ahead' : Where[r] \notin w.radius
      BY <1>0, <2>2, <2>3, <2>5 DEF Wt!TypeOK
    <2> QED
      BY <2>1, <2>2, <2>4, <2>6
  <1>6. AsWeighed'
    BY <1>3, <1>4, <1>5 DEF WorkInv, AsWeighed
  <1>7. ToForget'
    BY <1>4, <1>5 DEF ToForget
  <1>8. EnvsAsWeighed'
    BY <1>4 DEF WorkInv, EnvsAsWeighed
  <1>9. (AtRest /\ Rooted /\ Approved /\ Reweighed /\ Gone)'
    BY <1>4 DEF WorkInv, AtRest, Rooted, Approved, Reweighed, Gone, Wt!NoWorkLost,
        Wt!GrowsByStrangersOnly, Wt!EnvsAreDerivable
  <1> QED
    BY <1>2, <1>6, <1>7, <1>8, <1>9 DEF WorkInv

\* Whatever goes with a unit was weighed with it, or came after: and what was weighed held
\* nothing, or was insisted on and named, or was not the clone's.
LEMMA BytesAreWeighed ==
    ASSUME WtSupposed, WorkInv, NEW u \in todo, NEW v \in Wt!Confirmed(u), u.bytes,
           NEW t \in Wt!Tree(u.at), Wt!Here(t), t \notin sinceWeigh
    PROVE  /\ t \in v.radius
           /\ u.insisted \/ HoldsNothing(t)
           /\ t \in u.radius \/ (u.insisted /\ ~Wt!Ours(t))
  <1>0. Wt!TypeOK
    BY DEF WorkInv
  <1>1. /\ v \in fresh.units /\ v.at = u.at /\ v.bytes /\ v.forgets \subseteq u.forgets
        /\ u \in plan.units /\ v \in Ahead
    BY <1>0 DEF Wt!Confirmed, Wt!Same, Ahead, Wt!TypeOK
  <1>2. u.at \in Spots
    BY <1>0, <1>1 DEF Wt!TypeOK, Wt!Unit
  <1>3. t \in v.radius
    BY <1>1, <1>2, TreeIs DEF WorkInv, AsWeighed
  <1>4. v.insisted => u.insisted
    BY <1>1 DEF WorkInv, Reweighed, Approved
  <1>5. v.insisted \/ HoldsNothing(t)
    BY <1>1, <1>3 DEF WorkInv, AsWeighed
  <1>6. Wt!Ours(t) => t \in u.radius
    BY <1>1, <1>3 DEF WorkInv, AsWeighed, Approved
  <1> QED
    BY <1>3, <1>4, <1>5, <1>6 DEF HoldsNothing

LEMMA DestroyedFairly ==
    ASSUME WtSupposed, WorkInv, NEW u \in todo, NEW v \in Wt!Confirmed(u), u.bytes,
           gone' = gone \cup Wt!Destroyed({t \in Wt!Tree(u.at) : Wt!Here(t)}, u)
    PROVE  Gone'
  <1>1. ASSUME NEW g \in Wt!Destroyed({t \in Wt!Tree(u.at) : Wt!Here(t)}, u)
        PROVE  /\ g.how = "bytes"
               /\ ~g.insisted => g.what = "clear" \/ g.late
               /\ g.listed \/ g.late \/ (g.insisted /\ g.what = "notOurs")
    <2>1. PICK t \in {x \in Wt!Tree(u.at) : Wt!Here(x)} :
            g = [what |-> IF ~Wt!Ours(t) THEN "notOurs" ELSE IF Wt!Truth(t) THEN "work" ELSE "clear",
                 listed |-> t \in u.radius, late |-> t \in sinceWeigh, how |-> "bytes",
                 insisted |-> u.insisted]
      BY <1>1 DEF Wt!Destroyed
    <2>2. HoldsNothing(t) => Wt!Ours(t) /\ ~Wt!Truth(t)
      BY ReasonsAre DEF Wt!Truth, HoldsNothing
    <2>3. t \notin sinceWeigh => /\ u.insisted \/ HoldsNothing(t)
                                 /\ t \in u.radius \/ (u.insisted /\ ~Wt!Ours(t))
      BY <2>1, BytesAreWeighed
    <2> QED
      BY <2>1, <2>2, <2>3
  <1> QED
    BY <1>1 DEF WorkInv, Gone, Wt!NoWorkLost, Wt!GrowsByStrangersOnly, Wt!EnvsAreDerivable

\* A removal takes what is under its root, and nothing that another unit is of.
LEMMA WorkTakes ==
    ASSUME WtSupposed, WorkInv, NEW u \in todo, NEW v \in Wt!Confirmed(u), u.bytes,
           pc = "acting", names = {}, todo' = todo \ {u},
           UNCHANGED <<reg, pc, plan, fresh, sinceWeigh, moves>>, faults' \in 0..MaxSnags,
           at' \in [Spots -> Place], Rooted',
           \A t \in Spots : t \notin Wt!Tree(u.at) => at'[t] = at[t],
           \A t \in Spots : at'[t].kind # "absent" => at'[t].kind = at[t].kind /\ at'[t].env = at[t].env,
           \/ gone' = gone
           \/ gone' = gone \cup Wt!Destroyed({t \in Wt!Tree(u.at) : Wt!Here(t)}, u),
           \/ names' = {}
           \/ names' = v.forgets /\ \A t \in Wt!Tree(u.at) : at'[t].kind = "absent"
    PROVE  WorkInv'
  <1>0. Wt!TypeOK
    BY DEF WorkInv
  <1>1. /\ v \in fresh.units /\ v.at = u.at /\ v.bytes /\ v.forgets \subseteq u.forgets
        /\ u \in plan.units /\ v \in Ahead /\ u.at \in Spots /\ v.forgets \subseteq Listings
        /\ v.radius \subseteq Spots
    BY <1>0 DEF Wt!Confirmed, Wt!Same, Ahead, Wt!TypeOK, Wt!Unit
  <1>2. Ahead' \subseteq Ahead \ {v}
    <2>1. \A w \in todo : w.at = u.at => w = u
      BY <1>0, <1>1 DEF WorkInv, Approved, Wt!TypeOK
    <2> QED
      BY <1>1, <2>1 DEF Ahead, Wt!Same
  <1>3. Wt!TypeOK'
    BY <1>0, <1>1, WorkTypes
  <1>4. /\ \A t : Wt!Holder(t)' = Wt!Holder(t)
        /\ \A w, t : Beneath(w, t)' = Beneath(w, t)
        /\ \A t \in Spots : /\ Wt!Here(t)' => Wt!Here(t) /\ at'[t].kind = at[t].kind
                            /\ Wt!Claimed(t)' = Wt!Claimed(t)
                            /\ Wt!Here(t)' /\ Wt!Ours(t)' => Wt!Ours(t)
    BY DEF Beneath, Wt!Holder, Wt!Here, Wt!Claimed, Wt!Ours, Wt!Joined
  <1>5. ASSUME NEW w \in Ahead', NEW t \in w.radius, t \notin sinceWeigh
        PROVE  t \in Spots /\ at'[t] = at[t]
    <2>1. w \in fresh.units /\ w # v /\ w.radius \subseteq Spots
      BY <1>0, <1>2 DEF Ahead, Wt!TypeOK, Wt!Unit
    <2>2. t \notin v.radius
      BY <1>0, <1>1, <1>5, <2>1 DEF Wt!TypeOK
    <2>3. u.at \in v.radius
      BY <1>1 DEF WorkInv, Reweighed
    <2>4. t \notin Wt!Tree(u.at)
      <3>1. t # u.at
        BY <2>2, <2>3
      <3>2. t \in Wt!Tree(u.at) => Wt!Here(t)
        BY <1>1, <3>1, TreeIs
      <3> QED
        BY <1>5, <2>2, <3>2, BytesAreWeighed
    <2> QED
      BY <1>5, <2>1, <2>4
  <1>6. ASSUME NEW r \in names'
        PROVE  /\ r \in v.forgets /\ Where[r] \in v.radius
               /\ Wt!Here(Where[r])' => Where[r] \in sinceWeigh
    <2>1. r \in v.forgets /\ Where[r] \in v.radius /\ Beneath(u.at, Where[r])
          /\ \A t \in Wt!Tree(u.at) : at'[t].kind = "absent"
      BY <1>1, <1>6 DEF WorkInv, Reweighed
    <2>2. ASSUME Wt!Here(Where[r])' PROVE FALSE
      <3>1. Wt!Here(Where[r]) /\ Where[r] \in Spots
        BY <1>1, <1>4, <2>1, <2>2
      <3>2. Where[r] = u.at \/ Wt!Here(u.at)
        BY <2>1, <3>1 DEF Beneath, WorkInv, Rooted
      <3>3. Where[r] \in Wt!Tree(u.at)
        BY <1>1, <2>1, <3>1, <3>2, TreeIs
      <3> QED
        BY <2>1, <2>2, <3>3 DEF Wt!Here
    <2> QED
      BY <2>1, <2>2
  <1>7. AsWeighed'
    <2> SUFFICES ASSUME NEW w \in Ahead'
                 PROVE  /\ \A t \in w.radius \ sinceWeigh :
                              /\ w.insisted \/ HoldsNothing(t)'
                              /\ Wt!Ours(t)' => \E r \in w.forgets : Where[r] = t
                        /\ w.bytes => \A t \in Spots : Beneath(w.at, t) /\ Wt!Here(t)' =>
                                           t \in w.radius \cup sinceWeigh
                        /\ ~w.bytes => \A t \in w.radius : Wt!Here(t)' => t \in sinceWeigh
                        /\ \A r \in names' : Where[r] \notin w.radius
      BY <1>4 DEF AsWeighed
    <2>1. w \in Ahead /\ w \in fresh.units /\ w # v /\ w.radius \subseteq Spots
      BY <1>0, <1>2 DEF Ahead, Wt!TypeOK, Wt!Unit
    <2>2. \A t \in w.radius \ sinceWeigh :
              HoldsNothing(t)' = HoldsNothing(t) /\ Wt!Ours(t)' = Wt!Ours(t)
      BY <1>5, SameThere
    <2>3. \A r \in names' : Where[r] \notin w.radius
      BY <1>0, <1>1, <1>6, <2>1 DEF Wt!TypeOK
    <2> QED
      BY <1>4, <2>1, <2>2, <2>3 DEF WorkInv, AsWeighed
  <1>8. ToForget'
    BY <1>1, <1>6 DEF ToForget
  <1>9. EnvsAsWeighed'
    <2>1. fresh.envs \subseteq Spots /\ \A t : Wt!Holder(t) \subseteq Spots
      BY <1>0 DEF Wt!TypeOK, Wt!Holder, WtSupposed, Wt!PlacesAssumption
    <2> QED
      BY <1>4, <2>1 DEF WorkInv, EnvsAsWeighed
  <1>10. Gone'
    BY DestroyedFairly DEF WorkInv, Gone, Wt!NoWorkLost, Wt!GrowsByStrangersOnly,
       Wt!EnvsAreDerivable
  <1>11. (AtRest /\ Approved /\ Reweighed)'
    BY <1>4 DEF WorkInv, AtRest, Approved, Reweighed
  <1> QED
    BY <1>3, <1>7, <1>8, <1>9, <1>10, <1>11 DEF WorkInv

LEMMA WorkRemoves ==
    ASSUME WtSupposed, WorkInv, NEW u \in todo, Wt!RemoveAll(u) \/ Wt!RemoveSome(u)
    PROVE  WorkInv'
  <1>0. Wt!TypeOK /\ u \in plan.units /\ u.at \in Spots /\ Rooted
    BY DEF WorkInv, Wt!TypeOK, Wt!Unit
  <1>1. /\ pc = "acting" /\ names = {} /\ u.bytes /\ todo' = todo \ {u}
        /\ UNCHANGED <<reg, pc, plan, fresh, sinceWeigh, moves>>
    BY DEF Wt!RemoveAll, Wt!RemoveSome
  <1>2. at \in [Spots -> Place] /\ Wt!Empty \in Place /\ Wt!Empty.kind = "absent"
        /\ Wt!Tree(u.at) \subseteq Spots /\ u.at \in Wt!Tree(u.at)
    BY <1>0, WorkTypes, TreeIs DEF Wt!Empty, Place, Wt!Kinds, Wt!Envs
  <1>3. \A p \in Nesting : p[1] \in Spots /\ p[2] \in Spots /\ p = <<p[1], p[2]>> /\ p[1] # p[2]
    BY DEF WtSupposed, Wt!PlacesAssumption
  <1>4. CASE Wt!RemoveAll(u)
    <2>1. PICK v \in Wt!Confirmed(u) :
            /\ names' = v.forgets /\ at' = Wt!Cleared(Wt!Tree(u.at))
            /\ gone' = gone \cup Wt!Destroyed({t \in Wt!Tree(u.at) : Wt!Here(t)}, u)
      BY <1>4 DEF Wt!RemoveAll
    <2>2. /\ at' \in [Spots -> Place]
          /\ \A t \in Spots : at'[t] = IF t \in Wt!Tree(u.at) THEN Wt!Empty ELSE at[t]
      BY <1>2, <2>1 DEF Wt!Cleared
    <2>3. Rooted'
      <3> SUFFICES ASSUME NEW p \in Nesting, Wt!Here(p[2])' PROVE Wt!Here(p[1])'
        BY DEF Rooted
      <3>1. p[2] \notin Wt!Tree(u.at) /\ Wt!Here(p[2]) /\ Wt!Here(p[1])
        BY <1>0, <1>2, <1>3, <2>2 DEF Wt!Here, Rooted
      <3>2. p[1] \in Wt!Tree(u.at) => p[1] = u.at
        <4>1. \A q \in Nesting : q[2] # p[1]
          BY DEF WtSupposed, Wt!PlacesAssumption
        <4>2. <<u.at, p[1]>>[2] = p[1]
          OBVIOUS
        <4> QED
          BY <1>0, <4>1, <4>2, TreeIs DEF Beneath
      <3>3. p[1] # u.at
        BY <1>0, <1>3, <3>1, TreeIs DEF Beneath
      <3> QED
        BY <1>3, <2>2, <3>1, <3>2, <3>3 DEF Wt!Here
    <2>4. faults' \in 0..MaxSnags
      BY <1>0, <1>4 DEF Wt!RemoveAll, Wt!TypeOK
    <2>5. /\ \A t \in Spots : t \notin Wt!Tree(u.at) => at'[t] = at[t]
          /\ \A t \in Spots : at'[t].kind # "absent" =>
                at'[t].kind = at[t].kind /\ at'[t].env = at[t].env
          /\ \A t \in Wt!Tree(u.at) : at'[t].kind = "absent"
      BY <1>2, <2>2
    <2> QED
      BY <1>1, <2>1, <2>2, <2>3, <2>4, <2>5, WorkTakes
  <1>5. CASE Wt!RemoveSome(u)
    <2>1. PICK v \in Wt!Confirmed(u) : TRUE
      BY <1>5 DEF Wt!RemoveSome
    <2>2. names' = names /\ faults' \in 0..MaxSnags
      BY <1>0, <1>5 DEF Wt!RemoveSome, Wt!Fault, Wt!TypeOK, WtSupposed, Wt!BoundsAssumption
    <2>3. CASE UNCHANGED <<at, gone>>
      <3>1. Rooted'
        BY <1>0, <2>3 DEF Rooted, Wt!Here
      <3> QED
        BY <1>1, <1>2, <2>1, <2>2, <2>3, <3>1, WorkTakes
    <2>4. CASE /\ at' = [Wt!Cleared(Wt!Tree(u.at) \ {u.at}) EXCEPT ![u.at].dirty = TRUE]
               /\ gone' = gone \cup Wt!Destroyed({t \in Wt!Tree(u.at) : Wt!Here(t)}, u)
      <3> DEFINE bare0 == Wt!Cleared(Wt!Tree(u.at) \ {u.at})
                 left0 == [at[u.at] EXCEPT !.dirty = TRUE]
      <3>1. /\ bare0 \in [Spots -> Place] /\ bare0[u.at] = at[u.at]
            /\ \A t \in Spots : bare0[t] =
                  IF t \in Wt!Tree(u.at) /\ t # u.at THEN Wt!Empty ELSE at[t]
        BY <1>0, <1>2 DEF Wt!Cleared
      <3>2. at[u.at] \in Place
        BY <1>0, <1>2
      <3>3. left0 \in Place /\ left0.kind = at[u.at].kind /\ left0.env = at[u.at].env
        BY <3>2 DEF Place
      <3> HIDE DEF left0
      <3>4. at' = [bare0 EXCEPT ![u.at] = left0]
        BY <2>4, <3>1 DEF left0
      <3> HIDE DEF bare0
      <3>5. /\ at' \in [Spots -> Place] /\ at'[u.at] = left0
            /\ \A t \in Spots \ {u.at} : at'[t] = IF t \in Wt!Tree(u.at) THEN Wt!Empty ELSE at[t]
        BY <1>0, <3>1, <3>3, <3>4
      <3>6. /\ \A t \in Spots : t \notin Wt!Tree(u.at) => at'[t] = at[t]
            /\ \A t \in Spots : at'[t].kind # "absent" =>
                  at'[t].kind = at[t].kind /\ at'[t].env = at[t].env
        BY <1>2, <3>3, <3>5
      <3>7. Rooted'
        <4> SUFFICES ASSUME NEW p \in Nesting, Wt!Here(p[2])' PROVE Wt!Here(p[1])'
          BY DEF Rooted
        <4>1. Wt!Here(p[2]) /\ Wt!Here(p[1])
          BY <1>0, <1>3, <3>6 DEF Wt!Here, Rooted
        <4>2. p[1] \in Wt!Tree(u.at) => p[1] = u.at
          <5>1. \A q \in Nesting : q[2] # p[1]
            BY DEF WtSupposed, Wt!PlacesAssumption
          <5>2. <<u.at, p[1]>>[2] = p[1]
            OBVIOUS
          <5> QED
            BY <1>0, <5>1, <5>2, TreeIs DEF Beneath
        <4> QED
          BY <1>0, <1>3, <3>3, <3>5, <4>1, <4>2 DEF Wt!Here
      <3> QED
        BY <1>1, <2>1, <2>2, <2>4, <3>5, <3>6, <3>7, WorkTakes
    <2> QED
      BY <1>5, <2>3, <2>4 DEF Wt!RemoveSome
  <1> QED
    BY <1>4, <1>5

LEMMA WorkActs == ASSUME WtSupposed, WorkInv, NEW u \in todo, Wt!Act(u) PROVE WorkInv'
  <1>1. CASE Wt!Withhold(u) \/ Wt!RefuseLink(u)
    BY <1>1, WorkPasses DEF Wt!Withhold, Wt!RefuseLink, Wt!world
  <1>2. CASE Wt!ForgetAlone(u)
    <2>1. PICK v \in Wt!Confirmed(u) : names' = v.forgets
      BY <1>2 DEF Wt!ForgetAlone
    <2>2. ~v.bytes
      BY <1>2 DEF Wt!ForgetAlone, Wt!Confirmed, Wt!Same
    <2> QED
      BY <1>2, <2>1, <2>2, WorkPasses DEF Wt!ForgetAlone, Wt!world
  <1>3. CASE Wt!RemoveAll(u)
    BY <1>3, WorkRemoves
  <1> QED
    BY <1>1, <1>2, <1>3 DEF Wt!Act

\* A name is forgotten: of a place no unit ahead is of.
LEMMA WorkForgets == ASSUME WtSupposed, WorkInv, NEW r \in names, Wt!Forget(r) PROVE WorkInv'
  <1>0. Wt!TypeOK /\ r \in Listings /\ reg \in [Listings -> Entry] /\ Wt!Off \in Entry
    BY WorkTypes DEF WorkInv, Wt!Off, Entry
  <1>1. /\ names' = names \ {r} /\ UNCHANGED <<at, pc, plan, todo, fresh, sinceWeigh, moves>>
        /\ reg' = reg \/ reg' = [reg EXCEPT ![r] = Wt!Off]
    BY DEF Wt!Forget
  <1>2. reg' \in [Listings -> Entry] /\ \A q \in Listings : q # r => reg'[q] = reg[q]
    BY <1>0, <1>1
  <1>3. \A q \in Listings : \/ reg'[q] = reg[q]
                            \/ ~reg'[q].on /\ ~reg'[q].lock /\ reg'[q].elsewhere
    BY <1>0, <1>1 DEF Wt!Off
  <1>4. faults' \in 0..MaxSnags
    BY <1>0 DEF Wt!Forget, Wt!Fault, Wt!TypeOK, WtSupposed, Wt!BoundsAssumption
  <1>5. Wt!TypeOK'
    BY <1>0, <1>1, <1>2, <1>4, WorkTypes
  <1>6. /\ \A t : Wt!Here(t)' = Wt!Here(t) /\ Wt!Holder(t)' = Wt!Holder(t)
        /\ \A w, t : Beneath(w, t)' = Beneath(w, t)
        /\ \A t : Wt!Ours(t)' => Wt!Ours(t)
        /\ \A t : Wt!Claimed(t)' => Wt!Claimed(t)
    BY <1>1, <1>3 DEF Wt!Here, Wt!Holder, Beneath, Wt!Ours, Wt!Joined, Wt!Claimed
  <1>7. Reweighed'
    <2>1. \A v \in fresh.units : v.forgets \subseteq Listings
      BY <1>0 DEF Wt!TypeOK, Wt!Unit
    <2> QED
      BY <1>1, <1>3, <1>6, <2>1 DEF WorkInv, Reweighed
  <1>8. AsWeighed'
    <2>1. Ahead' = Ahead
      BY <1>1 DEF Ahead, Wt!Same
    <2>2. ASSUME NEW v \in Ahead, NEW t \in v.radius
          PROVE  HoldsNothing(t)' = HoldsNothing(t) /\ Wt!Ours(t)' = Wt!Ours(t)
      <3>1. Where[r] # t
        BY <2>2 DEF WorkInv, AsWeighed
      <3> QED
        BY <1>1, <1>2, <3>1, SameThere
    <2> QED
      BY <1>1, <1>6, <2>1, <2>2 DEF WorkInv, AsWeighed
  <1>9. ToForget'
    BY <1>1, <1>6 DEF WorkInv, ToForget
  <1>10. EnvsAsWeighed'
    BY <1>1, <1>6 DEF WorkInv, EnvsAsWeighed
  <1>11. Gone'
    <2>1. CASE gone' = gone
      BY <2>1 DEF WorkInv, Gone, Wt!NoWorkLost, Wt!GrowsByStrangersOnly, Wt!EnvsAreDerivable
    <2>2. CASE gone' # gone
      <3> DEFINE g == [what |-> IF reg[r].lock \/ ~reg[r].elsewhere THEN "work" ELSE "clear",
                       listed |-> \E u \in plan.units : r \in u.forgets,
                       late |-> Where[r] \in sinceWeigh, how |-> "name",
                       insisted |-> Wt!ByForce(r)]
      <3>1. gone' = gone \cup {g}
        BY <2>2 DEF Wt!Forget
      <3>2. g.listed /\ g.how = "name"
        BY DEF WorkInv, ToForget
      <3>3. ~g.insisted => g.what = "clear" \/ g.late
        <4>1. PICK v \in fresh.units : r \in v.forgets
          BY DEF WorkInv, ToForget
        <4>2. v.insisted => Wt!ByForce(r)
          BY <4>1 DEF Wt!ByForce
        <4>3. v.insisted \/ Where[r] \in sinceWeigh \/ (~reg[r].lock /\ reg[r].elsewhere)
          BY <4>1 DEF WorkInv, Reweighed
        <4> QED
          BY <4>2, <4>3
      <3> HIDE DEF g
      <3> QED
        BY <3>1, <3>2, <3>3
        DEF WorkInv, Gone, Wt!NoWorkLost, Wt!GrowsByStrangersOnly, Wt!EnvsAreDerivable
    <2> QED
      BY <2>1, <2>2
  <1>12. (AtRest /\ Rooted /\ Approved)'
    BY <1>1, <1>6 DEF WorkInv, AtRest, Rooted, Approved
  <1> QED
    BY <1>5, <1>7, <1>8, <1>9, <1>10, <1>11, <1>12 DEF WorkInv

\* The environments both weighings found are as the second found them.
LEMMA WorkReclaims == ASSUME WtSupposed, WorkInv, Wt!Reclaim PROVE WorkInv'
  <1>0. Wt!TypeOK /\ at \in [Spots -> Place]
    BY WorkTypes DEF WorkInv
  <1> DEFINE going == {s \in plan.envs \cap fresh.envs : at[s].kind \in {"plain", "worktree"}}
             GoneOf(s) == [what |-> IF at[s].env # "derivable" THEN "work"
                                    ELSE IF Wt!Claims(s, {}) # {} THEN "notOurs" ELSE "clear",
                           listed |-> s \in plan.envs,
                           late |-> ({s} \cup Wt!Outer(s)) \cap sinceWeigh # {},
                           how |-> "env", insisted |-> FALSE]
  <1>1. /\ at' = [s \in Spots |-> IF s \in going THEN [at[s] EXCEPT !.env = "none"] ELSE at[s]]
        /\ gone' = gone \cup {GoneOf(s) : s \in going}
        /\ UNCHANGED <<reg, todo, names, sinceWeigh, moves, faults>>
        /\ pc' = "idle" /\ plan' = Wt!NoPlan /\ fresh' = Wt!NoPlan /\ todo = {} /\ names = {}
    BY DEF Wt!Reclaim
  <1>2. Wt!NoPlan.units = {} /\ Wt!NoPlan.envs = {}
    BY DEF Wt!NoPlan
  <1>3. at' \in [Spots -> Place] /\ \A t \in Spots : Wt!Here(t)' = Wt!Here(t)
    <2>1. \A x \in Place : [x EXCEPT !.env = "none"] \in Place /\ [x EXCEPT !.env = "none"].kind = x.kind
      BY DEF Place, Wt!Envs
    <2> HIDE DEF going
    <2> QED
      BY <1>0, <1>1, <2>1 DEF Wt!Here
  <1>4. Wt!TypeOK'
    BY <1>0, <1>1, <1>2, <1>3, WorkTypes
  <1>5. ASSUME NEW s \in going PROVE GoneOf(s).what = "clear" \/ GoneOf(s).late
    <2> SUFFICES ASSUME ({s} \cup Wt!Outer(s)) \cap sinceWeigh = {}
                 PROVE  at[s].env = "derivable" /\ Wt!Claims(s, {}) = {}
      OBVIOUS
    <2>1. s \in fresh.envs /\ s \in Spots /\ Wt!Here(s) /\ at[s].kind \in {"plain", "worktree"}
      BY <1>0 DEF Wt!Here, Wt!TypeOK
    <2>2. at[s].env = "derivable"
      BY <2>1 DEF WorkInv, EnvsAsWeighed
    <2>3. ASSUME NEW t \in {s} \cup Wt!Outer(s) PROVE "claim" \notin Wt!Reasons(t, {})
      <3>1. t \in {s} \cup Wt!Holder(s) /\ t \notin sinceWeigh
        BY <2>3 DEF Wt!Outer
      <3>2. Wt!Here(t)
        BY <2>1, <2>3 DEF Wt!Outer, Wt!Holder, WorkInv, Rooted
      <3> QED
        BY <2>1, <3>1, <3>2, ReasonsAre DEF WorkInv, EnvsAsWeighed
    <2> QED
      BY <2>2, <2>3 DEF Wt!Claims
  <1>6. \A s \in going : GoneOf(s).how = "env" /\ GoneOf(s).listed
    OBVIOUS
  <1>7. Gone'
    <2> HIDE DEF going, GoneOf
    <2> QED
      BY <1>1, <1>5, <1>6
      DEF WorkInv, Gone, Wt!NoWorkLost, Wt!GrowsByStrangersOnly, Wt!EnvsAreDerivable
  <1>8. Rooted'
    BY <1>3 DEF WorkInv, Rooted, WtSupposed, Wt!PlacesAssumption
  <1> HIDE DEF going, GoneOf
  <1> QED
    BY <1>1, <1>2, <1>4, <1>7, <1>8
    DEF WorkInv, AtRest, Approved, Reweighed, Ahead, AsWeighed, ToForget, EnvsAsWeighed

LEMMA WorkStep == ASSUME WtSupposed PROVE WorkInv /\ [Wt!Next]_Wt!vars => WorkInv'
  <1> SUFFICES ASSUME WorkInv, [Wt!Next]_Wt!vars PROVE WorkInv'
    OBVIOUS
  <1>1. CASE UNCHANGED Wt!vars
    <2>1. UNCHANGED <<at, reg, pc, plan, todo, fresh, names, sinceWeigh, gone, moves, faults>>
      BY <1>1 DEF Wt!vars, Wt!world, Wt!run
    <2>2. Wt!TypeOK'
      BY <2>1, WorkTypes DEF WorkInv
    <2>3. /\ \A t : Wt!Here(t)' = Wt!Here(t) /\ Wt!Ours(t)' = Wt!Ours(t)
                  /\ HoldsNothing(t)' = HoldsNothing(t) /\ Wt!Claimed(t)' = Wt!Claimed(t)
                  /\ Wt!Holder(t)' = Wt!Holder(t)
          /\ \A v, t : Beneath(v, t)' = Beneath(v, t)
      BY <2>1, SameThere DEF Beneath, Wt!Holder
    <2>4. AsWeighed'
      BY <2>1, <2>3 DEF WorkInv, AsWeighed, Ahead, Wt!Same
    <2> QED
      BY <2>1, <2>2, <2>3, <2>4 DEF WorkInv, AtRest, Rooted, Approved, Reweighed, ToForget,
         EnvsAsWeighed, Gone, Wt!NoWorkLost, Wt!GrowsByStrangersOnly, Wt!EnvsAreDerivable
  <1>2. CASE Wt!Next
    BY <1>2, WorkOthers, WorkPlan, WorkConfirm, WorkReclaims, WorkActs, WorkForgets, WorkAbandon,
       WorkRemoves, Zenon DEF Wt!Next, Wt!Go
  <1> QED
    BY <1>1, <1>2

LEMMA WorkMeans ==
    ASSUME WorkInv, [Wt!Next]_Wt!vars
    PROVE  /\ Wt!TypeOK /\ Wt!NoWorkLost /\ Wt!GrowsByStrangersOnly
           /\ Wt!EnvsAreDerivable /\ Wt!NamesAfterBytes
  BY DEF WorkInv, Gone, ToForget, Wt!NamesAfterBytes

\* A prune takes no work that was not insisted on, nothing the plan did not name but a
\* stranger's, and a name only once its bytes are gone, whatever agents, git and people do
\* between any two of its steps: each unit's place is as the second weighing found it
\* unless somebody came after, which `late` says (weigh, reclaim, act_on, forget).
THEOREM WorktreesAreSafe == Spec => WorktreesSafe
  <1> DEFINE OwnInv == part = "worktrees" => WorkInv
  <1>1. Init => OwnInv
    BY StartsAsOne, WtGiven, WorkInit
  <1>2. OwnInv /\ [Next]_vars => OwnInv'
    BY StepsAsOne, WtGiven, WorkStep
  <1>3. OwnInv /\ [Next]_vars =>
          [part = "worktrees" =>
              /\ Wt!TypeOK /\ Wt!NoWorkLost /\ Wt!GrowsByStrangersOnly
              /\ Wt!EnvsAreDerivable /\ Wt!NamesAfterBytes]_vars
    BY StepsAsOne, WorkMeans
  <1> QED
    BY <1>1, <1>2, <1>3, PTL DEF Spec, WorktreesSafe

(***************************************************************************)
(* Reconcile and prune over the clones of a repository, for every set of   *)
(* the verbs.  A re-pointed workspace and the id that leads to it differ   *)
(* only between the two writes of an adoption, and what a run still has to *)
(* adopt was placed, when it listed, under a name of the branch it goes    *)
(* to.                                                                     *)
(***************************************************************************)
RcSupposed == Rc!NamesAssumption /\ Rc!PlacesAssumption /\ Rc!BoundsAssumption

LEMMA RcGiven == RcSupposed
  BY RcNamesAssumption, RcPlacesAssumption, RcBoundsAssumption DEF RcSupposed

RcSources == Rc!Place \cup {Outside, Unreadable, Unlisted}

\* A branch's directory holds a workspace of that name, at it, or none.
AtHome(places) == \A b \in Topics : places[Hashed[b]] \in {Unlisted, <<Hashed[b]>>}

\* A workspace that may be written down as the branch's.
Leads(w, b) ==
    /\ w \in Rc!Listed \ crossed => source[w] = <<Hashed[b]>>
    /\ \A c \in Topics : w = Hashed[c] => c = b

\* What a run has still to adopt was placed under a name of its branch; neither a
\* workspace nor a branch is in it twice; and nobody is in the clones it gives away.
Placed(p) ==
    \A pair \in my[p].adopting :
        /\ Rc!InTree(my[p].seen[pair[1]])
        /\ my[p].seen[pair[1]][Len(my[p].seen[pair[1]])] \in Spellings[pair[2]]
OneToOne(p) ==
    \A one, two \in my[p].adopting : one[1] = two[1] \/ one[2] = two[2] => one = two
Vacant(p) ==
    \A pair \in my[p].adopting : \A w \in Leaves \ {pair[1]} :
        Rc!InTree(source[w]) => source[w][1] # Hashed[pair[2]]

RcRun(p) ==
    /\ AtHome(my[p].seen)
    /\ pc[p] = "record" => Leads(my[p].ws, my[p].branch)
    /\ my[p].adopting # {} =>
          pc[p] \in {"answer", "repoint", "record"} /\ my[p].verb # "prune"
    /\ pc[p] = "plan" /\ calm[p] => my[p].seen = source
    /\ Placed(p) /\ OneToOne(p)
    /\ calm[p] => Vacant(p)
    /\ pc[p] = "weigh" => \A w \in steady[p] : source[w] = my[p].seen[w]

RcInv ==
    /\ Rc!TypeOK
    /\ AtHome(source)
    /\ \A b \in Topics : records[b] \in Leaves => Leads(records[b], b)
    /\ \A p \in Racers : RcRun(p)

LEMMA HashesApart ==
    ASSUME RcSupposed, NEW b \in Topics, NEW c \in Topics
    PROVE  /\ Hashed[b] \in Leaves \ Ancient
           /\ Hashed[b] \in Spellings[c] \/ Hashed[b] = Hashed[c] => b = c
  BY DEF RcSupposed, Rc!NamesAssumption

LEMMA PlaceIs ==
    ASSUME RcSupposed, NEW spot \in RcSources
    PROVE  /\ Rc!InTree(spot) <=> spot \in Rc!Place
           /\ spot \in Rc!Place => /\ spot \in Seq(Leaves) /\ Len(spot) \in {1, 2}
                                   /\ spot[1] \in Leaves /\ spot[Len(spot)] \in Leaves
  <1>1. ASSUME spot \in Rc!Place PROVE spot \in Seq(Leaves) /\ Len(spot) \in {1, 2}
    <2>1. CASE spot \in Strewn
      BY <2>1 DEF RcSupposed, Rc!PlacesAssumption
    <2>2. CASE spot \notin Strewn
      <3>1. PICK b \in Topics : spot = <<Hashed[b]>>
        BY <1>1, <2>2 DEF Rc!Place
      <3> QED
        BY <3>1, HashesApart
    <2> QED
      BY <2>1, <2>2
  <1>2. spot \in Rc!Place => Rc!InTree(spot)
    BY <1>1 DEF RcSupposed, Rc!PlacesAssumption, Rc!InTree
  <1>3. Rc!InTree(spot) => spot \in Rc!Place
    BY DEF Rc!InTree, RcSources
  <1> QED
    BY <1>1, <1>2, <1>3

LEMMA CloneIs ==
    ASSUME RcSupposed, NEW b \in Topics
    PROVE  /\ <<Hashed[b]>> \in Rc!Place /\ <<Hashed[b]>> \in RcSources
           /\ Rc!InTree(<<Hashed[b]>>) /\ <<Hashed[b]>> # Unlisted
           /\ <<Hashed[b]>>[1] = Hashed[b]
           /\ <<Hashed[b]>>[Len(<<Hashed[b]>>)] = Hashed[b]
  <1>1. <<Hashed[b]>> \in Rc!Place /\ <<Hashed[b]>> \in RcSources
    BY DEF Rc!Place, RcSources
  <1>2. Rc!InTree(<<Hashed[b]>>)
    BY <1>1, PlaceIs
  <1>3. Len(<<Hashed[b]>>) = 1 /\ <<Hashed[b]>>[1] = Hashed[b]
    OBVIOUS
  <1> QED
    BY <1>1, <1>2, <1>3 DEF Rc!InTree

LEMMA UntoldIs ==
    ASSUME RcSupposed
    PROVE  /\ Rc!Untold \in Rc!Mine /\ Rc!Untold.adopting = {} /\ AtHome(Rc!Untold.seen)
           /\ Rc!Someone \in Leaves /\ Rc!Something \in Topics
  <1>1. Rc!Something \in Topics
    BY DEF RcSupposed, Rc!NamesAssumption, Rc!Something
  <1>2. Rc!Someone \in Leaves
    BY <1>1, HashesApart DEF Rc!Someone
  <1>3. Rc!Untold \in Rc!Mine
    BY <1>1, <1>2 DEF Rc!Untold, Rc!Told, Rc!Mine, Rc!Verb
  <1>4. Rc!Untold.adopting = {} /\ Rc!Untold.seen = [x \in Leaves |-> Unlisted]
    BY DEF Rc!Untold, Rc!Told
  <1> QED
    BY <1>1, <1>2, <1>3, <1>4, HashesApart DEF AtHome

LEMMA RcInit == ASSUME RcSupposed PROVE Rc!Init => RcInv
  <1> SUFFICES ASSUME Rc!Init PROVE RcInv
    OBVIOUS
  <1>1. PICK old \in [Ancient -> Strewn \cup {Outside, Unreadable, Unlisted}],
             known \in SUBSET Topics : \E open \in SUBSET known :
          /\ git = {Hashed[b] : b \in known}
          /\ source = [w \in Leaves |->
                IF w \in Ancient THEN old[w]
                ELSE IF \E b \in open : Hashed[b] = w THEN <<w>> ELSE Unlisted]
          /\ records = [b \in Topics |-> IF b \in open THEN Hashed[b]
                                         ELSE IF b \in known THEN NoId ELSE Missing]
    BY DEF Rc!Init
  <1>0. PICK open \in SUBSET known :
          /\ git = {Hashed[b] : b \in known}
          /\ source = [w \in Leaves |->
                IF w \in Ancient THEN old[w]
                ELSE IF \E b \in open : Hashed[b] = w THEN <<w>> ELSE Unlisted]
          /\ records = [b \in Topics |-> IF b \in open THEN Hashed[b]
                                         ELSE IF b \in known THEN NoId ELSE Missing]
    BY <1>1
  <1>2. source \in [Leaves -> RcSources]
    <2>1. ASSUME NEW w \in Leaves PROVE source[w] \in RcSources
      <3>1. CASE w \in Ancient
        BY <1>0, <3>1 DEF RcSources, Rc!Place
      <3>2. CASE w \notin Ancient
        BY <1>0, <3>2, CloneIs DEF RcSources
      <3> QED
        BY <3>1, <3>2
    <2> QED
      BY <1>0, <2>1
  <1>3. AtHome(source)
    BY <1>0, HashesApart DEF AtHome
  <1>4. \A b \in Topics : records[b] \in Leaves => Leads(records[b], b)
    <2> SUFFICES ASSUME NEW b \in Topics, records[b] \in Leaves PROVE Leads(records[b], b)
      OBVIOUS
    <2>1. b \in open /\ records[b] = Hashed[b]
      BY <1>0 DEF RcSupposed, Rc!NamesAssumption
    <2> QED
      BY <1>0, <2>1, HashesApart DEF Leads
  <1>5. /\ pc = [p \in Racers |-> "idle"] /\ my = [p \in Racers |-> Rc!Untold]
        /\ half = {} /\ crossed = {}
        /\ calm = [p \in Racers |-> TRUE] /\ steady = [p \in Racers |-> {}]
    BY DEF Rc!Init
  <1>6. Rc!TypeOK
    <2>1. git \subseteq {Hashed[b] : b \in Topics}
      BY <1>0
    <2>2. records \in [Topics -> Leaves \cup {NoId, Missing}]
      BY <1>0, HashesApart
    <2>3. /\ pc \in [Racers -> Rc!Step] /\ my \in [Racers -> Rc!Mine]
          /\ calm \in [Racers -> BOOLEAN] /\ steady \in [Racers -> SUBSET Rc!Listed]
      BY <1>5, UntoldIs DEF Rc!Step
    <2> QED
      BY <1>2, <1>5, <2>1, <2>2, <2>3 DEF Rc!TypeOK, RcSources
  <1>7. ASSUME NEW p \in Racers PROVE RcRun(p)
    BY <1>5, UntoldIs DEF RcRun, Placed, OneToOne, Vacant
  <1> QED
    BY <1>3, <1>4, <1>6, <1>7 DEF RcInv

(***************************************************************************)
(* What a step of p leaves of the others, and what of its own.             *)
(***************************************************************************)
\* A command is by itself: it moves and carries what is its own.
ByItself(p) ==
    \A q \in Racers : q # p => my'[q] = my[q] /\ pc'[q] = pc[q]

\* What the histories keep of it: a change of where devpod has them ends the others'
\* calm, and a workspace that moved is steady for nobody.
RcMinds(p) ==
    /\ source' # source => \A q \in Racers : q # p => ~calm'[q]
    /\ \A q \in Racers : q # p => /\ calm'[q] => calm[q]
                                  /\ \A w \in steady'[q] : w \in steady[q] /\ source'[w] = source[w]

LEMMA RcOthers ==
    ASSUME RcInv, NEW p \in Racers, ByItself(p), RcMinds(p),
           \A w \in Leaves, b \in Topics : Leads(w, b) => Leads(w, b)'
    PROVE  \A q \in Racers : q # p => RcRun(q)'
  <1> SUFFICES ASSUME NEW q \in Racers, q # p PROVE RcRun(q)'
    OBVIOUS
  <1>1. my'[q] = my[q] /\ pc'[q] = pc[q] /\ RcRun(q)
    BY DEF ByItself, RcInv
  <1>2. my[q].ws \in Leaves /\ my[q].branch \in Topics
    BY DEF RcInv, Rc!TypeOK, Rc!Mine
  <1>3. AtHome(my'[q].seen)
    BY <1>1 DEF RcRun, AtHome
  <1>4. pc'[q] = "record" => Leads(my[q].ws, my[q].branch)'
    <2>1. /\ (my[q].ws)' = my[q].ws /\ (my[q].branch)' = my[q].branch
      BY <1>1
    <2>2. ASSUME pc'[q] = "record" PROVE Leads(my[q].ws, my[q].branch)
      BY <1>1, <2>2 DEF RcRun
    <2>3. ASSUME NEW w \in Leaves, NEW b \in Topics, w = my[q].ws, b = my[q].branch, Leads(w, b)
          PROVE  Leads(w, b)'
      BY <2>3
    <2> QED
      BY <1>2, <2>1, <2>2, <2>3 DEF Leads
  <1>5. Placed(q)' /\ OneToOne(q)'
    BY <1>1 DEF RcRun, Placed, OneToOne, Rc!InTree
  <1>6. pc'[q] = "plan" /\ calm'[q] => my'[q].seen = source'
    BY <1>1 DEF RcRun, RcMinds
  <1>7. calm'[q] => Vacant(q)'
    BY <1>1 DEF RcRun, RcMinds, Vacant, Rc!InTree
  <1>8. pc'[q] = "weigh" => \A w \in steady'[q] : source'[w] = my'[q].seen[w]
    BY <1>1 DEF RcRun, RcMinds
  <1> QED
    BY <1>1, <1>3, <1>4, <1>5, <1>6, <1>7, <1>8 DEF RcRun, AtHome, Leads

LEMMA RcKeeps ==
    ASSUME RcInv, NEW p \in Racers, ByItself(p), RcMinds(p),
           Rc!TypeOK', AtHome(source'), RcRun(p)',
           \A w \in Leaves, b \in Topics : Leads(w, b) => Leads(w, b)',
           \A b \in Topics, w \in Leaves :
               records'[b] = w => records[b] = w \/ Leads(w, b)'
    PROVE  RcInv'
  <1>1. ASSUME NEW b \in Topics, NEW w \in Leaves, records'[b] = w PROVE Leads(w, b)'
    BY <1>1 DEF RcInv
  <1>3. ASSUME NEW b \in Topics, records'[b] \in Leaves PROVE Leads(records[b], b)'
    BY <1>1, <1>3 DEF Leads
  <1>2. \A q \in Racers : RcRun(q)'
    BY RcOthers
  <1> QED
    BY <1>2, <1>3 DEF RcInv, AtHome

\* A command that comes to its end carries nothing.
LEMMA RcRests ==
    ASSUME RcSupposed, RcInv, NEW p \in Racers, Rc!Done(p)
    PROVE  /\ pc' \in [Racers -> Rc!Step] /\ my' \in [Racers -> Rc!Mine]
           /\ ByItself(p) /\ RcRun(p)' /\ pc'[p] = "idle" /\ my'[p] = Rc!Untold
  <1>1. pc' = [pc EXCEPT ![p] = "idle"] /\ my' = [my EXCEPT ![p] = Rc!Untold]
    BY DEF Rc!Done, Rc!Goto
  <1>2. pc \in [Racers -> Rc!Step] /\ my \in [Racers -> Rc!Mine]
    BY DEF RcInv, Rc!TypeOK
  <1>3. pc'[p] = "idle" /\ my'[p] = Rc!Untold
    BY <1>1, <1>2
  <1> QED
    BY <1>1, <1>2, <1>3, UntoldIs DEF ByItself, RcRun, AtHome, Placed, OneToOne, Vacant, Rc!Step

LEMMA RcGoto ==
    ASSUME RcInv, NEW p \in Racers, NEW step \in Rc!Step, Rc!Goto(p, step)
    PROVE  /\ pc' \in [Racers -> Rc!Step] /\ pc'[p] = step
           /\ \A q \in Racers : q # p => pc'[q] = pc[q]
  BY DEF RcInv, Rc!TypeOK, Rc!Goto

LEMMA RcTakes ==
    ASSUME RcInv, NEW p \in Racers, NEW m \in Rc!Mine, my' = [my EXCEPT ![p] = m]
    PROVE  /\ my' \in [Racers -> Rc!Mine] /\ my'[p] = m
           /\ \A q \in Racers : q # p => my'[q] = my[q]
  BY DEF RcInv, Rc!TypeOK

LEMMA RcCarries ==
    ASSUME RcInv, NEW p \in Racers
    PROVE  /\ my[p] \in Rc!Mine /\ pc[p] \in Rc!Step
           /\ my[p].ws \in Leaves /\ my[p].branch \in Topics
           /\ my[p].seen \in [Leaves -> RcSources] /\ my[p].dirs \subseteq Leaves
           /\ my[p].adopting \subseteq Leaves \X Topics /\ my[p].verb \in Rc!Verb
  BY DEF RcInv, Rc!TypeOK, Rc!Mine, RcSources

\* A step that changes the world.
LEMMA RcDisturbs ==
    ASSUME RcInv, NEW p \in Racers, source' \in [Leaves -> RcSources], Rc!Disturb(p)
    PROVE  /\ calm' \in [Racers -> BOOLEAN] /\ steady' \in [Racers -> SUBSET Rc!Listed']
           /\ RcMinds(p) /\ (calm'[p] => calm[p])
           /\ \A w \in steady'[p] : w \in steady[p] /\ source'[w] = source[w]
  <1>1. /\ calm \in [Racers -> BOOLEAN]
        /\ \A q \in Racers : steady[q] \subseteq Rc!Listed
    BY DEF RcInv, Rc!TypeOK
  <1>2. /\ calm' = [q \in Racers |-> calm[q] /\ q = p]
        /\ steady' = [q \in Racers |-> {w \in steady[q] : source'[w] = source[w]}]
    BY DEF Rc!Disturb
  <1>3. \A q \in Racers : {w \in steady[q] : source'[w] = source[w]} \subseteq Rc!Listed'
    BY <1>1 DEF Rc!Listed
  <1>4. calm' \in [Racers -> BOOLEAN] /\ \A q \in Racers : calm'[q] <=> (calm[q] /\ q = p)
    BY <1>1, <1>2
  <1> QED
    BY <1>2, <1>3, <1>4 DEF RcMinds

\* A step that moves no workspace.
LEMMA RcStays ==
    ASSUME UNCHANGED <<source, crossed>>
    PROVE  /\ Rc!Listed' = Rc!Listed
           /\ \A w \in Leaves, b \in Topics : Leads(w, b)' <=> Leads(w, b)
  BY DEF Rc!Listed, Leads

\* What a step does not take up again stays true of p.
LEMMA RcGoesOn ==
    ASSUME RcInv, NEW p \in Racers, UNCHANGED source, my'[p].seen = my[p].seen,
           my'[p].adopting \subseteq my[p].adopting, calm'[p] => calm[p],
           pc'[p] \notin {"record", "plan"},
           my'[p].adopting # {} =>
               pc'[p] \in {"answer", "repoint"} /\ my'[p].verb # "prune",
           pc'[p] = "weigh" => pc[p] = "weigh" /\ steady'[p] \subseteq steady[p]
    PROVE  RcRun(p)'
  <1>1. RcRun(p)
    BY DEF RcInv
  <1>2. AtHome(my'[p].seen) /\ Placed(p)' /\ OneToOne(p)'
    BY <1>1 DEF RcRun, AtHome, Placed, OneToOne, Rc!InTree
  <1>3. calm'[p] => Vacant(p)'
    BY <1>1 DEF RcRun, Vacant, Rc!InTree
  <1>4. pc'[p] = "weigh" => \A w \in steady'[p] : source'[w] = my'[p].seen[w]
    BY <1>1 DEF RcRun
  <1> QED
    BY <1>2, <1>3, <1>4 DEF RcRun, AtHome

LEMMA RcBegin == ASSUME RcSupposed, RcInv, NEW p \in Racers, Rc!Begin(p) PROVE RcInv'
  <1>1. /\ UNCHANGED <<source, git, records, steady, half, crossed>>
        /\ calm' = [calm EXCEPT ![p] = TRUE] /\ pc[p] = "idle"
    BY DEF Rc!Begin, Rc!world
  <1>2. /\ my[p] \in Rc!Mine /\ my[p].adopting = {} /\ AtHome(my[p].seen)
        /\ calm' \in [Racers -> BOOLEAN] /\ \A q \in Racers : q # p => calm'[q] = calm[q]
    BY <1>1, RcCarries DEF RcInv, RcRun, Rc!TypeOK
  <1>3. \E m \in Rc!Mine, step \in {"list", "ask", "delete"} :
            /\ my' = [my EXCEPT ![p] = m] /\ Rc!Goto(p, step)
            /\ m.adopting = {} /\ AtHome(m.seen)
    <2>1. CASE \E verb \in CloneVerbs \cap {"reconcile", "prune"} :
                  /\ my' = [my EXCEPT ![p] = Rc!Told(verb, Rc!Someone, Rc!Something, records, half)]
                  /\ Rc!Goto(p, "list")
      <3>1. PICK verb \in CloneVerbs \cap {"reconcile", "prune"} :
                  /\ my' = [my EXCEPT ![p] = Rc!Told(verb, Rc!Someone, Rc!Something, records, half)]
                  /\ Rc!Goto(p, "list")
        BY <2>1
      <3> DEFINE m == Rc!Told(verb, Rc!Someone, Rc!Something, records, half)
      <3>2. m \in Rc!Mine /\ m.adopting = {} /\ m.seen = [x \in Leaves |-> Unlisted]
        BY <3>1, UntoldIs DEF Rc!Told, Rc!Mine, Rc!Verb, RcInv, Rc!TypeOK
      <3>3. AtHome(m.seen)
        BY <3>2, HashesApart DEF AtHome
      <3> QED
        BY <3>1, <3>2, <3>3
    <2>2. CASE \E b \in Topics : Rc!Goto(p, "ask") /\ my' = [my EXCEPT ![p].branch = b]
      <3>1. PICK b \in Topics : Rc!Goto(p, "ask") /\ my' = [my EXCEPT ![p].branch = b]
        BY <2>2
      <3>2. [my[p] EXCEPT !.branch = b] \in Rc!Mine
        BY <1>2 DEF Rc!Mine
      <3>3. my' = [my EXCEPT ![p] = [my[p] EXCEPT !.branch = b]]
        BY <3>1
      <3> QED
        BY <1>2, <3>1, <3>2, <3>3 DEF Rc!Mine
    <2>3. CASE \E w \in Rc!Listed : Rc!Goto(p, "delete") /\ my' = [my EXCEPT ![p].ws = w]
      <3>1. PICK w \in Leaves : Rc!Goto(p, "delete") /\ my' = [my EXCEPT ![p].ws = w]
        BY <2>3 DEF Rc!Listed
      <3>2. [my[p] EXCEPT !.ws = w] \in Rc!Mine
        BY <1>2 DEF Rc!Mine
      <3>3. my' = [my EXCEPT ![p] = [my[p] EXCEPT !.ws = w]]
        BY <3>1
      <3> QED
        BY <1>2, <3>1, <3>2, <3>3 DEF Rc!Mine
    <2> QED
      BY <2>1, <2>2, <2>3 DEF Rc!Begin
  <1>4. PICK m \in Rc!Mine, step \in {"list", "ask", "delete"} :
            /\ my' = [my EXCEPT ![p] = m] /\ Rc!Goto(p, step)
            /\ m.adopting = {} /\ AtHome(m.seen)
    BY <1>3
  <1>5. /\ my' \in [Racers -> Rc!Mine] /\ my'[p] = m
        /\ pc' \in [Racers -> Rc!Step] /\ pc'[p] = step /\ ByItself(p)
    BY <1>4, RcTakes, RcGoto DEF ByItself, Rc!Step
  <1>6. RcRun(p)'
    BY <1>4, <1>5 DEF RcRun, AtHome, Placed, OneToOne, Vacant
  <1>7. Rc!TypeOK' /\ RcMinds(p) /\ AtHome(source')
    BY <1>1, <1>2, <1>5, RcStays DEF RcInv, Rc!TypeOK, RcMinds
  <1> QED
    BY <1>1, <1>5, <1>6, <1>7, RcStays, RcKeeps

\* A step that changes nothing but what p carries and where it is.
LEMMA RcQuiet ==
    ASSUME RcInv, NEW p \in Racers, ByItself(p), RcRun(p)',
           pc' \in [Racers -> Rc!Step], my' \in [Racers -> Rc!Mine],
           UNCHANGED <<source, git, records, calm, crossed>>,
           half' \subseteq Leaves \X Topics, steady' \in [Racers -> SUBSET Rc!Listed],
           \A q \in Racers : q # p => steady'[q] = steady[q]
    PROVE  RcInv'
  <1>1. Rc!TypeOK' /\ RcMinds(p) /\ AtHome(source')
    BY RcStays DEF RcInv, Rc!TypeOK, RcMinds
  <1> QED
    BY <1>1, RcStays, RcKeeps

LEMMA RcSees ==
    ASSUME RcSupposed, RcInv, NEW p \in Racers, Rc!List(p) \/ Rc!Relist(p)
    PROVE  RcInv'
  <1>1. UNCHANGED <<source, git, records, calm, half, crossed>>
    BY DEF Rc!List, Rc!Relist, Rc!world, Rc!history
  <1>2. /\ my[p] \in Rc!Mine /\ RcRun(p) /\ AtHome(source)
        /\ source \in [Leaves -> RcSources] /\ git \subseteq Leaves
        /\ steady \in [Racers -> SUBSET Rc!Listed]
    BY RcCarries, HashesApart DEF RcInv, Rc!TypeOK, RcSources
  <1>3. CASE Rc!List(p)
    <2> DEFINE m == [my[p] EXCEPT !.seen = source]
    <2>1. m \in Rc!Mine /\ m.seen = source /\ m.adopting = my[p].adopting
      BY <1>2 DEF Rc!Mine, RcSources
    <2>2. my' = [my EXCEPT ![p] = m] /\ Rc!Goto(p, "plan") /\ steady' = steady /\ pc[p] = "list"
      BY <1>3 DEF Rc!List, Rc!history
    <2> HIDE DEF m
    <2>3. /\ my' \in [Racers -> Rc!Mine] /\ my'[p] = m
          /\ pc' \in [Racers -> Rc!Step] /\ pc'[p] = "plan" /\ ByItself(p)
      BY <2>1, <2>2, RcTakes, RcGoto DEF ByItself, Rc!Step
    <2>4. m.adopting = {}
      BY <1>2, <2>1, <2>2 DEF RcRun
    <2>5. RcRun(p)'
      BY <1>1, <1>2, <2>1, <2>3, <2>4 DEF RcRun, AtHome, Placed, OneToOne, Vacant
    <2> QED
      BY <1>1, <1>2, <2>2, <2>3, <2>5, RcQuiet DEF RcInv, Rc!TypeOK
  <1>4. CASE Rc!Relist(p)
    <2>1. steady' = [steady EXCEPT ![p] = Rc!Listed]
      BY <1>4 DEF Rc!Relist
    <2>2. /\ steady' \in [Racers -> SUBSET Rc!Listed] /\ steady'[p] = Rc!Listed
          /\ \A q \in Racers : q # p => steady'[q] = steady[q]
      BY <1>2, <2>1
    <2>3. CASE Rc!Done(p)
      BY <1>1, <2>2, <2>3, RcRests, RcQuiet DEF RcInv, Rc!TypeOK
    <2>4. CASE ~Rc!Done(p)
      <3> DEFINE m == [my[p] EXCEPT !.seen = source, !.dirs = git]
      <3>1. m \in Rc!Mine /\ m.seen = source /\ m.adopting = my[p].adopting
        BY <1>2 DEF Rc!Mine, RcSources
      <3>2. my' = [my EXCEPT ![p].seen = source, ![p].dirs = git] /\ Rc!Goto(p, "weigh")
        BY <1>4, <2>4 DEF Rc!Relist
      <3>3. my' = [my EXCEPT ![p] = m]
        BY <3>2
      <3> HIDE DEF m
      <3>4. /\ my' \in [Racers -> Rc!Mine] /\ my'[p] = m
            /\ pc' \in [Racers -> Rc!Step] /\ pc'[p] = "weigh" /\ ByItself(p)
        BY <3>1, <3>2, <3>3, RcTakes, RcGoto DEF ByItself, Rc!Step
      <3>5. m.adopting = {}
        BY <1>2, <1>4, <3>1 DEF RcRun, Rc!Relist
      <3>6. RcRun(p)'
        BY <1>1, <1>2, <3>1, <3>4, <3>5 DEF RcRun, AtHome, Placed, OneToOne, Vacant
      <3> QED
        BY <1>1, <2>2, <3>4, <3>6, RcQuiet DEF RcInv, Rc!TypeOK
    <2> QED
      BY <2>3, <2>4
  <1> QED
    BY <1>3, <1>4

\* reconcile_plan: each of its pairs an orphan, where it was listed, and a clone of its
\* name that nobody is in; one workspace to one clone.
LEMMA PairsAre ==
    ASSUME RcSupposed, NEW seen \in [Leaves -> RcSources], NEW dirs, NEW recs,
           NEW pair \in Rc!Adoptable(seen, dirs, recs)
    PROVE  /\ pair[1] \in Leaves /\ pair[2] \in Topics /\ pair = <<pair[1], pair[2]>>
           /\ Rc!InTree(seen[pair[1]])
           /\ seen[pair[1]][Len(seen[pair[1]])] \in Spellings[pair[2]]
           /\ \A w \in Leaves : Rc!InTree(seen[w]) => seen[w][1] # Hashed[pair[2]]
           /\ \A other \in Rc!Adoptable(seen, dirs, recs) :
                 pair[1] = other[1] \/ pair[2] = other[2] => pair = other
  <1>1. /\ pair \in Rc!Orphans(seen, dirs) \X Topics
        /\ Rc!Answers(seen, dirs, recs, pair[1]) = {pair[2]}
        /\ \A w \in Rc!Orphans(seen, dirs) \ {pair[1]} :
              Rc!Answers(seen, dirs, recs, w) # {pair[2]}
    BY DEF Rc!Adoptable
  <1>2. pair[1] \in Rc!Orphans(seen, dirs) /\ pair[2] \in Topics /\ pair = <<pair[1], pair[2]>>
    BY <1>1
  <1>3. pair[1] \in Leaves /\ Rc!InTree(seen[pair[1]])
    BY <1>2 DEF Rc!Orphans, Rc!Astray
  <1>4. /\ pair[2] \in Rc!Candidates(seen, dirs, recs)
        /\ seen[pair[1]][Len(seen[pair[1]])] \in Spellings[pair[2]]
    <2>1. pair[2] \in Rc!Answers(seen, dirs, recs, pair[1])
      BY <1>1
    <2> QED
      BY <2>1 DEF Rc!Answers
  <1>5. \A w \in Leaves : Rc!InTree(seen[w]) => seen[w][1] # Hashed[pair[2]]
    BY <1>4 DEF Rc!Candidates, Rc!Holder, Rc!InAClone
  <1>6. ASSUME NEW other \in Rc!Adoptable(seen, dirs, recs),
               pair[1] = other[1] \/ pair[2] = other[2]
        PROVE  pair = other
    <2>1. /\ other[1] \in Rc!Orphans(seen, dirs) /\ other = <<other[1], other[2]>>
          /\ Rc!Answers(seen, dirs, recs, other[1]) = {other[2]}
      BY DEF Rc!Adoptable
    <2>2. CASE pair[1] = other[1]
      BY <1>1, <1>2, <2>1, <2>2
    <2>3. CASE pair[2] = other[2] /\ pair[1] # other[1]
      BY <1>1, <2>1, <2>3
    <2> QED
      BY <1>6, <2>2, <2>3
  <1> QED
    BY <1>2, <1>3, <1>4, <1>5, <1>6

LEMMA RcPlans ==
    ASSUME RcSupposed, RcInv, NEW p \in Racers, Rc!PlanAdoptions(p) PROVE RcInv'
  <1>1. /\ UNCHANGED <<source, git, records, calm, steady, half, crossed>>
        /\ pc[p] = "plan" /\ my[p].verb = "reconcile"
    BY DEF Rc!PlanAdoptions, Rc!world, Rc!history
  <1>2. half \subseteq Leaves \X Topics /\ steady \in [Racers -> SUBSET Rc!Listed]
    BY DEF RcInv, Rc!TypeOK
  <1>3. CASE Rc!Done(p)
    BY <1>1, <1>2, <1>3, RcRests, RcQuiet
  <1>4. CASE ~Rc!Done(p)
    <2> DEFINE pairs == Rc!Adoptable(my[p].seen, git, my[p].recs)
               m     == [my[p] EXCEPT !.adopting = pairs]
    <2>1. my' = [my EXCEPT ![p].adopting = pairs] /\ Rc!Goto(p, "answer")
      BY <1>4 DEF Rc!PlanAdoptions
    <2>2. my' = [my EXCEPT ![p] = m]
      BY <2>1
    <2>3. /\ my[p] \in Rc!Mine /\ my[p].seen \in [Leaves -> RcSources] /\ RcRun(p)
      BY RcCarries DEF RcInv
    <2>4. \A pair \in pairs :
              /\ pair[1] \in Leaves /\ pair[2] \in Topics /\ pair = <<pair[1], pair[2]>>
              /\ Rc!InTree(my[p].seen[pair[1]])
              /\ my[p].seen[pair[1]][Len(my[p].seen[pair[1]])] \in Spellings[pair[2]]
              /\ \A w \in Leaves : Rc!InTree(my[p].seen[w]) => my[p].seen[w][1] # Hashed[pair[2]]
              /\ \A other \in pairs : pair[1] = other[1] \/ pair[2] = other[2] => pair = other
      BY <2>3, PairsAre
    <2> HIDE DEF pairs
    <2>5. pairs \subseteq Leaves \X Topics
      BY <2>4
    <2>6. /\ m \in Rc!Mine /\ m.adopting = pairs /\ m.seen = my[p].seen
          /\ m.verb = my[p].verb
      BY <2>3, <2>5 DEF Rc!Mine
    <2> HIDE DEF m
    <2>7. /\ my' \in [Racers -> Rc!Mine] /\ my'[p] = m
          /\ pc' \in [Racers -> Rc!Step] /\ pc'[p] = "answer" /\ ByItself(p)
      BY <2>1, <2>2, <2>6, RcTakes, RcGoto DEF ByItself, Rc!Step
    <2>8. Placed(p)' /\ OneToOne(p)'
      BY <2>4, <2>6, <2>7 DEF Placed, OneToOne, Rc!InTree
    <2>9. ASSUME calm'[p] PROVE Vacant(p)'
      <3>1. my[p].seen = source
        BY <1>1, <2>3, <2>9 DEF RcRun
      <3> QED
        BY <1>1, <2>4, <2>6, <2>7, <3>1 DEF Vacant, Rc!InTree
    <2>10. RcRun(p)'
      <3>1. AtHome(my'[p].seen)
        BY <2>3, <2>6, <2>7 DEF RcRun
      <3> QED
        BY <1>1, <2>6, <2>7, <2>8, <2>9, <3>1 DEF RcRun, AtHome
    <2> QED
      BY <1>1, <1>2, <2>7, <2>10, RcQuiet
  <1> QED
    BY <1>3, <1>4

\* The steps that go on with what is carried, and change nothing else.
LEMMA RcPasses ==
    ASSUME RcSupposed, RcInv, NEW p \in Racers,
           Rc!PlanRemovals(p) \/ Rc!Answer(p) \/ Rc!Finish(p) \/ Rc!Ask(p) \/ Rc!Crash(p)
    PROVE  RcInv'
  <1>1. UNCHANGED <<source, git, records, calm, steady, crossed>>
    BY DEF Rc!PlanRemovals, Rc!Answer, Rc!Finish, Rc!Ask, Rc!Crash, Rc!world, Rc!history
  <1>2. half' \subseteq Leaves \X Topics /\ steady \in [Racers -> SUBSET Rc!Listed]
    <2>1. CASE half' = half
      BY <2>1 DEF RcInv, Rc!TypeOK
    <2>2. CASE Rc!Crash(p)
      BY <2>2, RcCarries DEF RcInv, Rc!TypeOK, Rc!Crash
    <2> QED
      BY <2>1, <2>2 DEF RcInv, Rc!TypeOK, Rc!PlanRemovals, Rc!Answer, Rc!Finish, Rc!Ask, Rc!history
  <1>3. CASE Rc!Done(p)
    BY <1>1, <1>2, <1>3, RcRests, RcQuiet
  <1>4. CASE ~Rc!Done(p)
    <2>1. my[p] \in Rc!Mine /\ RcRun(p)
      BY RcCarries DEF RcInv
    <2>2. \E m \in Rc!Mine, step \in {"answer", "relist", "repoint", "prepare"} :
              /\ my' = [my EXCEPT ![p] = m] /\ Rc!Goto(p, step)
              /\ m.seen = my[p].seen /\ m.verb = my[p].verb /\ m.adopting = my[p].adopting
              /\ m.adopting # {} => step \in {"answer", "repoint"} /\ m.verb # "prune"
      <3>1. CASE Rc!PlanRemovals(p)
        <4>1. PICK dirs \in SUBSET git : my' = [my EXCEPT ![p].going = dirs]
          BY <1>4, <3>1 DEF Rc!PlanRemovals
        <4> DEFINE m == [my[p] EXCEPT !.going = dirs]
        <4>2. my' = [my EXCEPT ![p] = m] /\ Rc!Goto(p, "answer")
          BY <1>4, <3>1, <4>1 DEF Rc!PlanRemovals
        <4>3. dirs \subseteq Leaves
          BY HashesApart DEF RcInv, Rc!TypeOK
        <4>4. /\ m \in Rc!Mine /\ m.seen = my[p].seen /\ m.verb = my[p].verb
              /\ m.adopting = my[p].adopting
          BY <2>1, <4>3 DEF Rc!Mine
        <4>5. my[p].adopting = {}
          BY <2>1, <3>1 DEF RcRun, Rc!PlanRemovals
        <4> HIDE DEF m
        <4> QED
          BY <4>2, <4>4, <4>5
      <3>2. CASE Rc!Answer(p) \/ Rc!Ask(p)
        <4>1. my' = [my EXCEPT ![p] = my[p]]
          BY <1>4, <3>2 DEF Rc!Answer, Rc!Ask, RcInv, Rc!TypeOK
        <4>2. \E step \in {"relist", "repoint", "prepare"} :
                 /\ Rc!Goto(p, step)
                 /\ my[p].adopting # {} => step \in {"repoint"} /\ my[p].verb # "prune"
          BY <1>4, <2>1, <3>2 DEF Rc!Answer, Rc!Ask, RcRun
        <4> QED
          BY <2>1, <4>1, <4>2
      <3> QED
        BY <1>4, <3>1, <3>2 DEF Rc!Finish, Rc!Crash
    <2>3. PICK m \in Rc!Mine, step \in {"answer", "relist", "repoint", "prepare"} :
              /\ my' = [my EXCEPT ![p] = m] /\ Rc!Goto(p, step)
              /\ m.seen = my[p].seen /\ m.verb = my[p].verb /\ m.adopting = my[p].adopting
              /\ m.adopting # {} => step \in {"answer", "repoint"} /\ m.verb # "prune"
      BY <2>2
    <2>4. /\ my' \in [Racers -> Rc!Mine] /\ my'[p] = m
          /\ pc' \in [Racers -> Rc!Step] /\ pc'[p] = step /\ ByItself(p)
      BY <2>3, RcTakes, RcGoto DEF ByItself, Rc!Step
    <2>5. RcRun(p)'
      BY <1>1, <2>3, <2>4, RcGoesOn
    <2> QED
      BY <1>1, <1>2, <2>4, <2>5, RcQuiet
  <1> QED
    BY <1>3, <1>4

\* A step of p that writes dl's records or the clones, and moves no workspace.
LEMMA RcWrites ==
    ASSUME RcInv, NEW p \in Racers, ByItself(p), RcRun(p)',
           pc' \in [Racers -> Rc!Step], my' \in [Racers -> Rc!Mine],
           UNCHANGED <<source, half, crossed>>,
           git' \subseteq {Hashed[b] : b \in Topics},
           records' \in [Topics -> Leaves \cup {NoId, Missing}],
           Rc!Disturb(p) \/ UNCHANGED <<calm, steady>>,
           \A b \in Topics, w \in Leaves : records'[b] = w => records[b] = w \/ Leads(w, b)
    PROVE  RcInv'
  <1>1. /\ source \in [Leaves -> RcSources] /\ calm \in [Racers -> BOOLEAN]
        /\ steady \in [Racers -> SUBSET Rc!Listed]
    BY DEF RcInv, Rc!TypeOK, RcSources
  <1>2. /\ calm' \in [Racers -> BOOLEAN] /\ steady' \in [Racers -> SUBSET Rc!Listed'] /\ RcMinds(p)
    <2>1. CASE Rc!Disturb(p)
      BY <1>1, <2>1, RcDisturbs
    <2>2. CASE UNCHANGED <<calm, steady>>
      BY <1>1, <2>2, RcStays DEF RcMinds
    <2> QED
      BY <2>1, <2>2
  <1>3. Rc!TypeOK' /\ AtHome(source')
    BY <1>2 DEF RcInv, Rc!TypeOK
  <1> QED
    BY <1>2, <1>3, RcStays, RcKeeps

\* The writes whose command goes on: of its histories, its own calm and steadiness only
\* shrink.
LEMMA RcShrinks ==
    ASSUME RcInv, NEW p \in Racers, UNCHANGED source, Rc!Disturb(p) \/ UNCHANGED <<calm, steady>>
    PROVE  (calm'[p] => calm[p]) /\ steady'[p] \subseteq steady[p]
  <1>1. source \in [Leaves -> RcSources]
    BY DEF RcInv, Rc!TypeOK, RcSources
  <1> QED
    BY <1>1, RcDisturbs

LEMMA RcRecords == ASSUME RcSupposed, RcInv, NEW p \in Racers, Rc!Record(p) PROVE RcInv'
  <1>1. /\ UNCHANGED <<source, git, half, crossed>> /\ pc[p] = "record"
        /\ Rc!Disturb(p) \/ UNCHANGED <<calm, steady>>
        /\ Rc!Goto(p, "repoint")
    BY DEF Rc!Record
  <1>2. my[p] \in Rc!Mine /\ my[p].ws \in Leaves /\ my[p].branch \in Topics /\ RcRun(p)
    BY RcCarries DEF RcInv
  <1>3. PICK m \in Rc!Mine :
            /\ my' = [my EXCEPT ![p] = m]
            /\ m.seen = my[p].seen /\ m.verb = my[p].verb /\ m.adopting = my[p].adopting
    <2>1. CASE UNCHANGED my
      <3>1. my' = [my EXCEPT ![p] = my[p]]
        BY <2>1 DEF RcInv, Rc!TypeOK
      <3> QED
        BY <1>2, <3>1
    <2>2. CASE my' = [my EXCEPT ![p].landed = FALSE]
      <3> DEFINE m == [my[p] EXCEPT !.landed = FALSE]
      <3>1. my' = [my EXCEPT ![p] = m]
        BY <2>2
      <3>2. /\ m \in Rc!Mine
            /\ m.seen = my[p].seen /\ m.verb = my[p].verb /\ m.adopting = my[p].adopting
        BY <1>2 DEF Rc!Mine
      <3> HIDE DEF m
      <3> QED
        BY <3>1, <3>2
    <2> QED
      BY <2>1, <2>2 DEF Rc!Record
  <1>4. /\ my' \in [Racers -> Rc!Mine] /\ my'[p] = m
        /\ pc' \in [Racers -> Rc!Step] /\ pc'[p] = "repoint" /\ ByItself(p)
    BY <1>1, <1>3, RcTakes, RcGoto DEF ByItself, Rc!Step
  <1>5. RcRun(p)'
    <2>1. m.adopting # {} => m.verb # "prune"
      BY <1>2, <1>3 DEF RcRun
    <2> QED
      BY <1>1, <1>3, <1>4, <2>1, RcShrinks, RcGoesOn
  <1>6. records' = records \/ records' = [records EXCEPT ![my[p].branch] = my[p].ws]
    BY DEF Rc!Record
  <1>7. Leads(my[p].ws, my[p].branch) /\ records \in [Topics -> Leaves \cup {NoId, Missing}]
    BY <1>1, <1>2 DEF RcRun, RcInv, Rc!TypeOK
  <1>8. records' \in [Topics -> Leaves \cup {NoId, Missing}]
    BY <1>2, <1>6, <1>7
  <1>9. \A b \in Topics, w \in Leaves : records'[b] = w => records[b] = w \/ Leads(w, b)
    BY <1>2, <1>6, <1>7
  <1>10. git' \subseteq {Hashed[b] : b \in Topics}
    BY <1>1 DEF RcInv, Rc!TypeOK
  <1> QED
    BY <1>1, <1>4, <1>5, <1>8, <1>9, <1>10, RcWrites

LEMMA RcWeighs == ASSUME RcSupposed, RcInv, NEW p \in Racers, Rc!Weigh(p) PROVE RcInv'
  <1>1. /\ UNCHANGED <<source, records, pc, half, crossed>> /\ pc[p] = "weigh"
        /\ Rc!Disturb(p) \/ UNCHANGED <<calm, steady>>
        /\ git' \subseteq git
    BY DEF Rc!Weigh, Rc!world
  <1>2. my[p] \in Rc!Mine /\ RcRun(p) /\ pc \in [Racers -> Rc!Step]
    BY RcCarries DEF RcInv, Rc!TypeOK
  <1>3. PICK m \in Rc!Mine :
            /\ my' = [my EXCEPT ![p] = m]
            /\ m.seen = my[p].seen /\ m.verb = my[p].verb /\ m.adopting = my[p].adopting
    <2>1. PICK dir \in my[p].going, more \in SUBSET Topics :
              \/ my' = [my EXCEPT ![p].going = @ \ {dir}, ![p].gone = @ \cup more]
              \/ my' = [my EXCEPT ![p].going = @ \ {dir}]
      <3>1. PICK dir \in my[p].going :
              \/ my' = [my EXCEPT ![p].going = @ \ {dir},
                    ![p].gone = @ \cup {b \in Topics : Hashed[b] = dir /\ my[p].recs[b] # Missing}]
              \/ my' = [my EXCEPT ![p].going = @ \ {dir}]
        BY DEF Rc!Weigh
      <3>2. {b \in Topics : Hashed[b] = dir /\ my[p].recs[b] # Missing} \in SUBSET Topics
        OBVIOUS
      <3> QED
        BY <3>1, <3>2
    <2> DEFINE less == my[p].going \ {dir}
               m1 == [my[p] EXCEPT !.going = less, !.gone = my[p].gone \cup more]
               m2 == [my[p] EXCEPT !.going = less]
    <2>2. /\ m1 \in Rc!Mine
          /\ m1.seen = my[p].seen /\ m1.verb = my[p].verb /\ m1.adopting = my[p].adopting
      BY <1>2 DEF Rc!Mine
    <2>3. /\ m2 \in Rc!Mine
          /\ m2.seen = my[p].seen /\ m2.verb = my[p].verb /\ m2.adopting = my[p].adopting
      BY <1>2 DEF Rc!Mine
    <2>4. my' = [my EXCEPT ![p] = m1] \/ my' = [my EXCEPT ![p] = m2]
      BY <2>1
    <2> HIDE DEF m1, m2
    <2> QED
      BY <2>2, <2>3, <2>4
  <1>4. my' \in [Racers -> Rc!Mine] /\ my'[p] = m /\ ByItself(p)
    BY <1>1, <1>3, RcTakes DEF ByItself
  <1>5. RcRun(p)'
    <2>1. m.adopting = {}
      BY <1>1, <1>2, <1>3 DEF RcRun
    <2> QED
      BY <1>1, <1>3, <1>4, <2>1, RcShrinks, RcGoesOn
  <1>6. /\ git' \subseteq {Hashed[b] : b \in Topics}
        /\ records' \in [Topics -> Leaves \cup {NoId, Missing}] /\ pc' \in [Racers -> Rc!Step]
    BY <1>1 DEF RcInv, Rc!TypeOK
  <1> QED
    BY <1>1, <1>4, <1>5, <1>6, RcWrites

LEMMA RcForgets ==
    ASSUME RcSupposed, RcInv, NEW p \in Racers, Rc!Forget(p) \/ Rc!Remove(p) PROVE RcInv'
  <1>1. UNCHANGED <<source, half, crossed>> /\ Rc!Disturb(p) /\ Rc!Done(p) /\ git' \subseteq git
    BY DEF Rc!Forget, Rc!Remove
  <1>2. PICK S \in SUBSET Topics :
            records' = [b \in Topics |-> IF b \in S THEN Missing ELSE records[b]]
    <2>1. CASE Rc!Forget(p)
      <3>1. my[p].gone \in SUBSET Topics
        BY RcCarries DEF Rc!Mine
      <3> QED
        BY <2>1, <3>1 DEF Rc!Forget
    <2>2. CASE Rc!Remove(p)
      <3> DEFINE theirs == {b \in Topics : Hashed[b] = my[p].ws /\ records[b] # Missing
                                                                /\ Hashed[b] \in git}
      <3>1. /\ theirs \in SUBSET Topics
            /\ records' = [b \in Topics |-> IF b \in theirs THEN Missing ELSE records[b]]
        BY <2>2 DEF Rc!Remove
      <3> QED
        BY <3>1
    <2> QED
      BY <2>1, <2>2
  <1>3. /\ records' \in [Topics -> Leaves \cup {NoId, Missing}]
        /\ git' \subseteq {Hashed[b] : b \in Topics}
    BY <1>1, <1>2 DEF RcInv, Rc!TypeOK
  <1>4. \A b \in Topics, w \in Leaves : records'[b] = w => records[b] = w
    BY <1>2 DEF RcSupposed, Rc!NamesAssumption
  <1> QED
    BY <1>1, <1>3, <1>4, RcRests, RcWrites

LEMMA RcPrepares == ASSUME RcSupposed, RcInv, NEW p \in Racers, Rc!Prepare(p) PROVE RcInv'
  <1>1. /\ UNCHANGED <<source, my, half, crossed>> /\ Rc!Disturb(p)
        /\ Rc!Goto(p, "up") /\ pc[p] = "prepare"
        /\ git' = git \cup {Hashed[my[p].branch]}
        /\ records' = [records EXCEPT ![my[p].branch] = Hashed[my[p].branch]]
    BY DEF Rc!Prepare
  <1>2. my[p].branch \in Topics /\ RcRun(p) /\ AtHome(source) /\ my \in [Racers -> Rc!Mine]
    BY RcCarries DEF RcInv, Rc!TypeOK
  <1>3. pc' \in [Racers -> Rc!Step] /\ pc'[p] = "up" /\ ByItself(p)
    BY <1>1, RcGoto DEF ByItself, Rc!Step
  <1>4. RcRun(p)'
    <2>1. my[p].adopting = {}
      BY <1>1, <1>2 DEF RcRun
    <2> QED
      BY <1>1, <1>3, <2>1, RcShrinks, RcGoesOn
  <1>5. /\ records' \in [Topics -> Leaves \cup {NoId, Missing}]
        /\ git' \subseteq {Hashed[b] : b \in Topics}
    BY <1>1, <1>2, HashesApart DEF RcInv, Rc!TypeOK
  <1>6. Leads(Hashed[my[p].branch], my[p].branch)
    BY <1>2, HashesApart DEF Leads, AtHome, Rc!Listed
  <1>7. \A b \in Topics, w \in Leaves : records'[b] = w => records[b] = w \/ Leads(w, b)
    BY <1>1, <1>2, <1>6 DEF RcInv, Rc!TypeOK
  <1> QED
    BY <1>1, <1>2, <1>3, <1>4, <1>5, <1>7, RcWrites

\* A step of p that moves a workspace.
LEMMA RcMoves ==
    ASSUME RcInv, NEW p \in Racers, ByItself(p), RcRun(p)',
           pc' \in [Racers -> Rc!Step], my' \in [Racers -> Rc!Mine],
           UNCHANGED <<git, records, half>>, source' \in [Leaves -> RcSources],
           crossed' \subseteq Leaves, Rc!Disturb(p), AtHome(source'),
           \A w \in Leaves, b \in Topics : Leads(w, b) => Leads(w, b)'
    PROVE  RcInv'
  <1>1. calm' \in [Racers -> BOOLEAN] /\ steady' \in [Racers -> SUBSET Rc!Listed'] /\ RcMinds(p)
    BY RcDisturbs
  <1>2. Rc!TypeOK'
    BY <1>1 DEF RcInv, Rc!TypeOK, RcSources
  <1> QED
    BY <1>1, <1>2, RcKeeps

LEMMA RcUp == ASSUME RcSupposed, RcInv, NEW p \in Racers, Rc!Up(p) PROVE RcInv'
  <1> DEFINE x == my[p].branch
             w0 == Hashed[x]
  <1>1. /\ UNCHANGED <<git, records, half, crossed>> /\ Rc!Disturb(p) /\ Rc!Done(p)
        /\ source' = [source EXCEPT ![w0] = IF @ = Unlisted THEN <<w0>> ELSE @]
    BY DEF Rc!Up
  <1>2. /\ x \in Topics /\ w0 \in Leaves /\ AtHome(source)
        /\ source \in [Leaves -> RcSources] /\ crossed \subseteq Leaves
    BY RcCarries, HashesApart DEF RcInv, Rc!TypeOK, RcSources
  <1>3. /\ source' \in [Leaves -> RcSources]
        /\ source'[w0] = <<w0>>
        /\ \A w \in Leaves : w # w0 => source'[w] = source[w]
    BY <1>1, <1>2, CloneIs DEF AtHome
  <1>4. AtHome(source')
    BY <1>2, <1>3, HashesApart DEF AtHome
  <1>5. ASSUME NEW w \in Leaves, NEW b \in Topics, Leads(w, b) PROVE Leads(w, b)'
    <2>1. CASE w = w0
      <3>1. x = b
        BY <1>2, <1>5, <2>1 DEF Leads
      <3> QED
        BY <1>3, <1>5, <2>1, <3>1 DEF Leads
    <2>2. CASE w # w0
      BY <1>1, <1>3, <1>5, <2>2 DEF Leads, Rc!Listed
    <2> QED
      BY <2>1, <2>2
  <1> HIDE DEF w0, x
  <1> QED
    BY <1>1, <1>2, <1>3, <1>4, <1>5, RcRests, RcMoves

LEMMA RcDelete == ASSUME RcSupposed, RcInv, NEW p \in Racers, Rc!Delete(p) PROVE RcInv'
  <1> DEFINE w0 == my[p].ws
  <1>1. /\ UNCHANGED <<git, records, my, half, crossed>> /\ Rc!Disturb(p)
        /\ Rc!Goto(p, "remove") /\ pc[p] = "delete"
        /\ source' = [source EXCEPT ![w0] = Unlisted]
    BY DEF Rc!Delete
  <1>2. /\ w0 \in Leaves /\ AtHome(source) /\ RcRun(p) /\ my \in [Racers -> Rc!Mine]
        /\ source \in [Leaves -> RcSources] /\ crossed \subseteq Leaves
    BY RcCarries DEF RcInv, Rc!TypeOK, RcSources
  <1>3. /\ source' \in [Leaves -> RcSources] /\ source'[w0] = Unlisted
        /\ \A w \in Leaves : w # w0 => source'[w] = source[w]
    BY <1>1, <1>2 DEF RcSources
  <1>4. AtHome(source')
    BY <1>2, <1>3, HashesApart DEF AtHome
  <1>5. ASSUME NEW w \in Leaves, NEW b \in Topics, Leads(w, b) PROVE Leads(w, b)'
    BY <1>1, <1>3, <1>5 DEF Leads, Rc!Listed
  <1>6. pc' \in [Racers -> Rc!Step] /\ pc'[p] = "remove" /\ ByItself(p)
    BY <1>1, RcGoto DEF ByItself, Rc!Step
  <1>7. RcRun(p)'
    <2>1. my[p].adopting = {} /\ AtHome(my[p].seen)
      BY <1>1, <1>2 DEF RcRun
    <2> QED
      BY <1>1, <1>6, <2>1 DEF RcRun, AtHome, Placed, OneToOne, Vacant
  <1> HIDE DEF w0
  <1> QED
    BY <1>1, <1>2, <1>3, <1>4, <1>5, <1>6, <1>7, RcMoves

\* Devpod refuses to re-point a workspace.
LEMMA RcRefused ==
    ASSUME RcSupposed, RcInv, NEW p \in Racers, NEW pair \in my[p].adopting,
           pc[p] = "repoint",
           my' = [my EXCEPT ![p].adopting = @ \ {pair}, ![p].landed = FALSE],
           UNCHANGED <<source, pc, calm, steady, crossed, git, records, half>>
    PROVE  RcInv'
  <1> DEFINE m == [my[p] EXCEPT !.adopting = @ \ {pair}, !.landed = FALSE]
  <1>1. my[p] \in Rc!Mine /\ RcRun(p)
    BY RcCarries DEF RcInv
  <1>2. /\ m \in Rc!Mine /\ m.seen = my[p].seen /\ m.verb = my[p].verb
        /\ m.adopting \subseteq my[p].adopting
    BY <1>1 DEF Rc!Mine
  <1>3. my' = [my EXCEPT ![p] = m]
    OBVIOUS
  <1> HIDE DEF m
  <1>4. my' \in [Racers -> Rc!Mine] /\ my'[p] = m /\ ByItself(p)
    BY <1>2, <1>3, RcTakes DEF ByItself
  <1>5. m.adopting # {} => m.verb # "prune"
    BY <1>1, <1>2 DEF RcRun
  <1>6. RcRun(p)'
    BY <1>2, <1>4, <1>5, RcGoesOn
  <1>7. /\ pc' \in [Racers -> Rc!Step] /\ half' \subseteq Leaves \X Topics
        /\ steady' \in [Racers -> SUBSET Rc!Listed]
    BY DEF RcInv, Rc!TypeOK
  <1> QED
    BY <1>4, <1>6, <1>7, RcQuiet

\* Devpod re-points one, to the clone of its branch.
LEMMA RcRepointed ==
    ASSUME RcSupposed, RcInv, NEW p \in Racers, NEW w0 \in Rc!Listed, NEW b0 \in Topics,
           <<w0, b0>> \in my[p].adopting, pc[p] = "repoint",
           source' = [source EXCEPT ![w0] = <<Hashed[b0]>>],
           my' = [my EXCEPT ![p].adopting = @ \ {<<w0, b0>>}, ![p].ws = w0, ![p].branch = b0],
           Rc!Goto(p, "record"), Rc!Disturb(p),
           crossed' = IF source[w0] \in {my[p].seen[w0], <<Hashed[b0]>>}
                      THEN crossed ELSE crossed \cup {w0},
           UNCHANGED <<git, records, half>>
    PROVE  RcInv'
  <1> DEFINE m == [my[p] EXCEPT !.adopting = @ \ {<<w0, b0>>}, !.ws = w0, !.branch = b0]
  <1>1. /\ my[p] \in Rc!Mine /\ RcRun(p) /\ w0 \in Leaves /\ AtHome(source)
        /\ source \in [Leaves -> RcSources] /\ crossed \subseteq Leaves
    BY RcCarries DEF RcInv, Rc!TypeOK, RcSources, Rc!Listed
  <1>2. /\ m \in Rc!Mine /\ m.seen = my[p].seen /\ m.verb = my[p].verb
        /\ m.adopting = my[p].adopting \ {<<w0, b0>>} /\ m.ws = w0 /\ m.branch = b0
    BY <1>1 DEF Rc!Mine
  <1>3. my' = [my EXCEPT ![p] = m]
    OBVIOUS
  <1> HIDE DEF m
  <1>4. /\ my' \in [Racers -> Rc!Mine] /\ my'[p] = m
        /\ pc' \in [Racers -> Rc!Step] /\ pc'[p] = "record" /\ ByItself(p)
    <2>1. /\ my' \in [Racers -> Rc!Mine] /\ my'[p] = m
          /\ \A q \in Racers : q # p => my'[q] = my[q]
      BY <1>2, <1>3, RcTakes
    <2>2. /\ pc' \in [Racers -> Rc!Step] /\ pc'[p] = "record"
          /\ \A q \in Racers : q # p => pc'[q] = pc[q]
      BY RcGoto DEF Rc!Step
    <2> QED
      BY <2>1, <2>2 DEF ByItself
  <1>5. /\ source' \in [Leaves -> RcSources] /\ source'[w0] = <<Hashed[b0]>>
        /\ \A w \in Leaves : w # w0 => source'[w] = source[w]
    BY <1>1, CloneIs
  <1>6. Rc!InTree(my[p].seen[w0]) /\ my[p].seen[w0][Len(my[p].seen[w0])] \in Spellings[b0]
    BY <1>1 DEF RcRun, Placed
  \* No other branch is called so.
  <1>7. ASSUME NEW b \in Topics, my[p].seen[w0] = <<Hashed[b]>> PROVE b = b0
    BY <1>6, <1>7, CloneIs, HashesApart
  <1>8. ASSUME NEW c \in Topics, w0 = Hashed[c] PROVE c = b0
    <2>1. my[p].seen[w0] = <<Hashed[c]>>
      BY <1>1, <1>6, <1>8 DEF RcRun, AtHome, Rc!InTree
    <2> QED
      BY <1>7, <2>1
  <1>9. AtHome(source')
    BY <1>1, <1>5, <1>8, HashesApart DEF AtHome
  <1>10. Leads(w0, b0)'
    BY <1>5, <1>8 DEF Leads
  <1>11. ASSUME NEW w \in Leaves, NEW b \in Topics, Leads(w, b) PROVE Leads(w, b)'
    <2>1. CASE w # w0
      BY <1>5, <1>11, <2>1 DEF Leads, Rc!Listed
    <2>2. CASE w = w0
      <3> SUFFICES ASSUME w0 \notin crossed' PROVE Leads(w, b)'
        BY <1>11, <2>2 DEF Leads
      <3>1. w0 \notin crossed /\ source[w0] \in {my[p].seen[w0], <<Hashed[b0]>>}
        OBVIOUS
      <3>2. source[w0] = <<Hashed[b]>>
        BY <1>11, <2>2, <3>1 DEF Leads
      <3>3. CASE source[w0] = my[p].seen[w0]
        BY <1>7, <1>10, <2>2, <3>2, <3>3
      <3>4. CASE source[w0] = <<Hashed[b0]>>
        <4>1. Hashed[b] = Hashed[b0]
          BY <3>2, <3>4
        <4> QED
          BY <1>10, <2>2, <4>1, HashesApart
      <3> QED
        BY <3>1, <3>3, <3>4
    <2> QED
      BY <2>1, <2>2
  <1>12. RcRun(p)'
    <2>1. m.adopting # {} => m.verb # "prune"
      BY <1>1, <1>2 DEF RcRun
    <2>2. AtHome(my'[p].seen) /\ Placed(p)' /\ OneToOne(p)'
      BY <1>1, <1>2, <1>4 DEF RcRun, AtHome, Placed, OneToOne, Rc!InTree
    <2>3. Leads(my[p].ws, my[p].branch)'
      BY <1>2, <1>4, <1>10 DEF Leads
    <2>4. ASSUME calm'[p], NEW pair \in m.adopting, NEW w \in Leaves \ {pair[1]},
                 Rc!InTree(source'[w])
          PROVE  source'[w][1] # Hashed[pair[2]]
      <3>1. calm[p] /\ Vacant(p) /\ OneToOne(p)
        BY <1>1, <1>5, <2>4, RcDisturbs DEF RcRun
      <3>2. pair \in my[p].adopting /\ pair # <<w0, b0>>
        BY <1>2, <2>4
      <3>3. CASE w # w0
        BY <1>5, <2>4, <3>1, <3>2, <3>3 DEF Vacant, Rc!InTree
      <3>4. CASE w = w0
        <4>1. pair[2] # b0 /\ pair[2] \in Topics
          BY <1>1, <3>1, <3>2 DEF OneToOne, Rc!Mine
        <4>2. source'[w][1] = Hashed[b0]
          BY <1>5, <3>4, CloneIs
        <4> QED
          BY <4>1, <4>2, HashesApart
      <3> QED
        BY <3>3, <3>4
    <2>5. calm'[p] => Vacant(p)'
      BY <1>4, <2>4 DEF Vacant, Rc!InTree
    <2> QED
      BY <1>4, <2>1, <2>2, <2>3, <2>5 DEF RcRun, AtHome
  <1>13. crossed' \subseteq Leaves
    BY <1>1
  <1> QED
    BY <1>4, <1>5, <1>9, <1>11, <1>12, <1>13, RcMoves

LEMMA RcRepoint == ASSUME RcSupposed, RcInv, NEW p \in Racers, Rc!Repoint(p) PROVE RcInv'
  <1>1. PICK pair \in my[p].adopting :
          \/ /\ pair[1] \in Rc!Listed
             /\ source' = [source EXCEPT ![pair[1]] = <<Hashed[pair[2]]>>]
             /\ my' = [my EXCEPT ![p].adopting = @ \ {pair}, ![p].ws = pair[1],
                                 ![p].branch = pair[2]]
             /\ Rc!Goto(p, "record")
             /\ Rc!Disturb(p)
             /\ crossed' = IF source[pair[1]] \in {my[p].seen[pair[1]], <<Hashed[pair[2]]>>}
                           THEN crossed ELSE crossed \cup {pair[1]}
          \/ /\ my' = [my EXCEPT ![p].adopting = @ \ {pair}, ![p].landed = FALSE]
             /\ UNCHANGED <<source, pc, calm, steady, crossed>>
    BY DEF Rc!Repoint
  <1>2. pc[p] = "repoint" /\ UNCHANGED <<git, records, half>>
    BY DEF Rc!Repoint
  <1>3. pair[2] \in Topics /\ pair = <<pair[1], pair[2]>>
    BY RcCarries
  <1> QED
    BY <1>1, <1>2, <1>3, RcRefused, RcRepointed

LEMMA RcStep == ASSUME RcSupposed PROVE RcInv /\ [Rc!Next]_Rc!vars => RcInv'
  <1> SUFFICES ASSUME RcInv, [Rc!Next]_Rc!vars PROVE RcInv'
    OBVIOUS
  <1>1. CASE UNCHANGED Rc!vars
    BY <1>1 DEF Rc!vars, Rc!world, Rc!history, Rc!counts, RcInv, Rc!TypeOK, Rc!Listed, RcRun,
       AtHome, Leads, Placed, OneToOne, Vacant, Rc!InTree
  <1>2. ASSUME NEW p \in Racers, Rc!Begin(p) \/ Rc!Goes(p) \/ Rc!Crash(p) PROVE RcInv'
    BY <1>2, RcBegin, RcSees, RcPlans, RcPasses, RcRecords, RcWeighs, RcForgets, RcPrepares,
       RcUp, RcDelete, RcRepoint, Zenon DEF Rc!Goes
  <1> QED
    BY <1>1, <1>2 DEF Rc!Next

\* Every step is one command's own.
LEMMA RcAlone ==
    ASSUME RcSupposed, RcInv, NEW p \in Racers, Rc!Begin(p) \/ Rc!Goes(p) \/ Rc!Crash(p)
    PROVE  \A q \in Racers : q # p => my'[q] = my[q] /\ pc'[q] = pc[q]
  <1>1. pc \in [Racers -> Rc!Step] /\ my \in [Racers -> Rc!Mine]
    BY DEF RcInv, Rc!TypeOK
  <1>2. CASE Rc!Begin(p) \/ Rc!Crash(p) \/ Rc!List(p) \/ Rc!PlanAdoptions(p)
             \/ Rc!PlanRemovals(p) \/ Rc!Answer(p)
    BY <1>1, <1>2 DEF Rc!Begin, Rc!Crash, Rc!List, Rc!PlanAdoptions, Rc!PlanRemovals, Rc!Answer,
       Rc!Done, Rc!Goto
  <1>3. CASE Rc!Repoint(p) \/ Rc!Record(p) \/ Rc!Finish(p) \/ Rc!Relist(p) \/ Rc!Weigh(p)
    BY <1>1, <1>3 DEF Rc!Repoint, Rc!Record, Rc!Finish, Rc!Relist, Rc!Weigh, Rc!Done, Rc!Goto
  <1>4. CASE Rc!Forget(p) \/ Rc!Ask(p) \/ Rc!Prepare(p) \/ Rc!Up(p) \/ Rc!Delete(p)
             \/ Rc!Remove(p)
    BY <1>1, <1>4 DEF Rc!Forget, Rc!Ask, Rc!Prepare, Rc!Up, Rc!Delete, Rc!Remove,
       Rc!Done, Rc!Goto
  <1> QED
    BY <1>2, <1>3, <1>4, Zenon DEF Rc!Goes

LEMMA RcLeads == ASSUME RcInv PROVE Rc!TypeOK /\ Rc!IdsLeadHome
  BY DEF RcInv, Leads, Rc!IdsLeadHome, Rc!Listed

LEMMA RcGives ==
    ASSUME RcSupposed, RcInv, [Rc!Next]_Rc!vars PROVE Rc!AdoptsTheFree
  <1> SUFFICES ASSUME NEW p \in Racers, Rc!Repoints(p), calm[p],
                      NEW w \in Rc!Listed \ {my'[p].ws}, Rc!InTree(source[w])
               PROVE  source[w][1] # Hashed[my'[p].branch]
    BY DEF Rc!AdoptsTheFree
  <1>1. pc[p] = "repoint" /\ pc'[p] = "record"
    BY DEF Rc!Repoints
  <1>2. PICK q \in Racers : Rc!Begin(q) \/ Rc!Goes(q) \/ Rc!Crash(q)
    BY <1>1 DEF Rc!Next, Rc!vars
  <1>3. q = p
    BY <1>1, <1>2, RcAlone
  <1>4. my[p] \in Rc!Mine /\ my \in [Racers -> Rc!Mine] /\ RcRun(p)
    BY RcCarries DEF RcInv, Rc!TypeOK
  <1>5. Rc!Repoint(p)
    <2>1. ~(pc[p] \in {"idle", "list", "plan", "answer", "record", "relist", "weigh", "ask",
                       "prepare", "up", "delete", "remove"})
      BY <1>1
    <2>2. ~Rc!Finish(p) /\ ~Rc!Crash(p)
      BY <1>1 DEF Rc!Finish, Rc!Crash, Rc!Done, Rc!Goto, RcInv, Rc!TypeOK
    <2> QED
      BY <1>2, <1>3, <2>1, <2>2 DEF Rc!Begin, Rc!Goes, Rc!List, Rc!PlanAdoptions,
         Rc!PlanRemovals, Rc!Answer, Rc!Record, Rc!Relist, Rc!Weigh, Rc!Forget, Rc!Ask,
         Rc!Prepare, Rc!Up, Rc!Delete, Rc!Remove
  <1>6. PICK pair \in my[p].adopting :
            my' = [my EXCEPT ![p].adopting = @ \ {pair}, ![p].ws = pair[1], ![p].branch = pair[2]]
    BY <1>1, <1>5 DEF Rc!Repoint
  <1> DEFINE m == [my[p] EXCEPT !.adopting = @ \ {pair}, !.ws = pair[1], !.branch = pair[2]]
  <1>7. my' = [my EXCEPT ![p] = m]
    BY <1>6
  <1>8. m.ws = pair[1] /\ m.branch = pair[2]
    BY <1>4 DEF Rc!Mine
  <1> HIDE DEF m
  <1>9. my'[p].ws = pair[1] /\ my'[p].branch = pair[2]
    BY <1>4, <1>7, <1>8
  <1> QED
    BY <1>4, <1>9 DEF RcRun, Vacant, Rc!Listed

LEMMA RcSpares ==
    ASSUME RcSupposed, RcInv, [Rc!Next]_Rc!vars PROVE Rc!ListedKeepTheirClones
  <1> SUFFICES ASSUME NEW p \in Racers, my'[p].going # my[p].going, pc[p] = "weigh",
                      NEW dir \in git \ git', NEW w \in steady[p], Rc!InTree(source[w])
               PROVE  source[w][1] \in (git \cup my[p].dirs) \ {dir}
    BY DEF Rc!ListedKeepTheirClones
  <1>1. PICK q \in Racers : Rc!Begin(q) \/ Rc!Goes(q) \/ Rc!Crash(q)
    BY DEF Rc!Next, Rc!vars
  <1>2. q = p
    BY <1>1, RcAlone
  <1>3. Rc!Weigh(p)
    <2>1. ~(pc[p] \in {"idle", "list", "plan", "answer", "repoint", "record", "relist", "ask",
                       "prepare", "up", "delete", "remove"})
      OBVIOUS
    <2>2. ~Rc!Forget(p) /\ ~Rc!Crash(p)
      BY DEF Rc!Forget, Rc!Crash, Rc!world
    <2> QED
      BY <1>1, <1>2, <2>1, <2>2 DEF Rc!Begin, Rc!Goes, Rc!List, Rc!PlanAdoptions,
         Rc!PlanRemovals, Rc!Answer, Rc!Repoint, Rc!Record, Rc!Finish, Rc!Relist, Rc!Ask,
         Rc!Prepare, Rc!Up, Rc!Delete, Rc!Remove
  <1>4. PICK d \in my[p].going :
            /\ Rc!Collectable(my[p].seen, my[p].dirs, my[p].recs, d) /\ git' = git \ {d}
    BY <1>3 DEF Rc!Weigh, Rc!world
  <1>5. d = dir /\ w \in Leaves
    BY <1>4 DEF RcInv, Rc!TypeOK, Rc!Listed
  <1>6. my[p].seen[w] = source[w]
    BY DEF RcInv, RcRun
  <1>7. ~Rc!Holder(my[p].seen, my[p].dirs, dir) /\ ~Rc!Misplaced(my[p].seen, my[p].dirs)
    BY <1>4, <1>5 DEF Rc!Collectable
  <1>8. source[w][1] \in my[p].dirs
    BY <1>5, <1>6, <1>7 DEF Rc!Misplaced, Rc!Astray
  <1>9. source[w][1] # dir
    BY <1>5, <1>6, <1>7, <1>8 DEF Rc!Holder, Rc!InAClone
  <1> QED
    BY <1>8, <1>9

\* Where two reconciles do not cross, an id dl has written down leads to its branch's own
\* clone, through crashes and refusals between devpod's record and dl's (apply_reconciliation);
\* with nobody else at work an adoption gives a workspace a clone that no other is in
\* (reconcile_plan); and a prune takes no clone from a workspace that was listed, and where
\* it was, ever since its second listing (prune_clones).  For every tree of a repository,
\* and for every choice of the commands.
THEOREM AdoptionsLeadHome ==
    Spec => [][part = "clones" => /\ Rc!TypeOK /\ Rc!IdsLeadHome
                                 /\ Rc!AdoptsTheFree /\ Rc!ListedKeepTheirClones]_vars
  <1> DEFINE OwnInv == part = "clones" => RcInv
  <1>1. Init => OwnInv
    BY StartsAsOne, RcGiven, RcInit
  <1>2. OwnInv /\ [Next]_vars => OwnInv'
    BY StepsAsOne, RcGiven, RcStep
  <1>3. OwnInv /\ [Next]_vars =>
            (part = "clones" => /\ Rc!TypeOK /\ Rc!IdsLeadHome
                               /\ Rc!AdoptsTheFree /\ Rc!ListedKeepTheirClones)
    BY StepsAsOne, RcGiven, RcLeads, RcGives, RcSpares
  <1> QED
    BY <1>1, <1>2, <1>3, PTL DEF Spec

(***************************************************************************)
(* The ids that names lead to, for any triples and any ids they derive and *)
(* derived.  A record that still says what an older devlaunch gave its     *)
(* triple is the only one of the id that triple derives, unless that id's  *)
(* workspace was never the triple's; and every workspace that is not       *)
(* excused has a record with a clone behind it that no prune is about to   *)
(* forget.                                                                 *)
(***************************************************************************)
NaSupposed == Na!NamesAssumption /\ Na!BoundAssumption

LEMMA NaGiven == NaSupposed
  BY NaNamesAssumption, NaBoundAssumption DEF NaSupposed

NaSteps == {"idle", "ask", "follow", "prepare", "register", "attach", "up",
            "look", "delete", "clean", "unrecord", "forget"}
NaMine == [verb : Na!Removals \cup {"launch", "prune", Missing},
           asked : Triples \cup {Missing}, id : Ids \cup {Missing},
           victim : Triples \cup {Missing}, rough : BOOLEAN, stale : SUBSET Triples]

\* The record of v says what an older devlaunch gave it.
Formerly(v) == records[v] # Missing /\ records[v].devpod # IdOf[v]

NaRecord(t) ==
    records[t] # Missing =>
        /\ records[t].leaf \in {records[t].devpod, IdOf[t]}
        /\ records[t].devpod # IdOf[t] => t \in Older /\ records[t].devpod = FormerIdOf[t]

\* Each workspace stands while it has tenants, each under an id of its own.
NaTenancy ==
    /\ \A i \in Ids : tenants[i] # {} <=> i \in standing
    /\ lapsed \subseteq standing
    /\ \A i \in Ids : \A t \in tenants[i] : i = IdOf[t] \/ (t \in Older /\ i = FormerIdOf[t])

\* v has been in its former workspace, if that stands; and where it has been in the one it
\* derives too, no other record has that id, and one of the two is excused.
NaFormer(v) ==
    Formerly(v) =>
        /\ FormerIdOf[v] \in standing => v \in tenants[FormerIdOf[v]]
        /\ v \in tenants[IdOf[v]] =>
              /\ \A w \in Triples \ {v} : ~Na!Holds(w, IdOf[v])
              /\ FormerIdOf[v] \in standing => FormerIdOf[v] \in lapsed
              /\ Na!Leaf(v) = IdOf[v] \/ IdOf[v] \in lapsed

\* A prune is about to forget w, which nobody has launched beside it.
NaDoomed(w) == \E q \in Racers : pc[q] = "forget" /\ w \in my[q].stale \ met[q]

NaVouches(w, i) ==
    /\ w \in tenants[i] /\ Na!Names(w, i)
    /\ clone[Na!DirOf(w, Na!Leaf(w))] # Missing /\ ~NaDoomed(w)
NaVouched == \A i \in standing \ lapsed : \E w \in Triples : NaVouches(w, i)

\* Whoever runs beside a command has left its mark there.
NaBeside ==
    \A p, q \in Racers :
        p # q /\ pc[p] # "idle" /\ pc[q] # "idle" => Na!Mark(my[q]) \in met[p]

\* Where each command is, and what it is about.
NaRun(p) ==
    /\ pc[p] = "idle" => my[p] = Na!Idle
    /\ pc[p] \in {"ask", "follow"} =>
          my[p].asked \in Triples /\ my[p].verb \in {"launch"} \cup Na!Removals
    /\ pc[p] \in {"prepare", "register", "up"} =>
          Na!Launching(p) /\ my[p].asked \in Triples /\ my[p].id = IdOf[my[p].asked]
    /\ pc[p] = "attach" =>
          /\ Na!Launching(p) /\ my[p].asked \in Triples
          /\ \/ my[p].id = IdOf[my[p].asked]
             \/ my[p].asked \in Older /\ my[p].id = FormerIdOf[my[p].asked]
    /\ pc[p] \in {"look", "delete", "clean", "unrecord"} =>
          my[p].verb \in Na!Removals /\ my[p].id \in Ids
    /\ pc[p] \in {"clean", "unrecord"} => my[p].victim \in Triples
    /\ pc[p] = "forget" =>
          my[p].verb = "prune" /\ my[p].asked = Missing /\ my[p].victim = Missing /\ ~my[p].rough

\* The workspace i, unless it is excused, is one the triple of p has been in, or one that
\* only triples launched beside it have.
NaShared(p, i) ==
    i \in standing \ lapsed => my[p].asked \in tenants[i] \/ tenants[i] \subseteq met[p]

\* What the guard has left to a launch: no record that says what an older devlaunch gave
\* has its id, nor does any other where its own record is of that kind.
NaLaunch(p) ==
    pc[p] # "idle" /\ Na!Launching(p) =>
        /\ \A v \in Triples \ {my[p].asked} :
              Formerly(v) => IdOf[my[p].asked] \notin {IdOf[v], FormerIdOf[v]}
        /\ Formerly(my[p].asked) =>
              \A w \in Triples \ {my[p].asked} : ~Na!Holds(w, IdOf[my[p].asked])
        /\ NaShared(p, IdOf[my[p].asked])
NaEntering(p) == pc[p] = "attach" => NaShared(p, my[p].id)

\* What its record says that t has among these is excused.
NaLeft(t, these) == \A j \in these : t \in tenants[j] /\ Na!Names(t, j) => j \in lapsed

\* What a launch that creates a workspace knows: unless something came between, no other
\* of its triple's is left, and its own record is written.
NaSettled(p) ==
    /\ pc[p] \in {"prepare", "register"} /\ ~my[p].rough /\ my[p].asked \notin met[p] =>
          NaLeft(my[p].asked, Ids \ {my[p].id})
    /\ pc[p] = "up" =>
          /\ Formerly(my[p].asked) =>
                /\ my[p].rough
                /\ FormerIdOf[my[p].asked] \in standing => FormerIdOf[my[p].asked] \in lapsed
          /\ ~my[p].rough /\ my[p].asked \notin met[p] =>
                \A j \in Ids \ {my[p].id} : tenants[j] = {my[p].asked} => j \in lapsed
          /\ ~my[p].rough /\ {my[p].asked, Missing} \cap met[p] = {} =>
                Na!Leaf(my[p].asked) = my[p].id

\* What a removal knows: the record it found is still of that clone, and when devpod has
\* deleted, what else the record names is excused.
NaFound(p) ==
    /\ pc[p] \in {"delete", "clean", "unrecord"} /\ my[p].victim # Missing
         /\ my[p].victim \notin met[p] => Na!Leaf(my[p].victim) \in {Missing, my[p].id}
    /\ pc[p] \in {"clean", "unrecord"} /\ ~my[p].rough /\ my[p].victim \notin met[p] =>
          NaLeft(my[p].victim, Ids)

NaAbout(p) == NaRun(p) /\ NaLaunch(p) /\ NaEntering(p) /\ NaSettled(p) /\ NaFound(p)

NaDisk ==
    /\ \A t \in Triples : NaRecord(t) /\ NaFormer(t)
    /\ NaTenancy

NaInv ==
    /\ Na!TypeOK /\ NaDisk /\ NaVouched /\ NaBeside
    /\ \A p \in Racers : NaAbout(p)

LEMMA NaIds ==
    ASSUME NaSupposed, NEW t \in Triples
    PROVE  /\ IdOf[t] \in Ids /\ t # Missing /\ Missing \notin Ids
           /\ t \in Older => FormerIdOf[t] \in Ids
  BY DEF NaSupposed, Na!NamesAssumption

LEMMA NaTypes ==
    Na!TypeOK <=> /\ records \in [Triples -> {Missing} \cup
                                     [leaf : Ids, devpod : Ids \cup {Missing}]]
                  /\ clone \in [Na!Dir -> Triples \cup {Missing}]
                  /\ standing \subseteq Ids
                  /\ tenants \in [Ids -> SUBSET Triples] /\ lapsed \subseteq Ids
                  /\ pc \in [Racers -> NaSteps] /\ my \in [Racers -> NaMine]
                  /\ commands \in 0 .. MaxNamings
                  /\ met \in [Racers -> SUBSET (Triples \cup {Missing})]
  BY DEF Na!TypeOK, NaSteps, NaMine

\* What a command carries, and what it may carry on.
LEMMA NaCarries ==
    ASSUME NaInv, NEW p \in Racers
    PROVE  /\ my[p] \in NaMine /\ pc[p] \in NaSteps
           /\ my[p].asked \in Triples \cup {Missing} /\ my[p].victim \in Triples \cup {Missing}
           /\ my[p].id \in Ids \cup {Missing} /\ my[p].rough \in BOOLEAN
           /\ my[p].stale \subseteq Triples /\ NaAbout(p)
           /\ met[p] \subseteq Triples \cup {Missing}
  BY NaTypes DEF NaInv, NaMine

LEMMA NaIdle == Na!Idle \in NaMine
  BY DEF Na!Idle, NaMine

LEMMA NaRests ==
    ASSUME NEW p \in Racers, pc[p] = "idle", my[p] = Na!Idle
    PROVE  NaAbout(p)
  BY DEF NaAbout, NaRun, NaLaunch, NaEntering, NaSettled, NaFound

\* The others wait.
NaAside(p) ==
    \A q \in Racers \ {p} :
        /\ pc'[q] = pc[q] /\ my'[q] = my[q]
        /\ pc[q] # "idle" => met[q] \subseteq met'[q]

\* p is at another place, with what it carries there.
NaWent(p, step, m) ==
    /\ pc' \in [Racers -> NaSteps] /\ my' \in [Racers -> NaMine]
    /\ met' \in [Racers -> SUBSET (Triples \cup {Missing})]
    /\ UNCHANGED <<met, commands>> /\ pc'[p] = step /\ my'[p] = m
    /\ NaAside(p) /\ NaBeside'

LEMMA NaGoes ==
    ASSUME NaInv, NEW p \in Racers, pc[p] # "idle",
           NEW step \in NaSteps \ {"idle"}, NEW m \in NaMine, Na!Goes(p, step, m),
           m.verb = my[p].verb, m.asked = my[p].asked
    PROVE  NaWent(p, step, m)
  <1>1. /\ pc' = [pc EXCEPT ![p] = step] /\ my' = [my EXCEPT ![p] = m]
        /\ UNCHANGED <<met, commands>>
    BY DEF Na!Goes
  <1>2. /\ pc \in [Racers -> NaSteps] /\ my \in [Racers -> NaMine]
        /\ met \in [Racers -> SUBSET (Triples \cup {Missing})]
    BY NaTypes DEF NaInv
  <1>3. /\ pc' \in [Racers -> NaSteps] /\ my' \in [Racers -> NaMine]
        /\ pc'[p] = step /\ my'[p] = m
        /\ \A q \in Racers : q # p => pc'[q] = pc[q] /\ my'[q] = my[q]
    BY <1>1, <1>2
  <1>4. Na!Mark(m) = Na!Mark(my[p])
    BY DEF Na!Mark
  <1>5. \A q \in Racers : Na!Mark(my'[q]) = Na!Mark(my[q]) /\ (pc'[q] # "idle" => pc[q] # "idle")
    BY <1>3, <1>4
  <1>6. NaBeside'
    BY <1>1, <1>5 DEF NaInv, NaBeside
  <1> QED
    BY <1>1, <1>2, <1>3, <1>6 DEF NaAside, NaWent

LEMMA NaEnds ==
    ASSUME NaInv, NEW p \in Racers, Na!Ends(p)
    PROVE  /\ pc' \in [Racers -> NaSteps] /\ my' \in [Racers -> NaMine]
           /\ met' \in [Racers -> SUBSET (Triples \cup {Missing})]
           /\ UNCHANGED commands /\ pc'[p] = "idle" /\ my'[p] = Na!Idle
           /\ NaAside(p) /\ NaBeside' /\ NaAbout(p)'
  <1>1. /\ pc' = [pc EXCEPT ![p] = "idle"] /\ my' = [my EXCEPT ![p] = Na!Idle]
        /\ met' = [met EXCEPT ![p] = {}] /\ UNCHANGED commands
    BY DEF Na!Ends
  <1>2. /\ pc \in [Racers -> NaSteps] /\ my \in [Racers -> NaMine]
        /\ met \in [Racers -> SUBSET (Triples \cup {Missing})]
    BY NaTypes DEF NaInv
  <1>3. /\ pc' \in [Racers -> NaSteps] /\ my' \in [Racers -> NaMine]
        /\ met' \in [Racers -> SUBSET (Triples \cup {Missing})]
        /\ pc'[p] = "idle" /\ my'[p] = Na!Idle
        /\ \A q \in Racers : q # p => pc'[q] = pc[q] /\ my'[q] = my[q] /\ met'[q] = met[q]
    BY <1>1, <1>2, NaIdle DEF NaSteps
  <1>4. NaBeside'
    BY <1>3 DEF NaInv, NaBeside
  <1>5. NaAbout(p)'
    BY <1>3 DEF NaAbout, NaRun, NaLaunch, NaEntering, NaSettled, NaFound
  <1> QED
    BY <1>1, <1>3, <1>4, <1>5 DEF NaAside

(***************************************************************************)
(* What stays true of a command while others step.                         *)
(***************************************************************************)
NaSamePlace(q) == pc'[q] = pc[q] /\ my'[q] = my[q] /\ met[q] \subseteq met'[q]

\* Records go, or are written by a launch of theirs with the id its guard has cleared.
NaFewerRecords ==
    \A v \in Triples :
        /\ Formerly(v)' => Formerly(v)
        /\ Formerly(v)' => \A w \in Triples \ {v} : Na!Holds(w, IdOf[v])' => Na!Holds(w, IdOf[v])

\* What is no more excused than before has none that were not there or beside q.
NaNoStrangers(q) ==
    \A i \in standing' \ lapsed' :
        \/ tenants'[i] \subseteq met'[q]
        \/ /\ i \in standing \ lapsed
           /\ tenants[i] \subseteq tenants'[i] /\ tenants'[i] \subseteq tenants[i] \cup met'[q]

\* Nothing is done for a triple that is not launched beside q, but that its record may
\* go, and its workspaces.
NaUntouched(q) ==
    /\ \A t \in Triples \ met'[q] :
          /\ records'[t] \in {records[t], Missing}
          /\ Missing \notin met'[q] => records'[t] = records[t]
          /\ \A i \in Ids : t \in tenants'[i] =>
                t \in tenants[i] /\ (tenants'[i] = {t} => tenants[i] = {t})
    /\ \A i \in standing' : i \in lapsed => i \in lapsed'
    /\ pc[q] = "up" => \A t \in Triples : my[q].asked = t /\ Formerly(t)' =>
          (FormerIdOf[t] \in standing' => FormerIdOf[t] \in standing)

LEMMA NaRunKept == ASSUME NEW q \in Racers, NaRun(q), NaSamePlace(q) PROVE NaRun(q)'
  BY DEF NaRun, NaSamePlace, Na!Launching

LEMMA NaSharedKept ==
    ASSUME NEW q \in Racers, NEW i \in Ids, my'[q].asked = my[q].asked, met[q] \subseteq met'[q],
           NaShared(q, i), NaNoStrangers(q)
    PROVE  NaShared(q, i)'
  BY DEF NaShared, NaNoStrangers

LEMMA NaLaunchKept ==
    ASSUME NaSupposed, NEW q \in Racers, NaLaunch(q), pc[q] # "idle", met[q] \subseteq met'[q],
           my'[q].verb = my[q].verb, my'[q].asked = my[q].asked,
           Na!Launching(q) => my[q].asked \in Triples, NaFewerRecords, NaNoStrangers(q)
    PROVE  NaLaunch(q)'
  <1> SUFFICES ASSUME Na!Launching(q) PROVE NaLaunch(q)'
    BY DEF NaLaunch, Na!Launching
  <1>0. PICK t : t = my[q].asked
    OBVIOUS
  <1>1. t \in Triples /\ IdOf[t] \in Ids /\ my'[q].asked = t
    BY <1>0, NaIds
  <1>2. /\ \A v \in Triples \ {t} : Formerly(v) => IdOf[t] \notin {IdOf[v], FormerIdOf[v]}
        /\ Formerly(t) => \A w \in Triples \ {t} : ~Na!Holds(w, IdOf[t])
        /\ NaShared(q, IdOf[t])
    BY <1>0 DEF NaLaunch
  <1>3. NaShared(q, IdOf[t])'
    BY <1>1, <1>2, NaSharedKept
  <1>4. Formerly(t)' => \A w \in Triples \ {t} : ~Na!Holds(w, IdOf[t])'
    BY <1>1, <1>2 DEF NaFewerRecords
  <1>5. \A v \in Triples \ {t} : Formerly(v)' => IdOf[t] \notin {IdOf[v], FormerIdOf[v]}
    BY <1>2 DEF NaFewerRecords
  <1> QED
    BY <1>1, <1>3, <1>4, <1>5 DEF NaLaunch, NaShared, Na!Holds, Formerly

LEMMA NaLeftKept ==
    ASSUME NEW q \in Racers, NEW t \in Triples \ met'[q], NEW these \in SUBSET Ids,
           NaLeft(t, these), NaUntouched(q), \A i \in Ids : tenants'[i] # {} <=> i \in standing'
    PROVE  NaLeft(t, these)'
  <1> SUFFICES ASSUME NEW j \in these, t \in tenants'[j], Na!Names(t, j)' PROVE j \in lapsed'
    BY DEF NaLeft
  <1>1. t \in tenants[j] /\ Na!Names(t, j)
    BY DEF NaUntouched, Na!Names
  <1> QED
    BY <1>1 DEF NaLeft, NaUntouched

LEMMA NaSettledKept ==
    ASSUME NaSupposed, NEW q \in Racers, NaSettled(q), NaSamePlace(q), NaRun(q), NaUntouched(q),
           NaFewerRecords, \A i \in Ids : tenants'[i] # {} <=> i \in standing'
    PROVE  NaSettled(q)'
  <1>0. PICK t, k : t = my[q].asked /\ k = my[q].id
    OBVIOUS
  <1>1. t = my'[q].asked /\ k = my'[q].id /\ my'[q] = my[q] /\ pc'[q] = pc[q]
    BY <1>0 DEF NaSamePlace
  <1>2. ASSUME pc[q] \in {"prepare", "register"}, ~my[q].rough, t \notin met'[q]
        PROVE  NaLeft(t, Ids \ {k})'
    <2>1. t \in Triples /\ NaLeft(t, Ids \ {k})
      BY <1>0, <1>2 DEF NaSettled, NaSamePlace, NaRun
    <2> QED
      BY <1>2, <2>1, NaLeftKept
  <1>3. CASE pc[q] = "up"
    <2>1. t \in Triples
      BY <1>0, <1>3 DEF NaRun
    <2>2. Formerly(t)' =>
             /\ my[q].rough
             /\ FormerIdOf[t] \in standing' => FormerIdOf[t] \in lapsed'
      BY <1>0, <1>3, <2>1 DEF NaSettled, NaFewerRecords, NaUntouched
    <2>3. ~my[q].rough /\ t \notin met'[q] =>
             \A j \in Ids \ {k} : tenants'[j] = {t} => j \in lapsed'
      BY <1>0, <1>3, <2>1 DEF NaSettled, NaUntouched, NaSamePlace
    <2>4. ~my[q].rough /\ {t, Missing} \cap met'[q] = {} => Na!Leaf(t)' = k
      BY <1>0, <1>3, <2>1 DEF NaSettled, NaUntouched, NaSamePlace, Na!Leaf
    <2> QED
      BY <1>1, <1>3, <2>2, <2>3, <2>4 DEF NaSettled, Formerly, Na!Leaf
  <1>4. CASE pc[q] # "up"
    BY <1>1, <1>2, <1>4 DEF NaSettled, NaLeft, Na!Names
  <1> QED
    BY <1>3, <1>4

LEMMA NaFoundKept ==
    ASSUME NaSupposed, NEW q \in Racers, my[q] \in NaMine, NaFound(q), NaSamePlace(q), NaRun(q),
           NaUntouched(q), \A i \in Ids : tenants'[i] # {} <=> i \in standing'
    PROVE  NaFound(q)'
  <1>0. PICK v : v = my[q].victim
    OBVIOUS
  <1>1. v \in Triples \cup {Missing} /\ v = my'[q].victim /\ pc'[q] = pc[q] /\ my'[q] = my[q]
    BY <1>0 DEF NaMine, NaSamePlace
  <1>2. pc[q] \in {"delete", "clean", "unrecord"} /\ v # Missing /\ v \notin met'[q]
          => Na!Leaf(v)' \in {Missing, my[q].id}
    BY <1>0, <1>1 DEF NaFound, NaUntouched, NaSamePlace, Na!Leaf
  <1>3. ASSUME pc[q] \in {"clean", "unrecord"}, ~my[q].rough, v \notin met'[q]
        PROVE  NaLeft(v, Ids)'
    <2>1. v \in Triples /\ NaLeft(v, Ids)
      BY <1>0, <1>3 DEF NaFound, NaSamePlace, NaRun
    <2> QED
      BY <1>3, <2>1, NaLeftKept
  <1> QED
    BY <1>1, <1>2, <1>3 DEF NaFound, NaLeft, Na!Leaf, Na!Names

LEMMA NaKept ==
    ASSUME NaSupposed, NaInv, NEW p \in Racers, NEW q \in Racers \ {p}, NaAside(p), NaFewerRecords,
           pc[q] # "idle" => NaNoStrangers(q) /\ NaUntouched(q),
           \A i \in Ids : tenants'[i] # {} <=> i \in standing'
    PROVE  NaAbout(q)'
  <1>0. CASE pc[q] = "idle"
    BY <1>0, NaCarries DEF NaAside, NaAbout, NaRun, NaLaunch, NaEntering, NaSettled, NaFound
  <1> SUFFICES ASSUME pc[q] # "idle" PROVE NaAbout(q)'
    BY <1>0
  <1>1. my[q] \in NaMine /\ NaAbout(q) /\ NaRun(q) /\ NaSamePlace(q) /\ pc[q] \in NaSteps
    BY NaCarries DEF NaAbout, NaAside, NaSamePlace
  <1>2. NaRun(q)' /\ NaSettled(q)' /\ NaFound(q)'
    BY <1>1, NaRunKept, NaSettledKept, NaFoundKept DEF NaAbout
  <1>3. NaLaunch(q)'
    <2>1. Na!Launching(q) => my[q].asked \in Triples
      BY <1>1 DEF NaRun, NaSteps, Na!Launching, Na!Removals
    <2> QED
      BY <1>1, <2>1, NaLaunchKept DEF NaSamePlace, NaAbout
  <1>4. NaEntering(q)'
    <2> SUFFICES ASSUME pc[q] = "attach" PROVE NaShared(q, my[q].id)'
      BY <1>1 DEF NaEntering, NaSamePlace, NaShared
    <2>1. my[q].id \in Ids /\ NaShared(q, my[q].id)
      BY <1>1, NaIds DEF NaRun, NaAbout, NaEntering
    <2> QED
      BY <1>1, <2>1, NaSharedKept DEF NaSamePlace
  <1> QED
    BY <1>2, <1>3, <1>4 DEF NaAbout

(***************************************************************************)
(* The steps that leave the disk as it is.                                 *)
(***************************************************************************)
LEMMA NaDiskKept ==
    ASSUME NaDisk, UNCHANGED Na!disk
    PROVE  /\ NaDisk' /\ NaFewerRecords
           /\ \A q \in Racers : met[q] \subseteq met'[q] => NaNoStrangers(q) /\ NaUntouched(q)
           /\ \A i \in Ids : tenants'[i] # {} <=> i \in standing'
  <1>1. NaDisk'
    BY DEF NaDisk, NaRecord, NaFormer, NaTenancy, Na!disk, Formerly, Na!Holds, Na!Leaf
  <1> QED
    BY <1>1 DEF NaDisk, NaTenancy, Na!disk, NaFewerRecords, NaNoStrangers, NaUntouched, Formerly,
       Na!Holds

LEMMA NaVouchedKept ==
    ASSUME NaVouched, UNCHANGED Na!disk, \A w \in Triples : NaDoomed(w)' => NaDoomed(w)
    PROVE  NaVouched'
  BY DEF NaVouched, NaVouches, Na!disk, Na!Names, Na!Leaf, Na!DirOf

\* A prune that is about to forget more is not under way.
LEMMA NaDoomKept ==
    ASSUME NaInv, NEW p \in Racers, NaAside(p),
           pc'[p] = "forget" => /\ pc[p] = "forget" /\ my'[p].stale \subseteq my[p].stale
                                /\ met[p] \subseteq met'[p]
    PROVE  \A w \in Triples : NaDoomed(w)' => NaDoomed(w)
  BY DEF NaAside, NaDoomed

\* A step of p that leaves the disk as it is, and begins no prune.
LEMMA NaQuiet ==
    ASSUME NaSupposed, NaInv, NEW p \in Racers, UNCHANGED <<Na!disk, commands>>,
           pc' \in [Racers -> NaSteps], my' \in [Racers -> NaMine],
           met' \in [Racers -> SUBSET (Triples \cup {Missing})], pc'[p] # "forget",
           NaAside(p), NaBeside', NaAbout(p)'
    PROVE  NaInv'
  <1>1. Na!TypeOK'
    BY NaTypes DEF NaInv, NaTypes, Na!TypeOK, Na!disk, NaSteps, NaMine
  <1>2. NaDisk' /\ \A q \in Racers \ {p} : NaAbout(q)'
    BY NaDiskKept, NaKept DEF NaInv, NaAside
  <1>3. NaVouched'
    BY NaVouchedKept, NaDoomKept DEF NaInv
  <1> QED
    BY <1>1, <1>2, <1>3 DEF NaInv

LEMMA NaStop == ASSUME NaSupposed, NaInv, NEW p \in Racers, Na!Stop(p) PROVE NaInv'
  BY NaEnds, NaQuiet DEF Na!Stop

\* The launch of p is still one where only its step is another.
LEMMA NaStaysLaunch ==
    ASSUME NaSupposed, NaInv, NEW p \in Racers, pc[p] # "idle", UNCHANGED Na!disk,
           met'[p] = met[p], my'[p].verb = my[p].verb, my'[p].asked = my[p].asked
    PROVE  NaLaunch(p)'
  <1>1. NaRun(p) /\ NaLaunch(p) /\ my[p] \in NaMine /\ pc[p] \in NaSteps
    BY NaCarries DEF NaAbout
  <1>2. Na!Launching(p) => my[p].asked \in Triples
    BY <1>1 DEF NaRun, NaSteps, Na!Launching, Na!Removals
  <1>3. NaFewerRecords /\ NaNoStrangers(p)
    BY NaDiskKept DEF NaInv
  <1> QED
    BY <1>1, <1>2, <1>3, NaLaunchKept

\* A step of p to another place, on the same disk.
LEMMA NaTurns ==
    ASSUME NaSupposed, NaInv, NEW p \in Racers, pc[p] # "idle", UNCHANGED Na!disk,
           NEW step \in NaSteps \ {"idle", "forget"}, NEW m \in NaMine, Na!Goes(p, step, m),
           m.verb = my[p].verb, m.asked = my[p].asked,
           NaWent(p, step, m) /\ NaLaunch(p)' =>
               NaRun(p)' /\ NaEntering(p)' /\ NaSettled(p)' /\ NaFound(p)'
    PROVE  NaInv'
  <1>1. NaWent(p, step, m)
    BY NaGoes
  <1>2. NaLaunch(p)'
    BY <1>1, NaStaysLaunch DEF NaWent
  <1> QED
    BY <1>1, <1>2, NaQuiet DEF NaAbout, NaWent

LEMMA NaAskDerived == ASSUME NaSupposed, NaInv, NEW p \in Racers, Na!AskDerived(p) PROVE NaInv'
  <1> DEFINE t == my[p].asked
  <1>1. /\ pc[p] = "ask" /\ UNCHANGED Na!disk /\ my[p] \in NaMine /\ t \in Triples
        /\ my[p].verb \in {"launch"} \cup Na!Removals /\ IdOf[t] \in Ids
    BY NaCarries, NaIds DEF Na!AskDerived, NaAbout, NaRun
  <1>2. CASE Na!Known(p, IdOf[t])
    <2> DEFINE m == [my[p] EXCEPT !.id = IdOf[t]]
               step == IF Na!Launching(p) THEN "attach" ELSE "look"
    <2>1. m \in NaMine /\ m.verb = my[p].verb /\ m.asked = t /\ m.id = IdOf[t]
      BY <1>1 DEF NaMine
    <2>2. Na!Goes(p, step, m) /\ step \in {"attach", "look"} /\ (step = "attach" <=> Na!Launching(p))
      BY <1>2 DEF Na!Known
    <2> HIDE DEF m, step
    <2>3. NaWent(p, step, m) /\ NaLaunch(p)' =>
             NaRun(p)' /\ NaEntering(p)' /\ NaSettled(p)' /\ NaFound(p)'
      BY <1>1, <2>1, <2>2 DEF NaWent, NaRun, NaLaunch, NaEntering, NaSettled, NaFound,
         Na!Launching, NaShared
    <2> QED
      BY <1>1, <2>1, <2>2, <2>3, NaTurns DEF NaSteps
  <1>3. CASE Na!Goes(p, "follow", [my[p] EXCEPT !.rough = IdOf[t] \in standing])
    <2>0. PICK rough \in BOOLEAN : rough <=> IdOf[t] \in standing
      OBVIOUS
    <2>1. rough = (IdOf[t] \in standing)
      BY <2>0, Zenon
    <2> DEFINE m == [my[p] EXCEPT !.rough = rough]
    <2>2. m \in NaMine /\ m.verb = my[p].verb /\ m.asked = t
      BY <1>1 DEF NaMine
    <2>3. Na!Goes(p, "follow", m)
      BY <1>3, <2>1, Zenon
    <2> HIDE DEF m
    <2>4. NaWent(p, "follow", m) /\ NaLaunch(p)' =>
             NaRun(p)' /\ NaEntering(p)' /\ NaSettled(p)' /\ NaFound(p)'
      BY <1>1, <2>2 DEF NaWent, NaRun, NaEntering, NaSettled, NaFound
    <2> QED
      BY <1>1, <2>2, <2>3, <2>4, NaTurns DEF NaSteps
  <1> QED
    BY <1>2, <1>3 DEF Na!AskDerived

\* The id a record that was followed leads to is the former one, where its triple was.
LEMMA NaRecordedIs ==
    ASSUME NaSupposed, NaInv, NEW t \in Triples, Na!Recorded(t) # Missing
    PROVE  /\ Formerly(t) /\ t \in Older
           /\ Na!Recorded(t) = FormerIdOf[t] /\ Na!Recorded(t) = records[t].devpod
           /\ FormerIdOf[t] \in Ids /\ FormerIdOf[t] # IdOf[t]
           /\ FormerIdOf[t] \in standing => t \in tenants[FormerIdOf[t]]
  <1>1. /\ records[t] # Missing /\ Na!Recorded(t) = records[t].devpod
        /\ records[t].devpod # IdOf[t]
    BY DEF Na!Recorded
  <1>2. t \in Older /\ records[t].devpod = FormerIdOf[t] /\ FormerIdOf[t] \in Ids
    BY <1>1, NaIds DEF NaInv, NaDisk, NaRecord
  <1>3. FormerIdOf[t] \in standing => t \in tenants[FormerIdOf[t]]
    BY <1>1 DEF NaInv, NaDisk, NaFormer, Formerly
  <1> QED
    BY <1>1, <1>2, <1>3 DEF NaInv, NaDisk, NaTenancy, Formerly

LEMMA NaAskRecorded == ASSUME NaSupposed, NaInv, NEW p \in Racers, Na!AskRecorded(p) PROVE NaInv'
  <1> DEFINE t == my[p].asked
             i == Na!Recorded(t)
  <1>1. /\ pc[p] = "follow" /\ UNCHANGED Na!disk /\ my[p] \in NaMine /\ t \in Triples
        /\ my[p].verb \in {"launch"} \cup Na!Removals /\ IdOf[t] \in Ids
    BY NaCarries, NaIds DEF Na!AskRecorded, NaAbout, NaRun
  <1>2. CASE i # Missing /\ i \in standing /\ Na!Known(p, i)
    <2> DEFINE m == [my[p] EXCEPT !.id = i]
               step == IF Na!Launching(p) THEN "attach" ELSE "look"
    <2>1. i \in Ids /\ t \in Older /\ i = FormerIdOf[t] /\ t \in tenants[i]
      BY <1>1, <1>2, NaRecordedIs
    <2>2. m \in NaMine /\ m.verb = my[p].verb /\ m.asked = t /\ m.id = i
      BY <1>1, <2>1 DEF NaMine
    <2>3. Na!Goes(p, step, m) /\ step \in {"attach", "look"} /\ (step = "attach" <=> Na!Launching(p))
      BY <1>2 DEF Na!Known
    <2> HIDE DEF m, step, i
    <2>4. NaWent(p, step, m) /\ NaLaunch(p)' =>
             NaRun(p)' /\ NaEntering(p)' /\ NaSettled(p)' /\ NaFound(p)'
      BY <1>1, <2>1, <2>2, <2>3 DEF NaWent, NaRun, NaEntering, NaSettled, NaFound,
         Na!Launching, NaShared, Na!disk
    <2> QED
      BY <1>1, <2>2, <2>3, <2>4, NaTurns DEF NaSteps
  <1>3. CASE Na!Unknown(p, i # Missing /\ i \in standing)
    <2>0. PICK rough \in BOOLEAN : rough <=> (my[p].rough \/ (i # Missing /\ i \in standing))
      OBVIOUS
    <2> DEFINE m == [my[p] EXCEPT !.id = IdOf[t], !.rough = rough]
               step == IF Na!Launching(p) THEN "prepare" ELSE "look"
    <2>1. m \in NaMine /\ m.verb = my[p].verb /\ m.asked = t /\ m.id = IdOf[t] /\ m.rough = rough
      BY <1>1 DEF NaMine
    <2>2. rough = (my[p].rough \/ (i # Missing /\ i \in standing))
      BY <1>1, <2>0, Zenon DEF NaMine
    <2>3. Na!Goes(p, step, m) /\ step \in {"prepare", "look"} /\ (step = "prepare" <=> Na!Launching(p))
      BY <1>3, <2>2 DEF Na!Unknown
    <2>4. ~rough => NaLeft(t, Ids \ {IdOf[t]})
      <3> SUFFICES ASSUME ~rough, NEW j \in Ids \ {IdOf[t]}, t \in tenants[j], Na!Names(t, j)
                   PROVE  FALSE
        BY DEF NaLeft
      <3>1. NaRecord(t) /\ j \in standing
        BY <1>1 DEF NaInv, NaDisk, NaTenancy
      <3>2. j = records[t].devpod /\ i = j
        BY <1>1, <3>1, NaIds DEF NaRecord, Na!Names, Na!Recorded
      <3> QED
        BY <1>1, <2>0, <3>1, <3>2, NaIds
    <2> HIDE DEF m, step, i
    <2>5. NaWent(p, step, m) /\ NaLaunch(p)' =>
             NaRun(p)' /\ NaEntering(p)' /\ NaSettled(p)' /\ NaFound(p)'
      BY <1>1, <2>1, <2>3, <2>4 DEF NaWent, NaRun, NaEntering, NaSettled, NaFound,
         Na!Launching, Na!disk, NaLeft, Na!Names
    <2> QED
      BY <1>1, <2>1, <2>3, <2>5, NaTurns DEF NaSteps
  <1> QED
    BY <1>2, <1>3 DEF Na!AskRecorded

LEMMA NaGiveUpAsking == ASSUME NaSupposed, NaInv, NEW p \in Racers, Na!GiveUpAsking(p) PROVE NaInv'
  <1> DEFINE t == my[p].asked
             m == [my[p] EXCEPT !.id = IdOf[t], !.rough = TRUE]
  <1>1. /\ pc[p] \in {"ask", "follow"} /\ UNCHANGED Na!disk /\ my[p] \in NaMine /\ t \in Triples
        /\ my[p].verb = "kill" /\ IdOf[t] \in Ids /\ Na!Goes(p, "look", m)
    BY NaCarries, NaIds DEF Na!GiveUpAsking, NaAbout, NaRun
  <1>2. m \in NaMine /\ m.verb = my[p].verb /\ m.asked = t /\ m.id = IdOf[t]
    BY <1>1 DEF NaMine
  <1> HIDE DEF m
  <1>3. NaWent(p, "look", m) => NaRun(p)' /\ NaEntering(p)' /\ NaSettled(p)' /\ NaFound(p)'
    BY <1>1, <1>2 DEF NaWent, NaRun, NaEntering, NaSettled, NaFound, Na!Removals
  <1> QED
    BY <1>1, <1>2, <1>3, NaTurns DEF NaSteps

LEMMA NaLook == ASSUME NaSupposed, NaInv, NEW p \in Racers, Na!Look(p) PROVE NaInv'
  <1>1. /\ pc[p] = "look" /\ UNCHANGED Na!disk /\ my[p] \in NaMine
        /\ my[p].verb \in Na!Removals /\ my[p].id \in Ids
    BY NaCarries DEF Na!Look, NaAbout, NaRun
  <1>2. PICK v \in Triples \cup {Missing} :
           /\ v # Missing => Na!Leaf(v) = my[p].id
           /\ Na!Goes(p, "delete", [my[p] EXCEPT !.victim = v])
    BY <1>1 DEF Na!Look
  <1> DEFINE m == [my[p] EXCEPT !.victim = v]
  <1>3. /\ m \in NaMine /\ m.verb = my[p].verb /\ m.asked = my[p].asked /\ m.id = my[p].id
        /\ m.victim = v
    BY <1>1 DEF NaMine
  <1>4. Na!Goes(p, "delete", m)
    BY <1>2
  <1> HIDE DEF m
  <1>5. NaWent(p, "delete", m) => NaRun(p)' /\ NaEntering(p)' /\ NaSettled(p)' /\ NaFound(p)'
    BY <1>1, <1>2, <1>3 DEF NaWent, NaRun, NaEntering, NaSettled, NaFound, Na!disk, Na!Leaf
  <1> QED
    BY <1>1, <1>3, <1>4, <1>5, NaTurns DEF NaSteps

(***************************************************************************)
(* A command begins.                                                       *)
(***************************************************************************)
LEMMA NaBegins ==
    ASSUME NaInv, NEW p \in Racers, NEW step \in NaSteps, NEW m \in NaMine,
           Na!Begins(p, m, step), NaSupposed
    PROVE  /\ pc' \in [Racers -> NaSteps] /\ my' \in [Racers -> NaMine]
           /\ met' \in [Racers -> SUBSET (Triples \cup {Missing})]
           /\ commands' \in 0 .. MaxNamings /\ pc'[p] = step /\ my'[p] = m
           /\ NaAside(p) /\ NaBeside'
  <1>1. /\ pc' = [pc EXCEPT ![p] = step] /\ my' = [my EXCEPT ![p] = m]
        /\ met' = [q \in Racers |->
                     IF q = p THEN {Na!Mark(my[o]) : o \in Na!Busy}
                     ELSE IF q \in Na!Busy THEN met[q] \cup {Na!Mark(m)} ELSE {}]
        /\ commands < MaxNamings /\ commands' = commands + 1 /\ pc[p] = "idle"
    BY DEF Na!Begins, Na!Busy
  <1>2. /\ pc \in [Racers -> NaSteps] /\ my \in [Racers -> NaMine]
        /\ met \in [Racers -> SUBSET (Triples \cup {Missing})]
        /\ commands \in 0 .. MaxNamings /\ MaxNamings \in Nat
    BY NaTypes DEF NaInv, NaSupposed, Na!BoundAssumption
  <1>3. /\ pc' \in [Racers -> NaSteps] /\ my' \in [Racers -> NaMine]
        /\ pc'[p] = step /\ my'[p] = m
        /\ \A q \in Racers : q # p => pc'[q] = pc[q] /\ my'[q] = my[q]
    BY <1>1, <1>2
  <1>4. \A x \in NaMine : Na!Mark(x) \in Triples \cup {Missing}
    BY DEF Na!Mark, NaMine
  <1>5. met' \in [Racers -> SUBSET (Triples \cup {Missing})]
    <2> SUFFICES ASSUME NEW q \in Racers PROVE met'[q] \subseteq Triples \cup {Missing}
      BY <1>1
    <2>1. {Na!Mark(my[o]) : o \in Na!Busy} \subseteq Triples \cup {Missing}
      BY <1>2, <1>4 DEF Na!Busy
    <2> QED
      BY <1>1, <1>2, <1>4, <2>1
  <1>6. /\ \A q \in Racers \ {p} : pc[q] # "idle" =>
              met[q] \subseteq met'[q] /\ Na!Mark(m) \in met'[q]
        /\ \A q \in Racers \ {p} : pc[q] # "idle" => Na!Mark(my[q]) \in met'[p]
    BY <1>1 DEF Na!Busy
  <1>7. NaBeside'
    BY <1>3, <1>6 DEF NaInv, NaBeside
  <1> QED
    BY <1>1, <1>2, <1>3, <1>5, <1>6, <1>7 DEF NaAside

\* A command that begins keeps what is so, but for a prune that plans.
LEMMA NaOpens ==
    ASSUME NaSupposed, NaInv, NEW p \in Racers, UNCHANGED Na!disk,
           NEW step \in NaSteps, NEW m \in NaMine, Na!Begins(p, m, step),
           pc'[p] = step /\ my'[p] = m => NaAbout(p)', NaVouched'
    PROVE  NaInv'
  <1>1. /\ pc' \in [Racers -> NaSteps] /\ my' \in [Racers -> NaMine]
        /\ met' \in [Racers -> SUBSET (Triples \cup {Missing})]
        /\ commands' \in 0 .. MaxNamings /\ NaAbout(p)'
        /\ NaAside(p) /\ NaBeside'
    BY NaBegins
  <1>2. Na!TypeOK'
    BY <1>1, NaTypes DEF NaInv, Na!TypeOK, Na!disk, NaSteps, NaMine
  <1>3. NaDisk' /\ \A q \in Racers \ {p} : NaAbout(q)'
    BY <1>1, NaDiskKept, NaKept DEF NaInv, NaAside
  <1> QED
    BY <1>1, <1>2, <1>3 DEF NaInv

\* Nobody else's record holds the id of a triple whose launch the guard lets through.
LEMMA NaLaunches ==
    ASSUME NaSupposed, NaInv, NEW p \in Racers, NEW t \in Triples, Na!Launch(p, t) PROVE NaInv'
  <1> DEFINE m == [Na!Idle EXCEPT !.verb = "launch", !.asked = t]
  <1>1. m \in NaMine /\ m.verb = "launch" /\ m.asked = t
    BY DEF Na!Idle, NaMine
  <1>2. Na!Begins(p, m, "ask") /\ UNCHANGED Na!disk /\ ~Na!Collides(t)
    BY DEF Na!Launch
  <1> HIDE DEF m
  <1>3. \A v \in Triples \ {t} : ~Na!Holds(v, IdOf[t])
    BY <1>2 DEF Na!Collides
  <1>4. \A v \in Triples \ {t} : Formerly(v) => IdOf[t] \notin {IdOf[v], FormerIdOf[v]}
    BY <1>3 DEF NaInv, NaDisk, NaRecord, Formerly, Na!Holds
  <1>5. IdOf[t] \in standing \ lapsed => t \in tenants[IdOf[t]]
    BY <1>3, NaIds DEF NaInv, NaVouched, NaVouches, Na!Names, Na!Holds
  <1>6. pc'[p] = "ask" /\ my'[p] = m => NaAbout(p)'
    BY <1>1, <1>2, <1>3, <1>4, <1>5 DEF NaAbout, NaRun, NaLaunch, NaEntering, NaSettled, NaFound,
       Na!Launching, NaShared, Na!disk, Formerly, Na!Holds
  <1>7. NaAside(p) /\ pc'[p] = "ask"
    BY <1>1, <1>2, NaBegins DEF NaSteps
  <1>8. NaVouched'
    BY <1>2, <1>7, NaVouchedKept, NaDoomKept DEF NaInv
  <1> QED
    BY <1>1, <1>2, <1>6, <1>8, NaOpens DEF NaSteps

LEMMA NaRemoves ==
    ASSUME NaSupposed, NaInv, NEW p \in Racers, UNCHANGED Na!disk, NEW step \in {"ask", "look"},
           NEW m \in NaMine, Na!Begins(p, m, step), m.verb \in Na!Removals,
           step = "ask" => m.asked \in Triples, step = "look" => m.id \in Ids
    PROVE  NaInv'
  <1>1. pc'[p] = step /\ my'[p] = m => NaAbout(p)'
    BY DEF NaAbout, NaRun, NaLaunch, NaEntering, NaSettled, NaFound, Na!Launching, Na!Removals
  <1>2. NaAside(p) /\ pc'[p] = step
    BY NaBegins DEF NaSteps
  <1>3. NaVouched'
    BY <1>2, NaVouchedKept, NaDoomKept DEF NaInv
  <1> QED
    BY <1>1, <1>3, NaOpens DEF NaSteps

LEMMA NaRemove ==
    ASSUME NaSupposed, NaInv, NEW p \in Racers, NEW t \in Triples, NEW verb \in Na!Removals,
           Na!Remove(p, t, verb)
    PROVE  NaInv'
  <1> DEFINE m == [Na!Idle EXCEPT !.verb = verb, !.asked = t]
  <1>1. m \in NaMine /\ m.verb = verb /\ m.asked = t
    BY DEF Na!Idle, NaMine
  <1>2. Na!Begins(p, m, "ask") /\ UNCHANGED Na!disk
    BY DEF Na!Remove
  <1> HIDE DEF m
  <1> QED
    BY <1>1, <1>2, NaRemoves

LEMMA NaRemoveById ==
    ASSUME NaSupposed, NaInv, NEW p \in Racers, NEW i \in Ids, NEW verb \in Na!Removals,
           Na!RemoveById(p, i, verb)
    PROVE  NaInv'
  <1>0. PICK rough \in BOOLEAN : rough <=> i \notin standing
    OBVIOUS
  <1>1. rough = (i \notin standing)
    BY <1>0, Zenon
  <1> DEFINE m == [Na!Idle EXCEPT !.verb = verb, !.id = i, !.rough = rough]
  <1>2. m \in NaMine /\ m.verb = verb /\ m.id = i
    BY DEF Na!Idle, NaMine
  <1>3. Na!Begins(p, m, "look") /\ UNCHANGED Na!disk
    BY <1>1, Zenon DEF Na!RemoveById
  <1> HIDE DEF m
  <1> QED
    BY <1>2, <1>3, NaRemoves

\* What vouches for a workspace has a clone, and is no record that a prune plans to forget.
LEMMA NaPlan == ASSUME NaSupposed, NaInv, NEW p \in Racers, Na!Plan(p) PROVE NaInv'
  <1> DEFINE gone0 == {t \in Triples : /\ records[t] # Missing
                                       /\ clone[Na!ClonePath(t, Na!Leaf(t))] = Missing}
             m == [Na!Idle EXCEPT !.verb = "prune", !.stale = gone0]
  <1>1. /\ m \in NaMine /\ m.verb = "prune" /\ m.asked = Missing /\ m.victim = Missing
        /\ ~m.rough /\ m.stale = gone0
    BY DEF Na!Idle, NaMine
  <1>2. Na!Begins(p, m, "forget") /\ UNCHANGED Na!disk
    BY DEF Na!Plan
  <1>3. ASSUME NEW w \in gone0 PROVE clone[Na!DirOf(w, Na!Leaf(w))] = Missing
    BY <1>3 DEF Na!ClonePath
  <1> HIDE DEF m, gone0
  <1>4. pc'[p] = "forget" /\ my'[p] = m /\ NaAside(p)
    BY <1>1, <1>2, NaBegins DEF NaSteps
  <1>5. NaAbout(p)'
    BY <1>1, <1>4 DEF NaAbout, NaRun, NaLaunch, NaEntering, NaSettled, NaFound, Na!Launching
  <1>6. \A w \in Triples : NaDoomed(w)' => NaDoomed(w) \/ w \in gone0
    BY <1>1, <1>4 DEF NaDoomed, NaAside
  <1>7. NaVouched'
    BY <1>2, <1>3, <1>6 DEF NaInv, NaVouched, NaVouches, Na!disk, Na!Names, Na!Leaf, Na!DirOf
  <1> QED
    BY <1>1, <1>2, <1>5, <1>7, NaOpens DEF NaSteps

(***************************************************************************)
(* The steps that change the disk.                                         *)
(***************************************************************************)
LEMMA NaActs ==
    ASSUME NaSupposed, NaInv, NEW p \in Racers, NaAside(p), NaBeside', Na!TypeOK', NaDisk',
           NaVouched', NaAbout(p)', NaFewerRecords,
           \A q \in Racers \ {p} : pc[q] # "idle" => NaNoStrangers(q) /\ NaUntouched(q)
    PROVE  NaInv'
  <1>1. \A i \in Ids : tenants'[i] # {} <=> i \in standing'
    BY DEF NaDisk, NaTenancy
  <1>2. \A q \in Racers \ {p} : NaAbout(q)'
    BY <1>1, NaKept
  <1> QED
    BY <1>2 DEF NaInv

LEMMA NaMarked ==
    ASSUME NaInv, NEW p \in Racers, NEW q \in Racers \ {p}, pc[p] # "idle", pc[q] # "idle"
    PROVE  IF Na!Launching(p) THEN my[p].asked \in met[q] ELSE Missing \in met[q]
  BY DEF NaInv, NaBeside, Na!Mark, Na!Launching

\* Records go, and more is excused.
NaShrinks ==
    /\ UNCHANGED <<standing, tenants>> /\ lapsed \subseteq lapsed' /\ lapsed' \subseteq standing
    /\ \A t \in Triples : records'[t] \in {records[t], Missing}

LEMMA NaDiskShrinks ==
    ASSUME NaSupposed, NaInv, NaShrinks
    PROVE  /\ NaDisk' /\ NaFewerRecords
           /\ \A q \in Racers : met[q] \subseteq met'[q] =>
                 NaNoStrangers(q) /\ (Missing \in met[q] \/ UNCHANGED records => NaUntouched(q))
  <1>1. NaDisk /\ NaTenancy
    BY DEF NaInv, NaDisk
  <1>2. \A t \in Triples : /\ Formerly(t)' => Formerly(t) /\ records'[t] = records[t]
                           /\ \A i : Na!Holds(t, i)' => Na!Holds(t, i)
    BY DEF NaShrinks, Formerly, Na!Holds
  <1>3. NaTenancy'
    BY <1>1 DEF NaShrinks, NaTenancy
  <1>4. ASSUME NEW t \in Triples PROVE NaRecord(t)' /\ NaFormer(t)'
    <2>1. NaRecord(t)'
      BY <1>1 DEF NaDisk, NaRecord, NaShrinks
    <2>2. NaFormer(t)'
      <3> SUFFICES ASSUME Formerly(t)' PROVE NaFormer(t)'
        BY DEF NaFormer
      <3>1. Formerly(t) /\ NaFormer(t) /\ Na!Leaf(t)' = Na!Leaf(t)
        BY <1>1, <1>2 DEF NaDisk, Na!Leaf
      <3> QED
        BY <1>2, <3>1 DEF NaFormer, NaShrinks
    <2> QED
      BY <2>1, <2>2
  <1>5. NaFewerRecords
    BY <1>2 DEF NaFewerRecords
  <1>6. ASSUME NEW q \in Racers, met[q] \subseteq met'[q]
        PROVE  NaNoStrangers(q) /\ (Missing \in met[q] \/ UNCHANGED records => NaUntouched(q))
    BY <1>6 DEF NaShrinks, NaNoStrangers, NaUntouched
  <1> QED
    BY <1>3, <1>4, <1>5, <1>6 DEF NaDisk

LEMMA NaPrepare == ASSUME NaSupposed, NaInv, NEW p \in Racers, Na!Prepare(p) PROVE NaInv'
  <1> DEFINE t == my[p].asked
             d == Na!DirOf(t, my[p].id)
  <1>1. /\ pc[p] = "prepare" /\ UNCHANGED <<records, standing, tenants, lapsed>>
        /\ clone' = [clone EXCEPT ![d] = t] /\ Na!Goes(p, "register", my[p])
        /\ my[p] \in NaMine /\ t \in Triples /\ my[p].id \in Ids /\ NaAbout(p)
        /\ my[p].id = IdOf[t] /\ Na!Launching(p)
    BY NaCarries, NaIds DEF Na!Prepare, NaAbout, NaRun
  <1>2. NaWent(p, "register", my[p])
    BY <1>1, NaGoes DEF NaSteps
  <1>3. NaShrinks /\ UNCHANGED records
    BY <1>1 DEF NaShrinks, NaInv, NaDisk, NaTenancy
  <1>4. /\ clone \in [Na!Dir -> Triples \cup {Missing}]
        /\ clone' \in [Na!Dir -> Triples \cup {Missing}]
        /\ \A x \in Na!Dir : clone[x] # Missing => clone'[x] # Missing
    BY <1>1, NaIds, NaTypes DEF NaInv
  <1>5. Na!TypeOK'
    BY <1>1, <1>2, <1>4, NaTypes DEF NaInv, Na!TypeOK, NaWent, NaSteps, NaMine
  <1>6. NaVouched'
    <2>1. \A w \in Triples : NaDoomed(w)' => NaDoomed(w)
      BY <1>2, NaDoomKept DEF NaWent
    <2>2. \A w \in Triples, i \in Ids : Na!Names(w, i) => Na!DirOf(w, Na!Leaf(w)) \in Na!Dir
      BY NaTypes DEF NaInv, Na!Names, Na!DirOf, Na!Dir, Na!Leaf, NaSupposed, Na!NamesAssumption
    <2> QED
      BY <1>1, <1>4, <2>1, <2>2 DEF NaInv, NaDisk, NaTenancy, NaVouched, NaVouches, Na!Names,
         Na!Leaf, Na!DirOf, Na!TypeOK
  <1>7. NaAbout(p)'
    <2> HIDE DEF t
    <2>1. NaFewerRecords /\ NaNoStrangers(p)
      BY <1>2, <1>3, NaDiskShrinks DEF NaWent
    <2>2. NaLaunch(p)'
      BY <1>1, <1>2, <2>1, NaLaunchKept DEF NaWent, NaAbout, t
    <2> QED
      BY <1>1, <1>2, <2>2 DEF NaWent, NaAbout, NaRun, NaEntering, NaSettled, NaFound, NaLeft,
         Na!Names, Na!Launching
  <1>8. \A q \in Racers \ {p} : pc[q] # "idle" => NaNoStrangers(q) /\ NaUntouched(q)
    BY <1>2, <1>3, NaDiskShrinks DEF NaWent, NaAside
  <1> QED
    BY <1>2, <1>3, <1>5, <1>6, <1>7, <1>8, NaDiskShrinks, NaActs DEF NaWent

\* What a command takes away beside a launch of it, by another's name or past what devpod
\* said is excused.
NaMayExcuse(p, v) ==
    v \in met[p] \/ my[p].rough \/ {my[p].asked, my[p].victim} \ {v, Missing} # {}

LEMMA NaTakes ==
    ASSUME NaInv, NEW p \in Racers, NEW V \in SUBSET Triples, Na!Takes(p, V)
    PROVE  /\ lapsed \subseteq lapsed' /\ lapsed' \subseteq standing
           /\ \A v \in V, i \in Ids : NaMayExcuse(p, v) /\ v \in tenants[i] => i \in lapsed'
  <1>1. lapsed' = lapsed \cup UNION {Na!Of(v) : v \in {v \in V : NaMayExcuse(p, v)}}
    BY DEF Na!Takes, NaMayExcuse
  <1>2. \A v \in V : Na!Of(v) \subseteq standing /\ \A i \in Ids : v \in tenants[i] => i \in Na!Of(v)
    BY DEF Na!Of, NaInv, NaDisk, NaTenancy
  <1> HIDE DEF NaMayExcuse
  <1> QED
    BY <1>1, <1>2 DEF NaInv, NaDisk, NaTenancy

\* A removal that has not been crossed takes what is excused already.
LEMMA NaTakenIsLeft ==
    ASSUME NaSupposed, NaInv, NEW p \in Racers, pc[p] \in {"clean", "unrecord"}, NEW v \in Triples,
           NEW i \in Ids, v \in tenants[i], Na!Names(v, i), NEW V \in SUBSET Triples, v \in V,
           Na!Takes(p, V)
    PROVE  i \in lapsed'
  <1>1. CASE NaMayExcuse(p, v)
    BY <1>1, NaTakes
  <1>2. CASE ~NaMayExcuse(p, v)
    <2>1. my[p].victim = v /\ ~my[p].rough /\ v \notin met[p]
      BY <1>2, NaCarries DEF NaMayExcuse, NaAbout, NaRun, NaSupposed, Na!NamesAssumption
    <2>2. i \in lapsed
      BY <2>1, NaCarries DEF NaAbout, NaFound, NaLeft
    <2> QED
      BY <2>2, NaTakes
  <1> QED
    BY <1>1, <1>2

LEMMA NaRemoveClone == ASSUME NaSupposed, NaInv, NEW p \in Racers, Na!RemoveClone(p) PROVE NaInv'
  <1> DEFINE v == my[p].victim
             d == Na!ClonePath(v, my[p].id)
             V == {clone[d]} \cup {w \in Triples : Na!Leaf(w) # Missing /\ Na!DirOf(w, Na!Leaf(w)) = d}
  <1>1. /\ pc[p] = "clean" /\ UNCHANGED <<records, standing, tenants>> /\ my[p] \in NaMine
        /\ v \in Triples /\ my[p].id \in Ids /\ ~Na!Launching(p) /\ NaAbout(p)
    BY NaCarries, NaIds DEF Na!RemoveClone, NaAbout, NaRun, Na!Launching, Na!Removals
  <1>2. CASE Na!Ends(p) /\ UNCHANGED <<clone, lapsed>>
    <2>1. UNCHANGED Na!disk
      BY <1>1, <1>2 DEF Na!disk
    <2> QED
      BY <1>2, <2>1, NaEnds, NaQuiet
  <1>3. CASE /\ clone[d] # Missing /\ clone' = [clone EXCEPT ![d] = Missing]
             /\ Na!Takes(p, V) /\ Na!Goes(p, "unrecord", my[p])
    <2>1. d \in Na!Dir /\ clone \in [Na!Dir -> Triples \cup {Missing}]
      BY <1>1, NaIds, NaTypes DEF NaInv, Na!ClonePath, Na!DirOf, Na!Dir, NaSupposed,
         Na!NamesAssumption
    <2>2. V \subseteq Triples
      BY <1>3, <2>1
    <2>3. NaWent(p, "unrecord", my[p])
      BY <1>1, <1>3, NaGoes DEF NaSteps
    <2>4. NaShrinks /\ UNCHANGED records
      BY <1>1, <1>3, <2>2, NaTakes DEF NaShrinks
    <2>5. Na!TypeOK'
      <3>1. clone' \in [Na!Dir -> Triples \cup {Missing}] /\ lapsed' \subseteq Ids
        BY <1>3, <2>1, <2>4, NaTypes DEF NaInv, NaShrinks
      <3> QED
        BY <1>1, <2>3, <3>1, NaTypes DEF NaInv, Na!TypeOK, NaWent, NaSteps, NaMine
    <2>6. NaVouched'
      <3> SUFFICES ASSUME NEW i \in standing \ lapsed' PROVE \E w \in Triples : NaVouches(w, i)'
        BY <1>1 DEF NaVouched
      <3>1. i \in Ids /\ i \in standing \ lapsed
        BY <2>4, NaTypes DEF NaInv, NaShrinks
      <3>2. PICK w \in Triples : NaVouches(w, i)
        BY <3>1 DEF NaInv, NaVouched
      <3>3. w \notin V
        BY <1>1, <1>3, <2>2, <3>1, <3>2, NaTakenIsLeft DEF NaVouches
      <3>4. Na!Leaf(w) # Missing
        BY <3>2, NaTypes, NaIds DEF NaInv, NaVouches, Na!Names, Na!Leaf
      <3>5. Na!DirOf(w, Na!Leaf(w)) # d
        BY <3>3, <3>4
      <3>6. NaDoomed(w)' => NaDoomed(w)
        BY <2>3, NaDoomKept DEF NaWent
      <3>7. Na!DirOf(w, Na!Leaf(w)) \in Na!Dir
        BY <3>2, NaTypes DEF NaInv, NaVouches, Na!Names, Na!DirOf, Na!Dir, Na!Leaf, NaSupposed,
           Na!NamesAssumption
      <3> HIDE DEF d, V
      <3>8. clone'[Na!DirOf(w, Na!Leaf(w))] # Missing
        BY <1>3, <2>1, <3>2, <3>5, <3>7 DEF NaVouches
      <3> QED
        BY <1>1, <3>2, <3>6, <3>8 DEF NaVouches, Na!Names, Na!Leaf, Na!DirOf
    <2>7. NaAbout(p)'
      BY <1>1, <2>3, <2>4 DEF NaWent, NaAbout, NaRun, NaLaunch, NaEntering, NaSettled, NaFound,
         NaLeft, Na!Names, Na!Leaf, Na!Launching, NaShrinks
    <2>8. \A q \in Racers \ {p} : pc[q] # "idle" => NaNoStrangers(q) /\ NaUntouched(q)
      BY <2>3, <2>4, NaDiskShrinks DEF NaWent, NaAside
    <2> QED
      BY <2>3, <2>4, <2>5, <2>6, <2>7, <2>8, NaDiskShrinks, NaActs DEF NaWent
  <1> QED
    BY <1>2, <1>3 DEF Na!RemoveClone

\* The record of v goes.
LEMMA NaForgets ==
    ASSUME NaSupposed, NaInv, NEW p \in Racers, NEW v \in Triples, Na!Forgets(p, v),
           UNCHANGED <<clone, standing, tenants>>, NaAside(p),
           \A w \in Triples : NaDoomed(w)' => NaDoomed(w),
           \A i \in Ids : NaVouches(v, i) => i \in lapsed'
    PROVE  /\ NaShrinks /\ NaVouched' /\ lapsed' \subseteq Ids
           /\ records' \in [Triples -> {Missing} \cup [leaf : Ids, devpod : Ids \cup {Missing}]]
  <1>1. records' = [records EXCEPT ![v] = Missing] /\ Na!Takes(p, {v})
    BY DEF Na!Forgets
  <1>2. records \in [Triples -> {Missing} \cup [leaf : Ids, devpod : Ids \cup {Missing}]]
    BY NaTypes DEF NaInv
  <1>3. /\ records' \in [Triples -> {Missing} \cup [leaf : Ids, devpod : Ids \cup {Missing}]]
        /\ records'[v] = Missing /\ \A w \in Triples \ {v} : records'[w] = records[w]
    BY <1>1, <1>2
  <1>4. NaShrinks
    BY <1>1, <1>3, NaTakes DEF NaShrinks
  <1>5. NaVouched'
    <2> SUFFICES ASSUME NEW i \in standing \ lapsed' PROVE \E w \in Triples : NaVouches(w, i)'
      BY DEF NaVouched
    <2>1. i \in Ids /\ i \in standing \ lapsed
      BY <1>4, NaTypes DEF NaInv, NaShrinks
    <2>2. PICK w \in Triples : NaVouches(w, i)
      BY <2>1 DEF NaInv, NaVouched
    <2>3. w # v
      BY <2>1, <2>2
    <2> QED
      BY <1>3, <2>2, <2>3 DEF NaVouches, Na!Names, Na!Leaf, Na!DirOf
  <1>6. lapsed' \subseteq Ids
    BY <1>4, NaTypes DEF NaInv, NaShrinks
  <1> QED
    BY <1>3, <1>4, <1>5, <1>6

LEMMA NaUnrecord == ASSUME NaSupposed, NaInv, NEW p \in Racers, Na!Unrecord(p) PROVE NaInv'
  <1> DEFINE v == my[p].victim
  <1>1. /\ pc[p] = "unrecord" /\ v \in Triples /\ ~Na!Launching(p)
        /\ Na!Forgets(p, v) /\ Na!Ends(p) /\ UNCHANGED <<clone, standing, tenants>>
    BY NaCarries DEF Na!Unrecord, NaAbout, NaRun, Na!Launching, Na!Removals
  <1>2. /\ pc' \in [Racers -> NaSteps] /\ my' \in [Racers -> NaMine]
        /\ met' \in [Racers -> SUBSET (Triples \cup {Missing})]
        /\ UNCHANGED commands /\ pc'[p] = "idle" /\ NaAside(p) /\ NaBeside' /\ NaAbout(p)'
    BY <1>1, NaEnds
  <1>3. \A w \in Triples : NaDoomed(w)' => NaDoomed(w)
    BY <1>2, NaDoomKept
  <1>4. ASSUME NEW i \in Ids, NaVouches(v, i) PROVE i \in lapsed'
    BY <1>1, <1>4, NaTakenIsLeft DEF NaVouches, Na!Forgets
  <1> HIDE DEF v
  <1>5. /\ NaShrinks /\ NaVouched' /\ lapsed' \subseteq Ids
        /\ records' \in [Triples -> {Missing} \cup [leaf : Ids, devpod : Ids \cup {Missing}]]
    BY <1>1, <1>2, <1>3, <1>4, NaForgets
  <1>6. Na!TypeOK'
    BY <1>1, <1>2, <1>5, NaTypes DEF NaInv, Na!TypeOK, NaSteps, NaMine
  <1>7. ASSUME NEW q \in Racers \ {p}, pc[q] # "idle"
        PROVE  met[q] \subseteq met'[q] /\ Missing \in met[q]
    BY <1>1, <1>2, <1>7, NaMarked DEF NaAside
  <1> QED
    BY <1>2, <1>5, <1>6, <1>7, NaDiskShrinks, NaActs

LEMMA NaForget == ASSUME NaSupposed, NaInv, NEW p \in Racers, Na!Forget(p) PROVE NaInv'
  <1>1. /\ pc[p] = "forget" /\ UNCHANGED <<clone, standing, tenants>> /\ my[p] \in NaMine
        /\ ~Na!Launching(p) /\ my[p].stale \subseteq Triples
        /\ my[p].verb = "prune" /\ my[p].asked = Missing /\ my[p].victim = Missing /\ ~my[p].rough
    BY NaCarries DEF Na!Forget, NaAbout, NaRun, Na!Launching
  <1>2. CASE Na!Ends(p) /\ UNCHANGED <<records, lapsed>>
    <2>1. UNCHANGED Na!disk
      BY <1>1, <1>2 DEF Na!disk
    <2> QED
      BY <1>2, <2>1, NaEnds, NaQuiet
  <1>3. ASSUME NEW v \in my[p].stale, Na!Forgets(p, v),
               Na!Goes(p, "forget", [my[p] EXCEPT !.stale = @ \ {v}])
        PROVE  NaInv'
    <2> DEFINE m == [my[p] EXCEPT !.stale = @ \ {v}]
    <2>1. /\ m \in NaMine /\ m.verb = my[p].verb /\ m.asked = my[p].asked
          /\ m.victim = my[p].victim /\ m.rough = my[p].rough /\ m.stale = my[p].stale \ {v}
      BY <1>1 DEF NaMine
    <2>2. Na!Goes(p, "forget", m)
      BY <1>3
    <2> HIDE DEF m
    <2>3. NaWent(p, "forget", m)
      BY <1>1, <2>1, <2>2, NaGoes DEF NaSteps
    <2>4. \A w \in Triples : NaDoomed(w)' => NaDoomed(w)
      BY <1>1, <2>1, <2>3, NaDoomKept DEF NaWent
    <2>5. ASSUME NEW i \in Ids, NaVouches(v, i) PROVE i \in lapsed'
      <3>1. v \in met[p]
        BY <1>1, <1>3, <2>5 DEF NaVouches, NaDoomed
      <3> QED
        BY <1>1, <1>3, <2>5, <3>1, NaTakes DEF NaVouches, NaMayExcuse, Na!Forgets
    <2>6. /\ NaShrinks /\ NaVouched' /\ lapsed' \subseteq Ids
          /\ records' \in [Triples -> {Missing} \cup [leaf : Ids, devpod : Ids \cup {Missing}]]
      BY <1>1, <1>3, <2>3, <2>4, <2>5, NaForgets DEF NaWent
    <2>7. Na!TypeOK'
      BY <1>1, <2>3, <2>6, NaTypes DEF NaInv, Na!TypeOK, NaSteps, NaMine, NaWent
    <2>8. NaAbout(p)'
      BY <1>1, <2>1, <2>3 DEF NaWent, NaAbout, NaRun, NaLaunch, NaEntering, NaSettled, NaFound,
         Na!Launching
    <2>9. ASSUME NEW q \in Racers \ {p}, pc[q] # "idle"
          PROVE  met[q] \subseteq met'[q] /\ Missing \in met[q]
      BY <1>1, <2>3, <2>9, NaMarked DEF NaAside, NaWent
    <2> QED
      BY <2>3, <2>6, <2>7, <2>8, <2>9, NaDiskShrinks, NaActs DEF NaWent
  <1> QED
    BY <1>2, <1>3 DEF Na!Forget

\* The workspace i goes.
LEMMA NaDeletes ==
    ASSUME NaSupposed, NaInv, NEW i \in Ids, UNCHANGED <<records, clone>>,
           standing' = standing \ {i}, tenants' = [tenants EXCEPT ![i] = {}],
           lapsed' = lapsed \ {i}, \A w \in Triples : NaDoomed(w)' => NaDoomed(w)
    PROVE  /\ NaDisk' /\ NaVouched' /\ NaFewerRecords
           /\ \A q \in Racers : met[q] \subseteq met'[q] => NaNoStrangers(q) /\ NaUntouched(q)
           /\ standing' \subseteq Ids /\ tenants' \in [Ids -> SUBSET Triples] /\ lapsed' \subseteq Ids
  <1>1. /\ tenants \in [Ids -> SUBSET Triples] /\ standing \subseteq Ids /\ lapsed \subseteq Ids
        /\ NaDisk /\ NaTenancy
    BY NaTypes DEF NaInv, NaDisk
  <1>2. tenants'[i] = {} /\ \A j \in Ids \ {i} : tenants'[j] = tenants[j]
    BY <1>1
  <1>3. NaTenancy'
    BY <1>1, <1>2 DEF NaTenancy
  <1>4. NaFewerRecords /\ \A t \in Triples : NaRecord(t)'
    BY <1>1 DEF NaFewerRecords, NaDisk, NaRecord, Formerly, Na!Holds
  <1>5. ASSUME NEW t \in Triples PROVE NaFormer(t)'
    <2> SUFFICES ASSUME Formerly(t)' PROVE NaFormer(t)'
      BY DEF NaFormer
    <2>1. Formerly(t) /\ t \in Older /\ IdOf[t] \in Ids /\ FormerIdOf[t] \in Ids
      BY <1>1, NaIds DEF Formerly, NaDisk, NaRecord
    <2>2. /\ FormerIdOf[t] \in standing => t \in tenants[FormerIdOf[t]]
          /\ t \in tenants[IdOf[t]] =>
                /\ \A w \in Triples \ {t} : ~Na!Holds(w, IdOf[t])
                /\ FormerIdOf[t] \in standing => FormerIdOf[t] \in lapsed
                /\ Na!Leaf(t) = IdOf[t] \/ IdOf[t] \in lapsed
      BY <1>1, <2>1 DEF NaDisk, NaFormer
    <2> QED
      BY <1>2, <2>1, <2>2 DEF NaFormer, Na!Holds, Na!Leaf
  <1>6. ASSUME NEW q \in Racers, met[q] \subseteq met'[q] PROVE NaNoStrangers(q) /\ NaUntouched(q)
    <2>1. NaNoStrangers(q)
      BY <1>1, <1>2, <1>6 DEF NaNoStrangers
    <2> QED
      BY <1>1, <1>2, <1>6, <2>1 DEF NaUntouched
  <1>7. NaVouched'
    BY <1>1, <1>2 DEF NaInv, NaVouched, NaVouches, Na!Names, Na!Leaf, Na!DirOf
  <1>8. tenants' \in [Ids -> SUBSET Triples]
    BY <1>1
  <1> QED
    BY <1>1, <1>3, <1>4, <1>5, <1>6, <1>7, <1>8 DEF NaDisk

\* What the record of a clone of this name says beside it is excused, where its triple
\* has been in the workspace of that name.
LEMMA NaBesideIt ==
    ASSUME NaSupposed, NaInv, NEW v \in Triples, NEW i \in Ids, v \in tenants[i],
           Na!Leaf(v) \in {Missing, i}, NEW j \in Ids \ {i}, v \in tenants[j], Na!Names(v, j)
    PROVE  j \in lapsed
  <1>1. /\ records[v] # Missing /\ records[v].leaf = i
        /\ j = records[v].devpod \/ j = IdOf[v]
    BY NaTypes, NaIds DEF NaInv, Na!Leaf, Na!Names
  <1>2. NaRecord(v) /\ NaFormer(v) /\ NaTenancy
    BY DEF NaInv, NaDisk
  <1>3. Formerly(v) /\ v \in Older /\ records[v].devpod = FormerIdOf[v]
    BY <1>1, <1>2 DEF NaRecord, Formerly
  <1>4. v \in tenants[IdOf[v]]
    BY <1>1, <1>2, <1>3 DEF NaRecord
  <1>5. CASE j = IdOf[v]
    BY <1>1, <1>2, <1>3, <1>4, <1>5 DEF NaFormer, Na!Leaf
  <1>6. CASE j = FormerIdOf[v]
    BY <1>2, <1>3, <1>4, <1>6 DEF NaFormer, NaTenancy
  <1> QED
    BY <1>1, <1>3, <1>5, <1>6

LEMMA NaDelete == ASSUME NaSupposed, NaInv, NEW p \in Racers, Na!Delete(p) PROVE NaInv'
  <1> DEFINE i == my[p].id
             v == my[p].victim
  <1>1. /\ pc[p] = "delete" /\ UNCHANGED <<records, clone>> /\ my[p] \in NaMine
        /\ i \in Ids /\ v \in Triples \cup {Missing} /\ my[p].verb \in Na!Removals
        /\ standing' = standing \ {i} /\ tenants' = [tenants EXCEPT ![i] = {}]
        /\ lapsed' = lapsed \ {i} /\ NaAbout(p)
    BY NaCarries DEF Na!Delete, NaAbout, NaRun
  <1> DEFINE Disk ==
               /\ NaDisk' /\ NaVouched' /\ NaFewerRecords
               /\ \A q \in Racers : met[q] \subseteq met'[q] => NaNoStrangers(q) /\ NaUntouched(q)
               /\ standing' \subseteq Ids /\ tenants' \in [Ids -> SUBSET Triples]
               /\ lapsed' \subseteq Ids
  <1>2. (\A w \in Triples : NaDoomed(w)' => NaDoomed(w)) => Disk
    BY <1>1, NaDeletes
  <1>3. CASE v = Missing /\ Na!Ends(p)
    <2>1. /\ pc' \in [Racers -> NaSteps] /\ my' \in [Racers -> NaMine]
          /\ met' \in [Racers -> SUBSET (Triples \cup {Missing})]
          /\ UNCHANGED commands /\ pc'[p] = "idle" /\ NaAside(p) /\ NaBeside' /\ NaAbout(p)'
      BY <1>3, NaEnds
    <2>2. Disk
      BY <1>2, <2>1, NaDoomKept
    <2>3. Na!TypeOK'
      BY <1>1, <2>1, <2>2, NaTypes DEF NaInv, Na!TypeOK, NaSteps, NaMine
    <2> QED
      BY <2>1, <2>2, <2>3, NaActs DEF NaAside
  <1>4. CASE /\ v # Missing
             /\ Na!Goes(p, "clean", [my[p] EXCEPT !.rough = @ \/ v \notin tenants[i]])
    <2>0. PICK rough \in BOOLEAN : rough <=> (my[p].rough \/ v \notin tenants[i])
      OBVIOUS
    <2>1. rough = (my[p].rough \/ v \notin tenants[i])
      BY <1>1, <2>0, Zenon DEF NaMine
    <2> DEFINE m == [my[p] EXCEPT !.rough = rough]
    <2>2. /\ m \in NaMine /\ m.verb = my[p].verb /\ m.asked = my[p].asked /\ m.id = i
          /\ m.victim = v /\ m.rough = rough
      BY <1>1 DEF NaMine
    <2>3. Na!Goes(p, "clean", m)
      BY <1>4, <2>1
    <2> HIDE DEF m
    <2>4. NaWent(p, "clean", m)
      BY <1>1, <2>2, <2>3, NaGoes DEF NaSteps
    <2>5. Disk
      BY <1>2, <2>4, NaDoomKept DEF NaWent
    <2>6. Na!TypeOK'
      BY <1>1, <2>4, <2>5, NaTypes DEF NaInv, Na!TypeOK, NaSteps, NaMine, NaWent
    <2>7. v \notin met[p] => Na!Leaf(v) \in {Missing, i}
      BY <1>1, <1>4 DEF NaAbout, NaFound
    <2>8. ASSUME ~rough, v \notin met[p], NEW j \in Ids, v \in tenants'[j], Na!Names(v, j)
          PROVE  j \in lapsed'
      <3>1. v \in tenants[i] /\ j # i /\ v \in tenants[j]
        BY <1>1, <2>0, <2>8, NaTypes DEF NaInv
      <3>2. j \in lapsed
        BY <1>1, <1>4, <2>7, <2>8, <3>1, NaBesideIt
      <3> QED
        BY <1>1, <3>1, <3>2
    <2>9. NaAbout(p)'
      <3> HIDE DEF Disk, v, i
      <3>1. my'[p].victim = v /\ my'[p].id = i /\ my'[p].rough = rough
        BY <2>2, <2>4 DEF NaWent
      <3>2. NaFound(p)'
        BY <1>1, <2>4, <2>7, <2>8, <3>1 DEF NaWent, NaFound, NaLeft, Na!Names, Na!Leaf
      <3> QED
        BY <1>1, <1>4, <2>2, <2>4, <3>1, <3>2 DEF NaWent, NaAbout, NaRun, NaLaunch, NaEntering,
           NaSettled, Na!Launching, Na!Removals
    <2> QED
      BY <2>4, <2>5, <2>6, <2>9, NaActs DEF NaAside, NaWent
  <1> QED
    BY <1>3, <1>4 DEF Na!Delete

(***************************************************************************)
(* A launch writes its record.                                             *)
(***************************************************************************)
\* Where the record that is overwritten names others, they are excused: the launch was
\* crossed, or it found none.
NaOverwrites(p, t, i) ==
    lapsed' = IF my[p].rough \/ t \in met[p] THEN lapsed \cup (Na!Of(t) \ {i}) ELSE lapsed

LEMMA NaOverwritten ==
    ASSUME NaSupposed, NaInv, NEW p \in Racers, pc[p] = "register", NEW t, t = my[p].asked,
           NEW i, i = my[p].id, NaOverwrites(p, t, i)
    PROVE  /\ lapsed \subseteq lapsed' /\ lapsed' \subseteq standing
           /\ \A j \in Ids \ {i} : t \in tenants[j] =>
                 /\ Na!Names(t, j) => j \in lapsed'
                 /\ my[p].rough \/ t \in met[p] => j \in lapsed'
           /\ Formerly(t) /\ FormerIdOf[t] \in standing => FormerIdOf[t] \in lapsed'
  <1>1. t \in Triples /\ NaAbout(p) /\ NaTenancy /\ NaRecord(t) /\ NaFormer(t) /\ i = IdOf[t]
    BY NaCarries DEF NaInv, NaDisk, NaAbout, NaRun
  <1>2. Na!Of(t) \subseteq standing /\ \A j \in Ids : t \in tenants[j] <=> j \in Na!Of(t)
    BY <1>1 DEF Na!Of, NaTenancy
  <1>3. lapsed \subseteq lapsed' /\ lapsed' \subseteq standing
    BY <1>1, <1>2 DEF NaOverwrites, NaTenancy
  <1>4. ASSUME NEW j \in Ids \ {i}, t \in tenants[j], my[p].rough \/ t \in met[p] PROVE j \in lapsed'
    BY <1>2, <1>4 DEF NaOverwrites
  <1>5. ASSUME NEW j \in Ids \ {i}, t \in tenants[j], Na!Names(t, j) PROVE j \in lapsed'
    BY <1>1, <1>3, <1>4, <1>5 DEF NaAbout, NaSettled, NaLeft
  <1>6. ASSUME Formerly(t), FormerIdOf[t] \in standing PROVE FormerIdOf[t] \in lapsed'
    <2>1. /\ records[t].devpod = FormerIdOf[t] /\ FormerIdOf[t] \in Ids \ {i}
          /\ t \in tenants[FormerIdOf[t]]
      BY <1>1, <1>6, NaIds DEF NaRecord, NaFormer, Formerly
    <2>2. t \in tenants[FormerIdOf[t]] /\ Na!Names(t, FormerIdOf[t])
      BY <1>1, <1>6, <2>1 DEF NaTenancy, Na!Names, Formerly
    <2> QED
      BY <1>5, <2>1, <2>2
  <1> QED
    BY <1>3, <1>4, <1>5, <1>6

\* Its record is refused: what it knows, but not from the record.
LEMMA NaRefused ==
    ASSUME NaSupposed, NaInv, NEW p \in Racers, pc[p] = "register",
           NaOverwrites(p, my[p].asked, my[p].id), UNCHANGED <<records, clone, standing, tenants>>,
           Na!Goes(p, "up", [my[p] EXCEPT !.rough = TRUE])
    PROVE  NaInv'
  <1>0. PICK t, i : t = my[p].asked /\ i = my[p].id
    OBVIOUS
  <1>1. /\ t \in Triples /\ i = IdOf[t] /\ i \in Ids /\ Na!Launching(p) /\ my[p] \in NaMine
        /\ NaAbout(p) /\ NaLaunch(p) /\ NaOverwrites(p, t, i)
    BY <1>0, NaCarries, NaIds DEF NaAbout, NaRun
  <1> DEFINE m == [my[p] EXCEPT !.rough = TRUE]
  <1>2. /\ m \in NaMine /\ m.verb = my[p].verb /\ m.asked = t /\ m.id = i /\ m.rough
        /\ Na!Goes(p, "up", m)
    BY <1>0, <1>1 DEF NaMine
  <1> HIDE DEF m
  <1>3. NaWent(p, "up", m)
    BY <1>0, <1>1, <1>2, NaGoes DEF NaSteps
  <1>4. /\ lapsed \subseteq lapsed' /\ lapsed' \subseteq standing
        /\ Formerly(t) /\ FormerIdOf[t] \in standing => FormerIdOf[t] \in lapsed'
    BY <1>0, <1>1, NaOverwritten
  <1>5. NaShrinks
    BY <1>4 DEF NaShrinks
  <1>6. Na!TypeOK'
    BY <1>3, <1>4, NaTypes DEF NaInv, Na!TypeOK, NaSteps, NaMine, NaWent
  <1>7. NaVouched'
    <2>1. \A w \in Triples : NaDoomed(w)' => NaDoomed(w)
      BY <1>3, NaDoomKept DEF NaWent
    <2> QED
      BY <1>4, <2>1 DEF NaInv, NaVouched, NaVouches, Na!Names, Na!Leaf, Na!DirOf
  <1>8. NaAbout(p)'
    <2>1. NaFewerRecords /\ NaNoStrangers(p)
      BY <1>3, <1>5, NaDiskShrinks DEF NaWent
    <2>2. NaLaunch(p)'
      BY <1>0, <1>1, <1>2, <1>3, <2>1, NaLaunchKept DEF NaWent
    <2>3. NaSettled(p)'
      BY <1>1, <1>2, <1>3, <1>4 DEF NaWent, NaSettled, Formerly
    <2> QED
      BY <1>1, <1>2, <1>3, <2>2, <2>3 DEF NaWent, NaAbout, NaRun, NaEntering, NaFound, Na!Launching
  <1>9. \A q \in Racers \ {p} : pc[q] # "idle" => NaNoStrangers(q) /\ NaUntouched(q)
    BY <1>3, <1>5, NaDiskShrinks DEF NaWent, NaAside
  <1> QED
    BY <1>3, <1>5, <1>6, <1>7, <1>8, <1>9, NaDiskShrinks, NaActs DEF NaWent

LEMMA NaWritten ==
    ASSUME NaSupposed, NaInv, NEW p \in Racers, pc[p] = "register",
           NaOverwrites(p, my[p].asked, my[p].id), UNCHANGED <<clone, standing, tenants>>,
           records' = [records EXCEPT ![my[p].asked] = [leaf |-> my[p].id, devpod |-> my[p].id]],
           Na!Goes(p, "up", my[p])
    PROVE  NaInv'
  <1>0. PICK t, i : t = my[p].asked /\ i = my[p].id
    OBVIOUS
  <1>1. /\ t \in Triples /\ i = IdOf[t] /\ i \in Ids /\ Na!Launching(p) /\ my[p] \in NaMine
        /\ NaAbout(p) /\ NaLaunch(p) /\ NaOverwrites(p, t, i) /\ NaDisk /\ NaTenancy
    BY <1>0, NaCarries, NaIds DEF NaAbout, NaRun, NaInv, NaDisk
  <1>2. NaWent(p, "up", my[p])
    BY <1>1, NaGoes DEF NaSteps
  <1>3. /\ lapsed \subseteq lapsed' /\ lapsed' \subseteq standing
        /\ \A j \in Ids \ {i} : t \in tenants[j] =>
              /\ Na!Names(t, j) => j \in lapsed'
              /\ my[p].rough \/ t \in met[p] => j \in lapsed'
    BY <1>0, <1>1, NaOverwritten
  <1>4. /\ records' \in [Triples -> {Missing} \cup [leaf : Ids, devpod : Ids \cup {Missing}]]
        /\ records'[t] # Missing /\ records'[t].leaf = i /\ records'[t].devpod = i
        /\ \A w \in Triples \ {t} : records'[w] = records[w]
    <2>1. /\ [leaf |-> i, devpod |-> i] \in [leaf : Ids, devpod : Ids \cup {Missing}]
          /\ [leaf |-> i, devpod |-> i] # Missing
      BY <1>1 DEF NaSupposed, Na!NamesAssumption
    <2>2. records \in [Triples -> {Missing} \cup [leaf : Ids, devpod : Ids \cup {Missing}]]
      BY NaTypes DEF NaInv
    <2> QED
      BY <1>0, <1>1, <2>1, <2>2
  <1>5. Na!TypeOK'
    BY <1>2, <1>3, <1>4, NaTypes DEF NaInv, Na!TypeOK, NaSteps, NaMine, NaWent
  <1>6. ~Formerly(t)' /\ \A w \in Triples : Formerly(w)' => w # t /\ Formerly(w)
    BY <1>1, <1>4 DEF Formerly
  <1>7. ASSUME NEW v \in Triples, Formerly(v)', NEW w \in Triples \ {v}, Na!Holds(w, IdOf[v])'
        PROVE  Na!Holds(w, IdOf[v])
    <2>1. CASE w = t
      <3>1. IdOf[v] = i
        BY <1>1, <1>4, <1>7, <2>1 DEF Na!Holds
      <3> QED
        BY <1>0, <1>1, <1>6, <1>7, <2>1, <3>1 DEF NaLaunch
    <2>2. CASE w # t
      BY <1>4, <1>7, <2>2 DEF Na!Holds
    <2> QED
      BY <2>1, <2>2
  <1>8. NaFewerRecords
    BY <1>6, <1>7 DEF NaFewerRecords
  <1>9. NaDisk'
    <2>1. ASSUME NEW v \in Triples PROVE NaRecord(v)'
      BY <1>1, <1>4 DEF NaDisk, NaRecord
    <2>2. ASSUME NEW v \in Triples, Formerly(v)' PROVE NaFormer(v)'
      <3>1. v # t /\ Formerly(v) /\ NaFormer(v) /\ Na!Leaf(v)' = Na!Leaf(v)
        BY <1>1, <1>4, <1>6, <2>2 DEF NaDisk, Na!Leaf
      <3> QED
        BY <1>3, <1>7, <2>2, <3>1 DEF NaFormer
    <2>3. NaTenancy'
      BY <1>1, <1>3 DEF NaTenancy
    <2> QED
      BY <2>1, <2>2, <2>3 DEF NaDisk, NaFormer
  <1>10. NaVouched'
    <2> SUFFICES ASSUME NEW j \in standing \ lapsed' PROVE \E w \in Triples : NaVouches(w, j)'
      BY DEF NaVouched
    <2>1. j \in Ids /\ j \in standing \ lapsed
      BY <1>3, NaTypes DEF NaInv
    <2>2. PICK w \in Triples : NaVouches(w, j)
      BY <2>1 DEF NaInv, NaVouched
    <2>3. NaDoomed(w)' => NaDoomed(w)
      BY <1>2, NaDoomKept DEF NaWent
    <2>4. CASE w # t
      BY <1>4, <2>2, <2>3, <2>4 DEF NaVouches, Na!Names, Na!Leaf, Na!DirOf
    <2>5. CASE w = t
      <3>1. j = i
        BY <1>3, <2>1, <2>2, <2>5 DEF NaVouches
      <3>2. Na!Leaf(t) = i
        <4>1. Na!Leaf(t) \in {records[t].devpod, i} /\ records[t] # Missing
          BY <1>1, <2>2, <2>5 DEF NaDisk, NaRecord, NaVouches, Na!Names, Na!Leaf
        <4>2. CASE Formerly(t)
          BY <1>1, <2>1, <2>2, <2>5, <3>1, <4>2 DEF NaDisk, NaFormer, NaVouches
        <4> QED
          BY <1>1, <4>1, <4>2 DEF Formerly
      <3>3. Na!Names(t, i)' /\ Na!Leaf(t)' = i
        BY <1>4 DEF Na!Names, Na!Leaf
      <3> QED
        BY <1>4, <2>2, <2>3, <2>5, <3>1, <3>2, <3>3 DEF NaVouches, Na!DirOf, Na!Names, Na!Leaf
    <2> QED
      BY <2>4, <2>5
  <1>11. NaAbout(p)'
    <2>1. NaNoStrangers(p)
      BY <1>2, <1>3 DEF NaNoStrangers, NaWent
    <2>2. NaLaunch(p)'
      BY <1>0, <1>1, <1>2, <1>8, <2>1, NaLaunchKept DEF NaWent
    <2>3. ASSUME ~my[p].rough, t \notin met[p], NEW j \in Ids \ {i}, tenants[j] = {t}
          PROVE  j \in lapsed'
      <3>1. j \in standing /\ t \in tenants[j]
        BY <1>1, <2>3 DEF NaTenancy
      <3>2. j \notin lapsed => Na!Names(t, j)
        BY <2>3, <3>1 DEF NaInv, NaVouched, NaVouches
      <3> QED
        BY <1>3, <3>1, <3>2
    <2>4. pc'[p] = "up" /\ my'[p] = my[p] /\ met'[p] = met[p] /\ my'[p].asked = t /\ my'[p].id = i
      BY <1>0, <1>2 DEF NaWent
    <2>5. NaSettled(p)'
      BY <1>4, <1>6, <2>3, <2>4 DEF NaSettled, Formerly, Na!Leaf
    <2> QED
      BY <1>1, <2>2, <2>4, <2>5 DEF NaAbout, NaRun, NaEntering, NaFound, Na!Launching
  <1>12. ASSUME NEW q \in Racers \ {p}, pc[q] # "idle" PROVE NaNoStrangers(q) /\ NaUntouched(q)
    <2>1. t \in met[q] /\ met[q] \subseteq met'[q]
      BY <1>0, <1>1, <1>2, <1>12, NaMarked DEF NaWent, NaAside
    <2>2. NaNoStrangers(q)
      BY <1>3, <2>1 DEF NaNoStrangers
    <2>3. NaUntouched(q)
      BY <1>3, <1>4, <2>1 DEF NaUntouched
    <2> QED
      BY <2>2, <2>3
  <1> QED
    BY <1>2, <1>5, <1>8, <1>9, <1>10, <1>11, <1>12, NaActs DEF NaWent

LEMMA NaRegister == ASSUME NaSupposed, NaInv, NEW p \in Racers, Na!Register(p) PROVE NaInv'
  BY NaRefused, NaWritten DEF Na!Register, NaOverwrites

(***************************************************************************)
(* A launch comes into a workspace.                                        *)
(***************************************************************************)
\* Whoever has been in a workspace of the id that t derives where t has not, and vouches
\* for it, holds that id; so a record of t does not say what an older devlaunch gave it.
LEMMA NaComesAnew ==
    ASSUME NaSupposed, NaInv, NEW p \in Racers, pc[p] # "idle", Na!Launching(p),
           NEW t \in Triples, t = my[p].asked, IdOf[t] \in standing \ lapsed,
           t \notin tenants[IdOf[t]]
    PROVE  ~Formerly(t)
  <1>1. PICK w \in Triples : NaVouches(w, IdOf[t])
    BY DEF NaInv, NaVouched
  <1>2. w # t /\ Na!Holds(w, IdOf[t])
    BY <1>1 DEF NaVouches, Na!Names, Na!Holds
  <1> QED
    BY <1>2, NaCarries DEF NaAbout, NaLaunch

\* What a launch leaves as it comes into workspace i: where that stood, and its triple is
\* new to it, what the triple has elsewhere is excused.
NaComesIn(p, t, i) ==
    /\ UNCHANGED <<records, clone>>
    /\ tenants' = [tenants EXCEPT ![i] = @ \cup {t}]
    /\ standing' = standing \cup {i}
    /\ lapsed \subseteq lapsed' /\ lapsed' \subseteq standing'
    /\ i \in standing /\ t \notin tenants[i] =>
          \A j \in Ids : t \in tenants[j] => j \in lapsed'
    /\ i \notin standing => i = IdOf[t]

LEMMA NaDiskWider ==
    ASSUME NaSupposed, NaInv, NEW p \in Racers, pc[p] # "idle", Na!Launching(p),
           NEW t \in Triples, t = my[p].asked, NEW i \in Ids, NaComesIn(p, t, i),
           i = IdOf[t] \/ (t \in Older /\ i = FormerIdOf[t]),
           i \notin standing /\ Formerly(t) =>
               /\ FormerIdOf[t] \in standing => FormerIdOf[t] \in lapsed
               /\ Na!Leaf(t) = i \/ i \in lapsed'
    PROVE  NaDisk' /\ tenants' \in [Ids -> SUBSET Triples] /\ standing' \subseteq Ids
  <1>1. /\ tenants \in [Ids -> SUBSET Triples] /\ standing \subseteq Ids /\ lapsed \subseteq Ids
        /\ NaDisk /\ NaTenancy /\ NaLaunch(p) /\ IdOf[t] \in Ids
    BY NaTypes, NaCarries, NaIds DEF NaInv, NaDisk, NaAbout
  <1>2. /\ tenants'[i] = tenants[i] \cup {t}
        /\ \A j \in Ids \ {i} : tenants'[j] = tenants[j]
        /\ tenants' \in [Ids -> SUBSET Triples]
    BY <1>1 DEF NaComesIn
  <1>3. NaTenancy'
    <2>1. \A j \in Ids : tenants'[j] # {} <=> j \in standing'
      BY <1>1, <1>2 DEF NaTenancy, NaComesIn
    <2>2. \A j \in Ids : \A v \in tenants'[j] :
             j = IdOf[v] \/ (v \in Older /\ j = FormerIdOf[v])
      BY <1>1, <1>2 DEF NaTenancy
    <2> QED
      BY <2>1, <2>2 DEF NaTenancy, NaComesIn
  <1>4. \A v \in Triples : NaRecord(v)' /\ (Formerly(v)' <=> Formerly(v)) /\ Na!Leaf(v)' = Na!Leaf(v)
    BY <1>1 DEF NaDisk, NaRecord, Formerly, Na!Leaf, NaComesIn
  <1>5. ASSUME NEW v \in Triples, Formerly(v) PROVE NaFormer(v)'
    <2>1. /\ v \in Older /\ IdOf[v] \in Ids /\ FormerIdOf[v] \in Ids /\ FormerIdOf[v] # IdOf[v]
          /\ NaFormer(v)
      BY <1>1, <1>5, NaIds DEF Formerly, NaDisk, NaRecord
    <2>2. v # t => IdOf[t] \notin {IdOf[v], FormerIdOf[v]}
      BY <1>1, <1>5 DEF NaLaunch
    <2>3. i = FormerIdOf[v] => i \in standing
      BY <2>1, <2>2 DEF NaComesIn
    <2>4. FormerIdOf[v] \in standing' => v \in tenants'[FormerIdOf[v]]
      BY <1>2, <1>5, <2>1, <2>3 DEF NaFormer, NaComesIn
    <2>5. ASSUME v \in tenants[IdOf[v]]
          PROVE  /\ \A w \in Triples \ {v} : ~Na!Holds(w, IdOf[v])
                 /\ FormerIdOf[v] \in standing' => FormerIdOf[v] \in lapsed'
                 /\ Na!Leaf(v) = IdOf[v] \/ IdOf[v] \in lapsed'
      BY <1>5, <2>1, <2>5, <2>3 DEF NaFormer, NaComesIn
    <2>6. ASSUME v = t, i = IdOf[t], t \notin tenants[i]
          PROVE  /\ \A w \in Triples \ {v} : ~Na!Holds(w, IdOf[v])
                 /\ FormerIdOf[v] \in standing' => FormerIdOf[v] \in lapsed'
                 /\ Na!Leaf(v) = IdOf[v] \/ IdOf[v] \in lapsed'
      <3>1. \A w \in Triples \ {v} : ~Na!Holds(w, IdOf[v])
        BY <1>1, <1>5, <2>6 DEF NaLaunch
      <3>2. CASE i \notin standing
        BY <1>5, <2>1, <2>6, <3>1, <3>2 DEF NaComesIn
      <3>3. CASE i \in standing
        <4>1. i \in lapsed
          BY <1>5, <2>6, <3>3, NaComesAnew
        <4>2. FormerIdOf[t] \in standing => t \in tenants[FormerIdOf[t]]
          BY <1>1, <2>1, <2>6, <1>5 DEF NaFormer, NaTenancy
        <4> QED
          BY <2>1, <2>6, <3>1, <3>3, <4>1, <4>2 DEF NaComesIn
      <3> QED
        BY <3>2, <3>3
    <2>7. v \in tenants'[IdOf[v]] => v \in tenants[IdOf[v]] \/ (v = t /\ i = IdOf[t] /\ t \notin tenants[i])
      BY <1>2, <2>1
    <2>8. \A w \in Triples : Na!Holds(w, IdOf[v])' <=> Na!Holds(w, IdOf[v])
      BY DEF Na!Holds, NaComesIn
    <2> QED
      BY <1>4, <2>4, <2>5, <2>6, <2>7, <2>8 DEF NaFormer
  <1> QED
    BY <1>1, <1>2, <1>3, <1>4, <1>5 DEF NaDisk, NaFormer, NaComesIn

LEMMA NaComes ==
    ASSUME NaSupposed, NaInv, NEW p \in Racers, pc[p] # "idle", Na!Launching(p),
           NEW t \in Triples, t = my[p].asked, NEW i \in Ids, NaComesIn(p, t, i),
           i = IdOf[t] \/ (t \in Older /\ i = FormerIdOf[t]),
           i \notin standing /\ Formerly(t) =>
               /\ FormerIdOf[t] \in standing => FormerIdOf[t] \in lapsed
               /\ Na!Leaf(t) = i \/ i \in lapsed',
           i \notin standing /\ i \notin lapsed' =>
               Na!Leaf(t) = i /\ clone[Na!DirOf(t, i)] # Missing,
           Na!Ends(p)
    PROVE  NaInv'
  <1>1. /\ tenants \in [Ids -> SUBSET Triples] /\ standing \subseteq Ids /\ lapsed \subseteq Ids
        /\ NaDisk /\ NaTenancy /\ NaLaunch(p) /\ IdOf[t] \in Ids
    BY NaTypes, NaCarries, NaIds DEF NaInv, NaDisk, NaAbout
  <1>2. /\ tenants'[i] = tenants[i] \cup {t}
        /\ \A j \in Ids \ {i} : tenants'[j] = tenants[j]
    BY <1>1 DEF NaComesIn
  <1>3. /\ pc' \in [Racers -> NaSteps] /\ my' \in [Racers -> NaMine]
        /\ met' \in [Racers -> SUBSET (Triples \cup {Missing})]
        /\ UNCHANGED commands /\ pc'[p] = "idle" /\ NaAside(p) /\ NaBeside' /\ NaAbout(p)'
    BY NaEnds
  <1>4. NaDisk' /\ tenants' \in [Ids -> SUBSET Triples] /\ standing' \subseteq Ids
    BY NaDiskWider
  <1>5. Na!TypeOK'
    <2>1. lapsed' \subseteq Ids
      BY <1>4 DEF NaComesIn
    <2> QED
      BY <1>3, <1>4, <2>1, NaTypes DEF NaInv, Na!TypeOK, NaSteps, NaMine, NaComesIn
  <1>6. NaFewerRecords
    BY DEF NaFewerRecords, NaComesIn, Formerly, Na!Holds
  <1>7. ASSUME NEW q \in Racers \ {p}, pc[q] # "idle" PROVE NaNoStrangers(q) /\ NaUntouched(q)
    <2>1. t \in met[q] /\ met[q] \subseteq met'[q]
      BY <1>3, <1>7, NaMarked DEF NaAside
    <2>2. NaNoStrangers(q)
      <3> SUFFICES ASSUME NEW j \in standing' \ lapsed'
                   PROVE  \/ tenants'[j] \subseteq met'[q]
                          \/ /\ j \in standing \ lapsed
                             /\ tenants[j] \subseteq tenants'[j]
                             /\ tenants'[j] \subseteq tenants[j] \cup met'[q]
        BY DEF NaNoStrangers
      <3>1. CASE j # i
        BY <1>1, <1>2, <3>1 DEF NaComesIn
      <3>2. CASE j = i
        BY <1>1, <1>2, <2>1, <3>2 DEF NaComesIn, NaTenancy
      <3> QED
        BY <3>1, <3>2
    <2>3. \A u \in Triples \ met'[q], j \in Ids : u \in tenants'[j] =>
             u \in tenants[j] /\ (tenants'[j] = {u} => tenants[j] = {u})
      BY <1>1, <1>2, <2>1
    <2>4. ASSUME pc[q] = "up", NEW u \in Triples, my[q].asked = u, Formerly(u)',
                 FormerIdOf[u] \in standing'
          PROVE  FormerIdOf[u] \in standing
      <3>1. Formerly(u) /\ FormerIdOf[u] # IdOf[u] /\ u \in Older
        BY <1>1, <2>4 DEF Formerly, NaComesIn, NaDisk, NaRecord
      <3>2. u # t => IdOf[t] # FormerIdOf[u]
        BY <1>1, <3>1 DEF NaLaunch
      <3> QED
        BY <2>4, <3>1, <3>2 DEF NaComesIn
    <2>5. NaUntouched(q)
      BY <2>3, <2>4 DEF NaUntouched, NaComesIn
    <2> QED
      BY <2>2, <2>5
  <1>8. NaVouched'
    <2> SUFFICES ASSUME NEW j \in standing' \ lapsed' PROVE \E w \in Triples : NaVouches(w, j)'
      BY DEF NaVouched
    <2>0. j \in Ids
      BY <1>4
    <2>1. \A w \in Triples : NaDoomed(w)' => NaDoomed(w)
      BY <1>3, NaDoomKept
    <2>2. CASE j \in standing
      <3>1. PICK w \in Triples : NaVouches(w, j)
        BY <2>2 DEF NaInv, NaVouched, NaComesIn
      <3>2. w \in tenants'[j]
        BY <1>2, <2>0, <3>1 DEF NaVouches
      <3> QED
        BY <2>1, <3>1, <3>2 DEF NaVouches, Na!Names, Na!Leaf, Na!DirOf, NaComesIn
    <2>3. CASE j \notin standing
      <3>1. j = i /\ Na!Leaf(t) = i /\ clone[Na!DirOf(t, i)] # Missing
        BY <2>3 DEF NaComesIn
      <3>2. records[t] # Missing /\ records[t].leaf = i
        BY <3>1, NaIds DEF Na!Leaf
      <3>3. ~NaDoomed(t)
        <4> SUFFICES ASSUME NEW q \in Racers, pc[q] = "forget" PROVE t \notin my[q].stale \ met[q]
          BY DEF NaDoomed
        <4>1. q # p
          BY NaCarries DEF NaAbout, NaRun, Na!Launching
        <4> QED
          BY <4>1, NaMarked
      <3>4. t \in tenants'[j]
        BY <1>2, <3>1
      <3> QED
        BY <2>1, <3>1, <3>2, <3>3, <3>4 DEF NaVouches, Na!Names, Na!Leaf, Na!DirOf, NaComesIn
    <2> QED
      BY <2>2, <2>3
  <1> QED
    BY <1>3, <1>4, <1>5, <1>6, <1>7, <1>8, NaActs

LEMMA NaStrays ==
    ASSUME NaInv, NEW t \in Triples, NEW i \in Ids
    PROVE  /\ Na!Strays(t, i) \subseteq standing
           /\ i \in standing /\ t \notin tenants[i] =>
                 \A j \in Ids : t \in tenants[j] => j \in Na!Strays(t, i)
           /\ i \notin standing => Na!Strays(t, i) = {}
  BY DEF Na!Strays, Na!Of, NaInv, NaDisk, NaTenancy

LEMMA NaAttach == ASSUME NaSupposed, NaInv, NEW p \in Racers, Na!Attach(p) PROVE NaInv'
  <1>0. PICK t, i : t = my[p].asked /\ i = my[p].id
    OBVIOUS
  <1>1. /\ pc[p] = "attach" /\ Na!Launching(p) /\ t \in Triples /\ i \in Ids /\ i \in standing
        /\ i = IdOf[t] \/ (t \in Older /\ i = FormerIdOf[t])
        /\ tenants' = [tenants EXCEPT ![i] = @ \cup {t}] /\ Na!Ends(p)
        /\ lapsed' = lapsed \cup Na!Strays(t, i)
        /\ UNCHANGED <<records, clone, standing>>
    BY <1>0, NaCarries, NaIds DEF Na!Attach, Na!Enters, NaAbout, NaRun
  <1>2. NaComesIn(p, t, i)
    BY <1>1, NaStrays DEF NaComesIn, NaInv, NaDisk, NaTenancy
  <1> QED
    BY <1>0, <1>1, <1>2, NaComes

LEMMA NaUp == ASSUME NaSupposed, NaInv, NEW p \in Racers, Na!Up(p) PROVE NaInv'
  <1>0. PICK t, i : t = my[p].asked /\ i = my[p].id
    OBVIOUS
  <1>1. /\ pc[p] = "up" /\ Na!Launching(p) /\ t \in Triples /\ i \in Ids /\ i = IdOf[t]
        /\ tenants' = [tenants EXCEPT ![i] = @ \cup {t}] /\ Na!Ends(p)
        /\ lapsed' = IF i \in standing \/ Na!Leaf(t) = i THEN lapsed \cup Na!Strays(t, i)
                     ELSE IF my[p].rough \/ {t, Missing} \cap met[p] # {}
                          THEN lapsed \cup {i} ELSE lapsed
        /\ UNCHANGED <<records, clone>> /\ standing' = standing \cup {i}
        /\ clone[Na!DirOf(t, i)] # Missing /\ NaSettled(p)
    BY <1>0, NaCarries, NaIds DEF Na!Up, Na!Enters, NaAbout, NaRun
  <1>2. NaComesIn(p, t, i)
    BY <1>1, NaStrays DEF NaComesIn, NaInv, NaDisk, NaTenancy
  <1>3. i \notin standing /\ Formerly(t) =>
           /\ FormerIdOf[t] \in standing => FormerIdOf[t] \in lapsed
           /\ Na!Leaf(t) = i \/ i \in lapsed'
    BY <1>0, <1>1 DEF NaSettled
  <1>4. i \notin standing /\ i \notin lapsed' => Na!Leaf(t) = i
    BY <1>0, <1>1 DEF NaSettled
  <1> QED
    BY <1>0, <1>1, <1>2, <1>3, <1>4, NaComes

(***************************************************************************)
(* What older devlaunches left.                                            *)
(***************************************************************************)
LEMMA NaInit == ASSUME NaSupposed PROVE Na!Init => NaInv
  <1> SUFFICES ASSUME Na!Init PROVE NaInv
    OBVIOUS
  <1>1. PICK old \in SUBSET Older, moved \in SUBSET Older :
          LET leaf(t) == IF t \in moved THEN IdOf[t] ELSE FormerIdOf[t]
          IN  /\ \A t, u \in old :
                    Na!DirOf(t, leaf(t)) = Na!DirOf(u, leaf(u)) => t = u
              /\ records = [t \in Triples |->
                    IF t \in old THEN [leaf |-> leaf(t), devpod |-> FormerIdOf[t]] ELSE Missing]
              /\ clone = [d \in Na!Dir |->
                    IF \E t \in old : d = Na!DirOf(t, leaf(t))
                    THEN CHOOSE t \in old : d = Na!DirOf(t, leaf(t)) ELSE Missing]
              /\ standing = {FormerIdOf[t] : t \in old}
              /\ tenants = [i \in Ids |-> {t \in old : FormerIdOf[t] = i}]
    BY DEF Na!Init
  <1> DEFINE leaf(t) == IF t \in moved THEN IdOf[t] ELSE FormerIdOf[t]
             rec(t) == [leaf |-> leaf(t), devpod |-> FormerIdOf[t]]
  <1>2. /\ lapsed = {} /\ pc = [p \in Racers |-> "idle"]
        /\ my = [p \in Racers |-> Na!Idle] /\ met = [p \in Racers |-> {}] /\ commands = 0
    BY DEF Na!Init
  <1>3. \A t \in old : /\ t \in Older /\ t \in Triples /\ FormerIdOf[t] \in Ids /\ leaf(t) \in Ids
                       /\ Na!DirOf(t, leaf(t)) \in Na!Dir
    BY DEF NaSupposed, Na!NamesAssumption, Na!DirOf, Na!Dir
  <1>4. ASSUME NEW d \in Na!Dir, NEW t \in old, d = Na!DirOf(t, leaf(t)) PROVE clone[d] \in old
    BY <1>1, <1>4
  <1>5. clone \in [Na!Dir -> Triples \cup {Missing}]
    BY <1>1, <1>3, <1>4
  <1>6. ASSUME NEW t \in old
        PROVE  /\ records[t] = rec(t) /\ rec(t) # Missing
               /\ records[t].leaf = leaf(t) /\ records[t].devpod = FormerIdOf[t]
               /\ rec(t) \in [leaf : Ids, devpod : Ids \cup {Missing}]
    <2>1. records[t] = rec(t)
      BY <1>1, <1>3
    <2>2. rec(t) \in [leaf : Ids, devpod : Ids]
      BY <1>3
    <2> QED
      BY <1>3, <2>1, <2>2 DEF NaSupposed, Na!NamesAssumption
  <1>7. records \in [Triples -> {Missing} \cup [leaf : Ids, devpod : Ids \cup {Missing}]]
    BY <1>1, <1>6
  <1>8. \A t \in Triples : records[t] # Missing => t \in old
    BY <1>1
  <1>9. /\ standing \subseteq Ids /\ tenants \in [Ids -> SUBSET Triples]
        /\ \A i \in Ids : tenants[i] = {t \in old : FormerIdOf[t] = i}
    BY <1>1, <1>3
  <1>10. Na!TypeOK
    BY <1>2, <1>5, <1>7, <1>9, NaIdle DEF Na!TypeOK, NaMine, NaSupposed, Na!BoundAssumption
  <1>11. NaTenancy
    BY <1>1, <1>2, <1>3, <1>9 DEF NaTenancy
  <1>12. ASSUME NEW t \in Triples PROVE NaRecord(t) /\ NaFormer(t)
    <2>1. CASE t \in old
      <3>1. /\ records[t].leaf \in {IdOf[t], FormerIdOf[t]}
            /\ records[t].devpod = FormerIdOf[t] /\ t \in Older /\ FormerIdOf[t] \in Ids
        BY <1>3, <1>6, <2>1
      <3>2. NaRecord(t)
        BY <3>1 DEF NaRecord
      <3>3. t \in tenants[FormerIdOf[t]]
        BY <1>9, <2>1, <3>1
      <3>4. FormerIdOf[t] # IdOf[t] => t \notin tenants[IdOf[t]]
        BY <1>9, NaIds
      <3>5. NaFormer(t)
        BY <3>1, <3>3, <3>4 DEF NaFormer, Formerly
      <3> QED
        BY <3>2, <3>5
    <2>2. CASE t \notin old
      BY <1>8, <2>2 DEF NaRecord, NaFormer, Formerly
    <2> QED
      BY <2>1, <2>2
  <1>13. NaVouched
    <2> SUFFICES ASSUME NEW i \in standing PROVE \E w \in Triples : NaVouches(w, i)
      BY DEF NaVouched
    <2>1. PICK t \in old : i = FormerIdOf[t]
      BY <1>1
    <2>2. t \in tenants[i] /\ t \in Triples
      BY <1>3, <1>9, <2>1
    <2>3. Na!Names(t, i) /\ Na!Leaf(t) = leaf(t)
      BY <1>6, <2>1 DEF Na!Names, Na!Leaf
    <2>4. clone[Na!DirOf(t, leaf(t))] # Missing
      BY <1>3, <1>4, NaIds
    <2>5. ~NaDoomed(t)
      BY <1>2 DEF NaDoomed
    <2> QED
      BY <2>2, <2>3, <2>4, <2>5 DEF NaVouches
  <1>14. NaBeside /\ \A p \in Racers : NaAbout(p)
    BY <1>2, NaRests DEF NaBeside
  <1> QED
    BY <1>10, <1>11, <1>12, <1>13, <1>14 DEF NaInv, NaDisk

LEMMA NaStep == ASSUME NaSupposed PROVE NaInv /\ [Na!Next]_Na!vars => NaInv'
  <1> SUFFICES ASSUME NaInv, [Na!Next]_Na!vars PROVE NaInv'
    OBVIOUS
  <1>1. CASE UNCHANGED Na!vars
    <2>1. UNCHANGED <<Na!disk, commands, pc, my, met>>
      BY <1>1 DEF Na!vars, Na!disk
    <2>2. Na!TypeOK' /\ NaBeside'
      BY <2>1 DEF NaInv, Na!TypeOK, Na!disk, NaBeside
    <2>3. NaDisk' /\ NaVouched'
      BY <2>1, NaDiskKept, NaVouchedKept DEF NaInv, NaDoomed
    <2>4. ASSUME NEW p \in Racers PROVE NaAbout(p)'
      <3>1. NaAbout(p)
        BY NaCarries
      <3> QED
        BY <2>1, <3>1 DEF NaAbout, NaRun, NaLaunch, NaEntering, NaSettled, NaFound, NaShared, NaLeft,
           Formerly, Na!Holds, Na!Leaf, Na!Names, Na!Launching, Na!disk
    <2> QED
      BY <2>2, <2>3, <2>4 DEF NaInv
  <1>2. ASSUME NEW p \in Racers,
               \/ \E t \in Triples :
                     Na!Launch(p, t) \/ \E verb \in Na!Removals : Na!Remove(p, t, verb)
               \/ \E i \in Ids, verb \in Na!Removals : Na!RemoveById(p, i, verb)
               \/ Na!Plan(p) \/ Na!Stop(p)
        PROVE  NaInv'
    BY <1>2, NaLaunches, NaRemove, NaRemoveById, NaPlan, NaStop
  <1>3. ASSUME NEW p \in Racers,
               \/ Na!AskDerived(p) \/ Na!AskRecorded(p) \/ Na!GiveUpAsking(p)
               \/ Na!Prepare(p) \/ Na!Register(p) \/ Na!Attach(p) \/ Na!Up(p)
        PROVE  NaInv'
    BY <1>3, NaAskDerived, NaAskRecorded, NaGiveUpAsking, NaPrepare, NaRegister, NaAttach, NaUp
  <1>4. ASSUME NEW p \in Racers,
               \/ Na!Look(p) \/ Na!Delete(p) \/ Na!RemoveClone(p) \/ Na!Unrecord(p)
               \/ Na!Forget(p)
        PROVE  NaInv'
    BY <1>4, NaLook, NaDelete, NaRemoveClone, NaUnrecord, NaForget
  <1> QED
    BY <1>1, <1>2, <1>3, <1>4 DEF Na!Next

LEMMA NaMeans == ASSUME NaInv PROVE Na!NamesSafe
  <1>1. Na!VouchedFor
    BY DEF NaInv, NaVouched, NaVouches, Na!VouchedFor
  <1>2. Na!OneTenant
    <2> SUFFICES ASSUME NEW p \in Racers, pc[p] \in {"attach", "up"},
                        my[p].id \in standing \ lapsed
                 PROVE  my[p].asked \in tenants[my[p].id] \/ tenants[my[p].id] \subseteq met[p]
      BY DEF Na!OneTenant
    <2>1. NaAbout(p)
      BY DEF NaInv
    <2> QED
      BY <2>1 DEF NaAbout, NaRun, NaLaunch, NaEntering, NaShared
  <1>3. Na!OneWorkspace
    <2> SUFFICES ASSUME NEW p \in Racers, pc[p] = "up", ~my[p].rough, met[p] = {},
                        NEW i \in Ids \ {my[p].id}, tenants[i] = {my[p].asked}
                 PROVE  i \in lapsed
      BY DEF Na!OneWorkspace
    <2> QED
      BY DEF NaInv, NaAbout, NaSettled
  <1> QED
    BY <1>1, <1>2, <1>3 DEF NaInv, Na!NamesSafe

\* However the ids of triples collide, now or with what an older devlaunch gave them, and
\* however launches, removals and prunes overlap: a workspace that is not excused has a
\* record that names it, of a triple that has been in it (prepare_workspace, remove_clone);
\* a launch comes into no other triple's that was not launched beside it
\* (colliding_record); and none makes a second workspace for a triple that has one, where
\* devpod answers and nobody is beside it (resolve_known_workspace).
THEOREM NamesLeadHome == Spec => [](part = "addresses" => Na!NamesSafe)
  <1> DEFINE OwnInv == part = "addresses" => NaInv
  <1>1. Init => OwnInv
    BY StartsAsOne, NaGiven, NaInit
  <1>2. OwnInv /\ [Next]_vars => OwnInv'
    BY StepsAsOne, NaGiven, NaStep
  <1>3. OwnInv => (part = "addresses" => Na!NamesSafe)
    BY NaMeans
  <1> QED
    BY <1>1, <1>2, <1>3, PTL DEF Spec

\* Both halves: what reconcile writes down leads to its branch's own clone and a prune
\* spares what a listed workspace opens, and names lead to workspaces and back
\* (apply_reconciliation, prune_clones, colliding_record, resolve_known_workspace).
THEOREM ReconcileIsSafe == Spec => ReconcileSafe
  <1> DEFINE Home  == part = "addresses" => Na!NamesSafe
             Adopt == part = "clones" => /\ Rc!TypeOK /\ Rc!IdsLeadHome
                                         /\ Rc!AdoptsTheFree /\ Rc!ListedKeepTheirClones
             Both  == Adopt /\ (part = "addresses" => Na!NamesSafe')
  <1>1. [Next]_vars /\ [Adopt]_vars /\ Home' => [Both]_vars
    BY StepsAsOne
  <1> QED
    BY <1>1, AdoptionsLeadHome, NamesLeadHome, PTL DEF Spec, ReconcileSafe
=============================================================================
