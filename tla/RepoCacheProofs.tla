--------------------------- MODULE RepoCacheProofs --------------------------
(***************************************************************************)
(* Theorems about RepoCache, for every set of processes, branches and      *)
(* workspaces and every bound: the types and who holds the repo lock, that *)
(* a cache with its HEAD stands, what a launch has in hand when its scope  *)
(* of the lock ends while no workspace is being removed, that no work is   *)
(* removed but what was reported, and that commands which come one at a    *)
(* time strand nothing.                                                    *)
(***************************************************************************)
EXTENDS MCRepoCache, TLAPS

(***************************************************************************)
(* What one step of one process does to pc, my and lock.                   *)
(***************************************************************************)
LEMMA UntoldType == Untold \in Mine
  <1>1. (CHOOSE w \in Ws : TRUE) \in Ws
    BY BranchAssumption
  <1> QED
    BY <1>1 DEF Untold, Mine, Verb, Commit

LEMMA GotoFacts ==
    ASSUME Types, NEW p \in Process, NEW step \in Step, Goto(p, step)
    PROVE  /\ pc' \in [Process -> Step]
           /\ pc'[p] = step
           /\ \A q \in Process : q # p => pc'[q] = pc[q]
  BY DEF Types, Goto

LEMMA EndFacts ==
    ASSUME Types, NEW p \in Process, End(p)
    PROVE  /\ pc' \in [Process -> Step] /\ my' \in [Process -> Mine]
           /\ lock' \in Process \cup {Nobody}
           /\ pc'[p] = "idle"
           /\ lock' = IF lock = p THEN Nobody ELSE lock
           /\ \A q \in Process : q # p => pc'[q] = pc[q] /\ my'[q] = my[q]
  BY UntoldType DEF Types, End, Goto, Unlock, Step

\* Only p's place and p's baggage change.
Others(p) == \A q \in Process : q # p => pc'[q] = pc[q] /\ my'[q] = my[q]

Takes(p)  == /\ lock = Nobody /\ lock' = p
             /\ pc[p] \notin Section /\ pc'[p] \in Section
Leaves(p) == /\ lock' = IF lock = p THEN Nobody ELSE lock
             /\ pc'[p] \notin Section
Stays(p)  == lock' = lock /\ (pc'[p] \in Section <=> pc[p] \in Section)

\* One step of p, as LockHeld sees it.
Moves(p) == Others(p) /\ (Takes(p) \/ Leaves(p) \/ Stays(p))

LEMMA LockStep ==
    ASSUME LockHeld, NEW p \in Process, Moves(p)
    PROVE  LockHeld'
  <1> SUFFICES ASSUME NEW q \in Process
               PROVE  lock' = q <=> pc'[q] \in Section
    BY DEF LockHeld
  <1>1. CASE Takes(p)
    BY <1>1, NobodyAssumption DEF LockHeld, Takes, Moves, Others
  <1>2. CASE Leaves(p)
    BY <1>2, NobodyAssumption DEF LockHeld, Leaves, Moves, Others
  <1>3. CASE Stays(p)
    BY <1>3 DEF LockHeld, Stays, Moves, Others
  <1> QED
    BY <1>1, <1>2, <1>3 DEF Moves

LEMMA EndMoves ==
    ASSUME Types, NEW p \in Process, End(p)
    PROVE  Moves(p)
  BY EndFacts DEF Moves, Others, Leaves, Section

\* The steps that carry something down: each field with a value of its type.
LEMMA MyFacts ==
    ASSUME Types, NEW p \in Process, NEW r \in Mine, my' = [my EXCEPT ![p] = r]
    PROVE  /\ my' \in [Process -> Mine] /\ my'[p] = r
           /\ \A q \in Process : q # p => my'[q] = my[q]
  BY DEF Types

LEMMA AskStep ==
    ASSUME Types, NEW p \in Process, NEW verb \in Verb, NEW w \in Ws,
           NEW force \in BOOLEAN, NEW step \in Step \ Section,
           Ask(p, verb, w, force, step)
    PROVE  Types' /\ Moves(p)
  <1> DEFINE r == [Untold EXCEPT !.verb = verb, !.ws = w, !.force = force,
                                 !.knows = entry, !.noted = noted,
                                 !.asked = forge[w], !.old = Working,
                                 !.seen = listed]
  <1>1. r \in Mine
    <2>1. forge[w] \in Commit /\ Working \subseteq Ws
      BY BranchAssumption DEF Types, Working
    <2> QED
      BY <2>1, UntoldType DEF Types, Mine
  <1>2. my' = [my EXCEPT ![p] = r] /\ Goto(p, step) /\ pc[p] = "idle"
    BY DEF Ask
  <1>3. /\ my' \in [Process -> Mine] /\ pc' \in [Process -> Step]
        /\ pc'[p] = step /\ Others(p)
    <2> HIDE DEF r
    <2>1. my' \in [Process -> Mine] /\ \A q \in Process : q # p => my'[q] = my[q]
      BY <1>1, <1>2, MyFacts
    <2>2. /\ pc' \in [Process -> Step] /\ pc'[p] = step
          /\ \A q \in Process : q # p => pc'[q] = pc[q]
      BY <1>2, GotoFacts
    <2> QED
      BY <2>1, <2>2 DEF Others
  <1>4. /\ UNCHANGED <<forge, bare, refs, entry, tree, noted, listed, lock, commits, crashes>>
        /\ commands' \in Nat
    BY DEF Ask, disk, Types
  <1> QED
    <2>1. Types'
      BY <1>3, <1>4 DEF Types
    <2>2. Stays(p)
      BY <1>2, <1>3, <1>4 DEF Stays, Section
    <2> QED
      BY <2>1, <2>2, <1>3 DEF Moves

\* The process, its baggage and the lock are where a step may leave them.
Placed == /\ pc' \in [Process -> Step] /\ my' \in [Process -> Mine]
          /\ lock' \in Process \cup {Nobody}

LEMMA EndPlaced ==
    ASSUME Types, NEW p \in Process, End(p)
    PROVE  Moves(p) /\ Placed
  BY EndFacts, EndMoves DEF Placed

LEMMA GotoPlaced ==
    ASSUME Types, NEW p \in Process, NEW step \in Step, Goto(p, step),
           UNCHANGED <<my, lock>>, step \in Section <=> pc[p] \in Section
    PROVE  Moves(p) /\ Placed
  <1>1. /\ pc' \in [Process -> Step] /\ pc'[p] = step
        /\ \A q \in Process : q # p => pc'[q] = pc[q]
    BY GotoFacts
  <1> QED
    BY <1>1 DEF Moves, Others, Stays, Placed, Types

LEMMA CarryPlaced ==
    ASSUME Types, NEW p \in Process, NEW step \in Step, Goto(p, step),
           UNCHANGED lock, step \in Section <=> pc[p] \in Section,
           NEW r \in Mine, my' = [my EXCEPT ![p] = r]
    PROVE  Moves(p) /\ Placed
  <1>1. /\ pc' \in [Process -> Step] /\ pc'[p] = step
        /\ \A q \in Process : q # p => pc'[q] = pc[q]
    BY GotoFacts
  <1>2. my' \in [Process -> Mine] /\ \A q \in Process : q # p => my'[q] = my[q]
    BY MyFacts
  <1> QED
    BY <1>1, <1>2 DEF Moves, Others, Stays, Placed, Types

LEMMA WithCachePlaced ==
    ASSUME Types, NEW p \in Process, pc[p] \in Section, WithCache(p)
    PROVE  Moves(p) /\ Placed
  <1>1. CASE Launching(p)
    <2>1. Goto(p, "fetch") /\ UNCHANGED <<my, lock>>
      BY <1>1 DEF WithCache
    <2> QED
      BY <2>1, GotoPlaced DEF Step, Section
  <1>2. CASE ~Launching(p)
    BY <1>2, EndPlaced DEF WithCache
  <1> QED
    BY <1>1, <1>2

LEMMA AcquireStep ==
    ASSUME Types, NEW p \in Process, NEW at \in Step \ Section,
           NEW step \in Section, Acquire(p, at, step)
    PROVE  Types' /\ Moves(p)
  <1>1. CASE lock = Nobody /\ lock' = p /\ Goto(p, step) /\ UNCHANGED my
    <2>1. step \in Step
      BY DEF Section, Step
    <2>2. /\ pc' \in [Process -> Step] /\ pc'[p] = step
          /\ \A q \in Process : q # p => pc'[q] = pc[q]
      BY <1>1, <2>1, GotoFacts
    <2>3. Moves(p) /\ Placed
      BY <1>1, <2>2 DEF Moves, Others, Takes, Placed, Types, Acquire
    <2> QED
      BY <2>3 DEF Types, Placed, Acquire, disk, counts
  <1>2. CASE End(p)
    BY <1>2, EndPlaced DEF Types, Placed, Acquire, disk, counts
  <1> QED
    BY <1>1, <1>2 DEF Acquire

LEMMA CheckStep ==
    ASSUME Types, NEW p \in Process, Check(p)
    PROVE  Types' /\ Moves(p)
  <1>1. pc[p] = "check" /\ pc[p] \in Section
    BY DEF Check, Section
  <1>2. bare' \in {"none", "noHead", "head"}
    BY DEF Check, Types
  <1>3. Moves(p) /\ Placed
    <2>1. CASE WithCache(p)
      BY <1>1, <2>1, WithCachePlaced
    <2>2. CASE Goto(p, "record") /\ UNCHANGED <<my, lock>>
      BY <1>1, <2>2, GotoPlaced DEF Step, Section
    <2>3. CASE Goto(p, "clone") /\ UNCHANGED <<my, lock>>
      BY <1>1, <2>3, GotoPlaced DEF Step, Section
    <2>4. CASE End(p)
      BY <2>4, EndPlaced
    <2> QED
      BY <2>1, <2>2, <2>3, <2>4 DEF Check
  <1> QED
    BY <1>2, <1>3 DEF Types, Placed, Check, counts

LEMMA CloneStep ==
    ASSUME Types, NEW p \in Process, Clone(p)
    PROVE  Types' /\ Moves(p)
  <1>1. pc[p] = "clone" /\ pc[p] \in Section
    BY DEF Clone, Section
  <1>2. bare' \in {"none", "noHead", "head"} /\ refs' \in [Branch -> Commit]
    BY DEF Clone, Types
  <1>3. Moves(p) /\ Placed
    <2>1. CASE Goto(p, "record") /\ UNCHANGED <<my, lock>>
      BY <1>1, <2>1, GotoPlaced DEF Step, Section
    <2>2. CASE End(p)
      BY <2>2, EndPlaced
    <2> QED
      BY <2>1, <2>2 DEF Clone
  <1> QED
    BY <1>2, <1>3 DEF Types, Placed, Clone, counts

LEMMA RecordStep ==
    ASSUME Types, NEW p \in Process, Record(p)
    PROVE  Types' /\ Moves(p)
  <1>1. pc[p] \in Section /\ entry' \in BOOLEAN
    BY DEF Record, Section, Types
  <1>2. Moves(p) /\ Placed
    BY <1>1, WithCachePlaced, EndPlaced DEF Record
  <1> QED
    BY <1>1, <1>2 DEF Types, Placed, Record, counts

LEMMA FetchStep ==
    ASSUME Types, NEW p \in Process, Fetch(p)
    PROVE  Types' /\ Moves(p)
  <1>1. pc[p] \in Section /\ my[p] \in Mine /\ my[p].ws \in Branch
    BY BranchAssumption DEF Fetch, Section, Types, Mine
  <1>2. refs' \in [Branch -> Commit]
    BY <1>1 DEF Fetch, Types
  <1>3. Moves(p) /\ Placed
    <2>1. CASE End(p)
      BY <2>1, EndPlaced
    <2>2. CASE /\ my' = [my EXCEPT ![p].fetched = TRUE]
               /\ Goto(p, "cut") /\ UNCHANGED lock
      <3>1. [my[p] EXCEPT !.fetched = TRUE] \in Mine
        BY <1>1 DEF Mine
      <3>2. my' = [my EXCEPT ![p] = [my[p] EXCEPT !.fetched = TRUE]]
        BY <2>2 DEF Types
      <3> QED
        BY <1>1, <2>2, <3>1, <3>2, CarryPlaced DEF Step, Section
    <2>3. CASE Goto(p, "base") /\ UNCHANGED <<my, lock>>
      BY <1>1, <2>3, GotoPlaced DEF Step, Section
    <2>4. CASE Goto(p, "cut") /\ UNCHANGED <<my, lock>>
      BY <1>1, <2>4, GotoPlaced DEF Step, Section
    <2> QED
      BY <2>1, <2>2, <2>3, <2>4 DEF Fetch
  <1> QED
    BY <1>2, <1>3 DEF Types, Placed, Fetch, counts

LEMMA StartPointType ==
    ASSUME NEW p \in Process
    PROVE  StartPoint(p) \in Branch
  BY BranchAssumption DEF StartPoint

LEMMA FetchBaseStep ==
    ASSUME Types, NEW p \in Process, FetchBase(p)
    PROVE  Types' /\ Moves(p)
  <1> DEFINE b == StartPoint(p)
  <1>1. pc[p] \in Section /\ my[p] \in Mine /\ b \in Branch
    BY StartPointType DEF FetchBase, Section, Types
  <1>2. refs' \in [Branch -> Commit] /\ forge[b] \in Commit
    BY <1>1 DEF FetchBase, Types
  <1>3. Moves(p) /\ Placed
    <2>1. CASE End(p)
      BY <2>1, EndPlaced
    <2>2. CASE /\ my' = [my EXCEPT ![p].base = forge[b]]
               /\ Goto(p, "cut") /\ UNCHANGED lock
      <3>1. [my[p] EXCEPT !.base = forge[b]] \in Mine
        BY <1>1, <1>2 DEF Mine
      <3>2. my' = [my EXCEPT ![p] = [my[p] EXCEPT !.base = forge[b]]]
        BY <2>2 DEF Types
      <3> QED
        BY <1>1, <2>2, <3>1, <3>2, CarryPlaced DEF Step, Section
    <2>3. CASE Goto(p, "cut") /\ UNCHANGED <<my, lock>>
      BY <1>1, <2>3, GotoPlaced DEF Step, Section
    <2> QED
      BY <2>1, <2>2, <2>3 DEF FetchBase
  <1> QED
    BY <1>2, <1>3 DEF Types, Placed, FetchBase, counts

LEMMA CutStep ==
    ASSUME Types, NEW p \in Process, Cut(p)
    PROVE  Types' /\ Moves(p)
  <1>1. pc[p] \in Section /\ my[p].ws \in Branch /\ StartPoint(p) \in Branch
    BY StartPointType, BranchAssumption DEF Cut, Section, Types, Mine
  <1>2. refs' \in [Branch -> Commit]
    BY <1>1 DEF Cut, Types
  <1>3. Moves(p) /\ Placed
    <2>1. CASE Goto(p, "look") /\ UNCHANGED <<my, lock>>
      BY <1>1, <2>1, GotoPlaced DEF Step, Section
    <2> QED
      BY <2>1, EndPlaced DEF Cut
  <1> QED
    BY <1>2, <1>3 DEF Types, Placed, Cut, counts

LEMMA LookStep ==
    ASSUME Types, NEW p \in Process, Look(p)
    PROVE  Types' /\ Moves(p)
  <1>1. pc[p] \in Section /\ my[p] \in Mine
    BY DEF Look, Section, Types
  <1>2. Moves(p) /\ Placed
    <2>1. CASE Goto(p, "checkout") /\ UNCHANGED my
      BY <1>1, <2>1, GotoPlaced DEF Look, Step, Section
    <2>2. CASE Goto(p, "tree") /\ my' = [my EXCEPT ![p].new = TRUE]
      <3>1. [my[p] EXCEPT !.new = TRUE] \in Mine
        BY <1>1 DEF Mine
      <3>2. my' = [my EXCEPT ![p] = [my[p] EXCEPT !.new = TRUE]]
        BY <2>2 DEF Types
      <3> QED
        BY <1>1, <2>2, <3>1, <3>2, CarryPlaced DEF Look, Step, Section
    <2> QED
      BY <2>1, <2>2 DEF Look
  <1> QED
    BY <1>2 DEF Types, Placed, Look, disk, counts

\* What is put in place of a clone is a clone directory.
LEMMA LeftType == \A at \in At : Left(at) \in Tree
  BY DEF Left, Tree, Commit

LEMMA ClonedType ==
    ASSUME Types, NEW w \in Ws
    PROVE  Cloned(w) \in Tree
  BY BranchAssumption, LfsAssumption DEF Types, Cloned, Tree, At

LEMMA PartsType ==
    ASSUME NEW t \in Tree, NEW part \in Parts(t)
    PROVE  part \in Tree
  BY LeftType DEF Parts, Tree, At

LEMMA PutType ==
    ASSUME Types, NEW w \in Ws, NEW t \in Tree, Put(w, t)
    PROVE  /\ tree' \in [Ws -> Tree] /\ tree'[w] = t
           /\ \A v \in Ws : v # w => tree'[v] = tree[v]
  BY DEF Types, Put

LEMMA CloneTreeStep ==
    ASSUME Types, NEW p \in Process, CloneTree(p)
    PROVE  Types' /\ Moves(p)
  <1>1. pc[p] \in Section /\ my[p].ws \in Ws
    BY DEF CloneTree, Section, Types, Mine
  <1>2. CASE Put(my[p].ws, Cloned(my[p].ws)) /\ Goto(p, "repoint") /\ UNCHANGED <<my, lock>>
    <2>1. tree' \in [Ws -> Tree]
      BY <1>1, <1>2, ClonedType, PutType
    <2>2. Moves(p) /\ Placed
      BY <1>1, <1>2, GotoPlaced DEF Step, Section
    <2> QED
      BY <2>1, <2>2 DEF Types, Placed, CloneTree, counts
  <1>3. ASSUME NEW at \in {"none", "husk"}, Put(my[p].ws, Left(at)), End(p)
        PROVE  Types' /\ Moves(p)
    <2>1. tree' \in [Ws -> Tree]
      BY <1>1, <1>3, LeftType, PutType DEF At
    <2>2. Moves(p) /\ Placed
      BY <1>3, EndPlaced
    <2> QED
      BY <2>1, <2>2 DEF Types, Placed, CloneTree, counts
  <1> QED
    BY <1>2, <1>3 DEF CloneTree

LEMMA RepointStep ==
    ASSUME Types, NEW p \in Process, Repoint(p)
    PROVE  Types' /\ Moves(p)
  <1>1. pc[p] \in Section /\ my[p].ws \in Ws
    BY DEF Repoint, Section, Types, Mine
  <1>2. tree' \in [Ws -> Tree]
    BY <1>1 DEF Repoint, Types, Tree
  <1>3. Moves(p) /\ Placed
    <2>1. CASE Goto(p, "checkout") /\ UNCHANGED <<my, lock>>
      BY <1>1, <2>1, GotoPlaced DEF Step, Section
    <2> QED
      BY <2>1, EndPlaced DEF Repoint
  <1> QED
    BY <1>2, <1>3 DEF Types, Placed, Repoint, counts

\* The three fields of a clone that a step sets in place.
LEMMA TreeFieldType ==
    ASSUME Types, NEW w \in Ws,
           \/ tree' = [tree EXCEPT ![w].out = TRUE]
           \/ tree' = [tree EXCEPT ![w].pointers = FALSE]
           \/ tree' = [tree EXCEPT ![w].work = TRUE]
    PROVE  tree' \in [Ws -> Tree]
  <1>1. tree[w] \in Tree
    BY DEF Types
  <1>2. /\ [tree[w] EXCEPT !.out = TRUE] \in Tree
        /\ [tree[w] EXCEPT !.pointers = FALSE] \in Tree
        /\ [tree[w] EXCEPT !.work = TRUE] \in Tree
    BY <1>1 DEF Tree
  <1>3. \/ tree' = [tree EXCEPT ![w] = [tree[w] EXCEPT !.out = TRUE]]
        \/ tree' = [tree EXCEPT ![w] = [tree[w] EXCEPT !.pointers = FALSE]]
        \/ tree' = [tree EXCEPT ![w] = [tree[w] EXCEPT !.work = TRUE]]
    BY DEF Types
  <1> QED
    BY <1>2, <1>3 DEF Types

LEMMA CheckoutStep ==
    ASSUME Types, NEW p \in Process, Checkout(p)
    PROVE  Types' /\ Moves(p)
  <1>1. pc[p] \in Section /\ my[p].ws \in Ws
    BY DEF Checkout, Section, Types, Mine
  <1>2. tree' \in [Ws -> Tree]
    <2>1. CASE UNCHANGED tree
      BY <2>1 DEF Types
    <2>2. CASE tree' = [tree EXCEPT ![my[p].ws].out = TRUE]
      BY <1>1, <2>2, TreeFieldType
    <2> QED
      BY <2>1, <2>2 DEF Checkout
  <1>3. Moves(p) /\ Placed
    <2>1. CASE Goto(p, "lfs") /\ UNCHANGED <<my, lock>>
      BY <1>1, <2>1, GotoPlaced DEF Step, Section
    <2> QED
      BY <2>1, EndPlaced DEF Checkout
  <1> QED
    BY <1>2, <1>3 DEF Types, Placed, Checkout, counts

LEMMA MaterializeStep ==
    ASSUME Types, NEW p \in Process, Materialize(p)
    PROVE  Types' /\ Moves(p)
  <1>1. pc[p] \in Section /\ my[p] \in Mine /\ my[p].ws \in Ws
    BY DEF Materialize, Section, Types, Mine
  <1>2. tree' \in [Ws -> Tree]
    <2>1. CASE UNCHANGED tree
      BY <2>1 DEF Types
    <2>2. CASE tree' = [tree EXCEPT ![my[p].ws].pointers = FALSE]
      BY <1>1, <2>2, TreeFieldType
    <2> QED
      BY <2>1, <2>2 DEF Materialize
  <1>3. Moves(p) /\ Placed
    <2>1. CASE Goto(p, "note") /\ UNCHANGED <<my, lock>>
      BY <1>1, <2>1, GotoPlaced DEF Step, Section
    <2>2. CASE my' = [my EXCEPT ![p].blind = TRUE] /\ Goto(p, "note") /\ UNCHANGED lock
      <3>1. [my[p] EXCEPT !.blind = TRUE] \in Mine
        BY <1>1 DEF Mine
      <3>2. my' = [my EXCEPT ![p] = [my[p] EXCEPT !.blind = TRUE]]
        BY <2>2 DEF Types
      <3> QED
        BY <1>1, <2>2, <3>1, <3>2, CarryPlaced DEF Step, Section
    <2> QED
      BY <2>1, <2>2, EndPlaced DEF Materialize
  <1> QED
    BY <1>2, <1>3 DEF Types, Placed, Materialize, counts

LEMMA NoteStep ==
    ASSUME Types, NEW p \in Process, Note(p)
    PROVE  Types' /\ Moves(p)
  <1>1. /\ pc' \in [Process -> Step] /\ pc'[p] = "up"
        /\ \A q \in Process : q # p => pc'[q] = pc[q]
    BY GotoFacts DEF Note, Step
  <1>2. noted' \subseteq Ws
    BY DEF Note, Types, Mine
  <1>3. Moves(p) /\ Placed
    BY <1>1 DEF Moves, Others, Leaves, Placed, Types, Note, Unlock, Section
  <1> QED
    BY <1>2, <1>3 DEF Types, Placed, Note, counts

LEMMA UpStep ==
    ASSUME Types, NEW p \in Process, Up(p)
    PROVE  Types' /\ Moves(p)
  <1>1. listed' \subseteq Ws
    BY DEF Up, Types, Mine
  <1> QED
    BY <1>1, EndPlaced DEF Types, Placed, Up, disk, counts

(***************************************************************************)
(* The sweep, the prune and the removal.                                   *)
(***************************************************************************)
LEMMA TryLockStep ==
    ASSUME Types, NEW p \in Process, TryLock(p)
    PROVE  Types' /\ Moves(p)
  <1>1. CASE lock = Nobody /\ lock' = p /\ Goto(p, "sweep") /\ UNCHANGED my
    <2>1. /\ pc' \in [Process -> Step] /\ pc'[p] = "sweep"
          /\ \A q \in Process : q # p => pc'[q] = pc[q]
      BY <1>1, GotoFacts DEF Step
    <2>2. Moves(p) /\ Placed
      BY <1>1, <2>1 DEF Moves, Others, Takes, Placed, Types, TryLock, Section
    <2> QED
      BY <2>2 DEF Types, Placed, TryLock, disk, counts
  <1>2. CASE End(p)
    BY <1>2, EndPlaced DEF Types, Placed, TryLock, disk, counts
  <1> QED
    BY <1>1, <1>2 DEF TryLock

LEMMA SweepStep ==
    ASSUME Types, NEW p \in Process, Sweep(p)
    PROVE  Types' /\ Moves(p)
  <1>1. refs' \in [Branch -> Commit]
    BY DEF Sweep, Types
  <1> QED
    BY <1>1, EndPlaced DEF Types, Placed, Sweep, counts

LEMMA PlanStep ==
    ASSUME Types, NEW p \in Process, Plan(p)
    PROVE  Types' /\ Moves(p)
  <1>1. my[p] \in Mine /\ Goto(p, "confirm") /\ UNCHANGED lock /\ pc[p] = "plan"
    BY DEF Types, Plan
  <1>2. PICK refused \in SUBSET Ws :
          LET stands == {w \in Orphaned(p) : Stands(w) \/ w \in refused}
              forced == IF my[p].force THEN stands ELSE {}
          IN my' = [my EXCEPT
                      ![p].plan = (Orphaned(p) \ stands) \cup forced,
                      ![p].promoted = forced, ![p].objected = stands,
                      ![p].forget = {w \in my[p].noted : tree[w].at = "none"}]
    BY DEF Plan
  <1> DEFINE stands == {w \in Orphaned(p) : Stands(w) \/ w \in refused}
             forced == IF my[p].force THEN stands ELSE {}
             planned == (Orphaned(p) \ stands) \cup forced
             stale == {w \in my[p].noted : tree[w].at = "none"}
             r == [my[p] EXCEPT !.plan = planned, !.promoted = forced,
                                !.objected = stands, !.forget = stale]
  <1>3. /\ stands \in SUBSET Ws /\ forced \in SUBSET Ws
        /\ planned \in SUBSET Ws /\ stale \in SUBSET Ws
    BY <1>1 DEF Orphaned, Mine
  <1>4. my' = [my EXCEPT ![p].plan = planned, ![p].promoted = forced,
                         ![p].objected = stands, ![p].forget = stale]
    BY <1>2
  <1> HIDE DEF planned, forced, stands, stale
  <1>5. r \in Mine
    BY <1>1, <1>3 DEF Mine
  <1>6. my' = [my EXCEPT ![p] = r]
    BY <1>4 DEF Types
  <1> HIDE DEF r
  <1>7. Moves(p) /\ Placed
    BY <1>1, <1>5, <1>6, CarryPlaced DEF Step, Section
  <1> QED
    BY <1>7 DEF Types, Placed, Plan, disk, counts

LEMMA ConfirmStep ==
    ASSUME Types, NEW p \in Process, Confirm(p)
    PROVE  Types' /\ Moves(p)
  <1>1. Moves(p) /\ Placed
    <2>1. CASE Goto(p, "relist") /\ UNCHANGED <<my, lock>> /\ pc[p] = "confirm"
      BY <2>1, GotoPlaced DEF Step, Section
    <2> QED
      BY <2>1, EndPlaced DEF Confirm
  <1> QED
    BY <1>1 DEF Types, Placed, Confirm, disk, counts

LEMMA RelistStep ==
    ASSUME Types, NEW p \in Process, Relist(p)
    PROVE  Types' /\ Moves(p)
  <1> DEFINE there == {w \in my[p].noted : tree[w].at # "none"}
             r == [my[p] EXCEPT !.seen = listed, !.old = Working, !.noted = there]
  <1>1. CASE /\ my' = [my EXCEPT ![p].seen = listed, ![p].old = Working,
                                  ![p].noted = {w \in @ : tree[w].at # "none"}]
             /\ Goto(p, IF my[p].plan = {} THEN "forget" ELSE "relock")
             /\ UNCHANGED lock
    <2>1. my[p] \in Mine /\ pc[p] = "relist"
      BY DEF Types, Relist
    <2>2. there \in SUBSET Ws /\ Working \in SUBSET Ws /\ listed \in SUBSET Ws
      BY <2>1 DEF Types, Mine, Working
    <2>3. my' = [my EXCEPT ![p] = r]
      BY <1>1 DEF Types
    <2> HIDE DEF there
    <2>4. r \in Mine
      BY <2>1, <2>2 DEF Mine
    <2>5. PICK step \in {"forget", "relock"} : Goto(p, step)
      BY <1>1
    <2> HIDE DEF r
    <2> QED
      BY <1>1, <2>1, <2>3, <2>4, <2>5, CarryPlaced
      DEF Step, Section, Types, Placed, Relist, disk, counts
  <1>2. CASE End(p)
    BY <1>2, EndPlaced DEF Types, Placed, Relist, disk, counts
  <1> QED
    BY <1>1, <1>2 DEF Relist

LEMMA ForgetStep ==
    ASSUME Types, NEW p \in Process, Forget(p)
    PROVE  Types' /\ Moves(p)
  <1>1. pc[p] = "forget" /\ my[p] \in Mine /\ noted' \subseteq Ws
    BY DEF Forget, Types
  <1>2. CASE my[p].forget = {}
    BY <1>1, <1>2, EndPlaced DEF Types, Placed, Forget, counts
  <1>3. CASE my[p].forget # {}
    <2>1. PICK w \in my[p].forget :
            my' = [my EXCEPT ![p].forget = @ \ {w}] /\ UNCHANGED <<pc, lock>>
      BY <1>3 DEF Forget
    <2> DEFINE r == [my[p] EXCEPT !.forget = my[p].forget \ {w}]
    <2>2. r \in Mine
      BY <1>1 DEF Mine
    <2>3. my' = [my EXCEPT ![p] = r]
      BY <2>1 DEF Types
    <2> HIDE DEF r
    <2>4. Moves(p) /\ Placed
      BY <2>1, <2>2, <2>3, MyFacts DEF Moves, Others, Stays, Placed, Types
    <2> QED
      BY <1>1, <2>4 DEF Types, Placed, Forget, counts
  <1> QED
    BY <1>2, <1>3

LEMMA DeleteStep ==
    ASSUME Types, NEW p \in Process, Delete(p)
    PROVE  Types' /\ Moves(p)
  <1>1. listed' \subseteq Ws /\ pc[p] = "delete"
    BY DEF Delete, Types
  <1>2. Moves(p) /\ Placed
    <2>1. CASE Goto(p, "drop") /\ UNCHANGED <<my, lock>>
      BY <1>1, <2>1, GotoPlaced DEF Step, Section
    <2> QED
      BY <2>1, EndPlaced DEF Delete
  <1> QED
    BY <1>1, <1>2 DEF Types, Placed, Delete, disk, counts

LEMMA DropStep ==
    ASSUME Types, NEW p \in Process, Drop(p)
    PROVE  Types' /\ Moves(p)
  <1>1. pc[p] = "drop" /\ my[p] \in Mine /\ my[p].ws \in Ws
    BY DEF Drop, Types, Mine
  <1>2. tree' \in [Ws -> Tree]
    <2>1. CASE UNCHANGED tree
      BY <2>1 DEF Types
    <2>2. CASE Put(my[p].ws, Left("none"))
      BY <1>1, <2>2, LeftType, PutType DEF At
    <2>3. CASE \E part \in Parts(tree[my[p].ws]) : Put(my[p].ws, part)
      BY <1>1, <2>3, PartsType, PutType DEF Types
    <2> QED
      BY <2>1, <2>2, <2>3 DEF Drop
  <1>3. Moves(p) /\ Placed
    <2>1. CASE /\ my' = [my EXCEPT ![p].forget = {my[p].ws}]
               /\ Goto(p, "forget") /\ UNCHANGED lock
      <3>1. [my[p] EXCEPT !.forget = {my[p].ws}] \in Mine
        BY <1>1 DEF Mine
      <3>2. my' = [my EXCEPT ![p] = [my[p] EXCEPT !.forget = {my[p].ws}]]
        BY <2>1 DEF Types
      <3> QED
        BY <1>1, <2>1, <3>1, <3>2, CarryPlaced DEF Step, Section
    <2> QED
      BY <2>1, EndPlaced DEF Drop
  <1> QED
    BY <1>2, <1>3 DEF Types, Placed, Drop, counts

LEMMA RemoveStep ==
    ASSUME Types, NEW p \in Process, Remove(p)
    PROVE  Types' /\ Moves(p)
  <1>1. pc[p] = "remove" /\ my[p] \in Mine /\ my[p].plan \subseteq Ws
    BY DEF Remove, Types, Mine
  <1>2. PICK w \in my[p].plan :
          \E dropped \in SUBSET Ws :
            /\ my' = [my EXCEPT ![p].plan = @ \ {w}, ![p].forget = @ \cup dropped]
            /\ \/ Put(w, Left("none"))
               \/ \E part \in Parts(tree[w]) : Put(w, part)
               \/ UNCHANGED tree
    <2> DEFINE left(w, dropped) ==
                 my' = [my EXCEPT ![p].plan = @ \ {w}, ![p].forget = @ \cup dropped]
    <2>1. PICK w \in my[p].plan :
            \/ Put(w, Left("none")) /\ left(w, {w} \cap my[p].noted)
            \/ (\E part \in Parts(tree[w]) : Put(w, part)) /\ left(w, {})
            \/ UNCHANGED tree /\ left(w, {})
      BY Zenon DEF Remove
    <2>2. {w} \cap my[p].noted \in SUBSET Ws /\ {} \in SUBSET Ws
      BY <1>1 DEF Mine
    <2> HIDE DEF left
    <2>3. \E dropped \in SUBSET Ws :
            /\ left(w, dropped)
            /\ \/ Put(w, Left("none"))
               \/ \E part \in Parts(tree[w]) : Put(w, part)
               \/ UNCHANGED tree
      BY <2>1, <2>2, Zenon
    <2> QED
      BY <2>3 DEF left
  <1>3. PICK dropped \in SUBSET Ws :
            my' = [my EXCEPT ![p].plan = @ \ {w}, ![p].forget = @ \cup dropped]
    BY <1>2
  <1>4. w \in Ws /\ tree[w] \in Tree
    BY <1>1 DEF Types
  <1>5. tree' \in [Ws -> Tree]
    <2>1. CASE Put(w, Left("none"))
      BY <1>4, <2>1, LeftType, PutType DEF At
    <2>2. CASE \E part \in Parts(tree[w]) : Put(w, part)
      BY <1>4, <2>2, PartsType, PutType
    <2>3. CASE UNCHANGED tree
      BY <2>3 DEF Types
    <2> QED
      BY <1>2, <2>1, <2>2, <2>3
  <1> DEFINE r == [my[p] EXCEPT !.plan = my[p].plan \ {w},
                                !.forget = my[p].forget \cup dropped]
  <1>6. r \in Mine
    BY <1>1 DEF Mine
  <1>7. my' = [my EXCEPT ![p] = r]
    BY <1>3 DEF Types
  <1> HIDE DEF r
  <1>8. my' \in [Process -> Mine] /\ \A q \in Process : q # p => my'[q] = my[q]
    BY <1>6, <1>7, MyFacts
  <1>9. Moves(p) /\ Placed
    <2>1. CASE Goto(p, "forget") /\ Unlock(p)
      <3>1. /\ pc' \in [Process -> Step] /\ pc'[p] = "forget"
            /\ \A q \in Process : q # p => pc'[q] = pc[q]
        BY <2>1, GotoFacts DEF Step
      <3> QED
        BY <1>8, <2>1, <3>1 DEF Moves, Others, Leaves, Placed, Types, Unlock, Section
    <2>2. CASE UNCHANGED <<pc, lock>>
      BY <1>8, <2>2 DEF Moves, Others, Stays, Placed, Types
    <2> QED
      BY <2>1, <2>2 DEF Remove
  <1> QED
    BY <1>5, <1>9 DEF Types, Placed, Remove, counts

LEMMA PushStep ==
    ASSUME Types, LockHeld, NEW b \in Branch, Push(b)
    PROVE  Types' /\ LockHeld'
  BY DEF Types, LockHeld, Push, disk, Commit

LEMMA EditStep ==
    ASSUME Types, LockHeld, NEW w \in Ws, Edit(w)
    PROVE  Types' /\ LockHeld'
  <1>1. tree' \in [Ws -> Tree]
    BY TreeFieldType DEF Edit
  <1> QED
    BY <1>1 DEF Types, LockHeld, Edit, counts

LEMMA CrashStep ==
    ASSUME Types, NEW p \in Process, Crash(p)
    PROVE  Types' /\ Moves(p)
  <1>1. Moves(p) /\ Placed
    BY EndPlaced DEF Crash
  <1>2. my[p].ws \in Ws
    BY DEF Types, Mine
  <1>3. /\ bare' \in {"none", "noHead", "head"} /\ refs' \in [Branch -> Commit]
        /\ tree' \in [Ws -> Tree]
    <2>1. CASE UNCHANGED <<bare, refs, tree>>
      BY <2>1 DEF Types
    <2>2. CASE /\ bare' \in {"noHead", "head"}
               /\ refs' = [b \in Branch |-> 0] /\ UNCHANGED tree
      BY <2>2 DEF Types, Commit
    <2>3. CASE /\ \E at \in {"husk", "hollow"} : Put(my[p].ws, Left(at))
               /\ UNCHANGED <<bare, refs>>
      BY <1>2, <2>3, LeftType, PutType DEF Types, At
    <2>4. CASE Put(my[p].ws, Cloned(my[p].ws)) /\ UNCHANGED <<bare, refs>>
      BY <1>2, <2>4, ClonedType, PutType DEF Types
    <2> QED
      BY <2>1, <2>2, <2>3, <2>4 DEF Crash, Halfway
  <1>4. /\ UNCHANGED <<forge, entry, noted, listed, commits, commands>>
        /\ crashes' \in Nat
    BY DEF Crash, Types
  <1> QED
    BY <1>1, <1>3, <1>4 DEF Types, Placed

(***************************************************************************)
(* The beginnings of the commands.                                         *)
(***************************************************************************)
Begin(p) ==
    \/ \E w \in Ws : BeginLaunch(p, w) \/ BeginRemove(p, w)
    \/ BeginEnsure(p) \/ BeginSweep(p) \/ BeginPrune(p)

LEMMA BeginAsks ==
    ASSUME NEW p \in Process, Begin(p)
    PROVE  \E verb \in Verb, w \in Ws, force \in BOOLEAN, step \in Step \ Section :
             /\ Ask(p, verb, w, force, step)
             /\ step \in {"delete", "drop"} => verb \in {"rm", "kill"}
  <1> DEFINE Asks(verb, w, force, step) ==
               /\ Ask(p, verb, w, force, step)
               /\ step \in {"delete", "drop"} => verb \in {"rm", "kill"}
  <1>1. {"lock", "try", "plan", "delete"} \subseteq Step \ Section
    BY DEF Step, Section
  <1>2. {"launch", "from", "ensure", "sweep", "prune", "rm", "kill"} \subseteq Verb
    BY DEF Verb
  <1>3. Untold.ws \in Ws
    BY UntoldType DEF Mine
  <1>4. CASE \E w \in Ws : BeginLaunch(p, w)
    <2>1. PICK w \in Ws, verb \in {"launch", "from"} : Ask(p, verb, w, FALSE, "lock")
      BY <1>4 DEF BeginLaunch
    <2>2. Asks(verb, w, FALSE, "lock")
      BY <2>1
    <2> QED
      BY <1>1, <1>2, <2>2
  <1>5. CASE \E w \in Ws : BeginRemove(p, w)
    <2>1. PICK w \in Ws, force \in BOOLEAN :
             Ask(p, "rm", w, force, "delete") \/ Ask(p, "kill", w, force, "delete")
      BY <1>5 DEF BeginRemove
    <2>2. Asks("rm", w, force, "delete") \/ Asks("kill", w, force, "delete")
      BY <2>1
    <2> QED
      BY <1>1, <1>2, <2>2
  <1>6. CASE BeginEnsure(p)
    <2>1. Asks("ensure", Untold.ws, FALSE, "lock")
      BY <1>6 DEF BeginEnsure
    <2> QED
      BY <1>1, <1>2, <1>3, <2>1
  <1>7. CASE BeginSweep(p)
    <2>1. Asks("sweep", Untold.ws, FALSE, "try")
      BY <1>7 DEF BeginSweep
    <2> QED
      BY <1>1, <1>2, <1>3, <2>1
  <1>8. CASE BeginPrune(p)
    <2>1. PICK force \in BOOLEAN : Asks("prune", Untold.ws, force, "plan")
      BY <1>8 DEF BeginPrune
    <2> QED
      BY <1>1, <1>2, <1>3, <2>1
  <1> QED
    BY <1>4, <1>5, <1>6, <1>7, <1>8 DEF Begin

LEMMA BeginStep ==
    ASSUME Types, NEW p \in Process, Begin(p)
    PROVE  Types' /\ Moves(p)
  BY BeginAsks, AskStep

\* Every step one process takes, by any action of the specification.
Acts(p) ==
    \/ Begin(p)
    \/ Acquire(p, "lock", "check") \/ Launch(p)
    \/ TryLock(p) \/ Sweep(p)
    \/ Prune(p)
    \/ Delete(p) \/ Drop(p)
    \/ Crash(p)

LEMMA NextSplits ==
    ASSUME Next
    PROVE  \/ \E p \in Process : Acts(p)
           \/ \E b \in Branch : Push(b)
           \/ \E w \in Ws : Edit(w)
  BY DEF Next, Acts, Begin

LEMMA ActsStep ==
    ASSUME Types, NEW p \in Process, Acts(p)
    PROVE  Types' /\ Moves(p)
  <1>1. /\ {"lock", "relock"} \subseteq Step \ Section
        /\ {"check", "remove"} \subseteq Section
    BY DEF Step, Section
  <1>2. CASE Launch(p)
    BY <1>2, CheckStep, CloneStep, RecordStep, FetchStep, FetchBaseStep, CutStep,
       LookStep, CloneTreeStep, RepointStep, CheckoutStep, MaterializeStep,
       NoteStep, UpStep
    DEF Launch
  <1>3. CASE Prune(p)
    BY <1>1, <1>3, PlanStep, ConfirmStep, RelistStep, AcquireStep, RemoveStep,
       ForgetStep
    DEF Prune
  <1> QED
    BY <1>1, <1>2, <1>3, BeginStep, AcquireStep, TryLockStep, SweepStep,
       DeleteStep, DropStep, CrashStep
    DEF Acts

(***************************************************************************)
(* The type invariant, and mutual exclusion of the repo lock's scope.      *)
(***************************************************************************)
LEMMA TypeInit == Init => TypeOK
  <1> SUFFICES ASSUME Init PROVE TypeOK
    OBVIOUS
  <1>1. Left("none") \in Tree
    BY LeftType DEF At
  <1>2. Types
    <2>1. forge \in [Branch -> {0, 1}] /\ forge \in [Branch -> Commit]
      BY DEF Init, Commit
    <2>2. refs \in [Branch -> Commit] /\ tree \in [Ws -> Tree]
      BY <1>1 DEF Init, Commit
    <2>3. pc \in [Process -> Step] /\ my \in [Process -> Mine]
      BY UntoldType DEF Init, Step
    <2> QED
      BY <2>1, <2>2, <2>3 DEF Init, Types
  <1>3. LockHeld
    BY NobodyAssumption DEF Init, LockHeld, Section
  <1> QED
    BY <1>2, <1>3 DEF TypeOK

LEMMA TypeStep == TypeOK /\ [Next]_vars => TypeOK'
  <1> SUFFICES ASSUME Types, LockHeld, [Next]_vars PROVE Types' /\ LockHeld'
    BY DEF TypeOK
  <1>1. ASSUME NEW p \in Process, Acts(p) PROVE Types' /\ LockHeld'
    BY <1>1, ActsStep, LockStep
  <1>2. CASE UNCHANGED vars
    BY <1>2 DEF Types, LockHeld, vars, disk, counts
  <1> QED
    BY <1>1, <1>2, NextSplits, PushStep, EditStep

\* Every variable keeps its type, and the repo lock is held by exactly the one
\* process inside its scope, however commands are refused or killed: what every
\* "under the lock" of repo_manager.rs and workspace_clone.rs leans on.
THEOREM TypeCorrect == Spec => []TypeOK
  BY TypeInit, TypeStep, PTL DEF Spec

(***************************************************************************)
(* A cache with its HEAD stands.  What the step to a removal or a clone    *)
(* relies on is what Check saw, and nobody else touches the cache while p  *)
(* is in the scope of the lock.                                            *)
(***************************************************************************)
CloneFree == \A p \in Process : pc[p] = "clone" => bare # "head"

\* The actions that leave the cache alone.
Quiet(p) ==
    \/ Begin(p) \/ Acquire(p, "lock", "check")
    \/ Record(p) \/ Fetch(p) \/ FetchBase(p) \/ Cut(p)
    \/ Look(p) \/ CloneTree(p) \/ Repoint(p) \/ Checkout(p)
    \/ Materialize(p) \/ Note(p) \/ Up(p)
    \/ TryLock(p) \/ Sweep(p) \/ Prune(p) \/ Delete(p) \/ Drop(p)

LEMMA Leads ==
    ASSUME Types, NEW p \in Process, NEW step \in Step,
           Goto(p, step) \/ End(p)
    PROVE  pc'[p] \in {step, "idle"}
  BY GotoFacts, EndFacts

LEMMA QuietStep ==
    ASSUME Types, NEW p \in Process, Quiet(p)
    PROVE  bare' = bare /\ pc'[p] # "clone"
  <1>1. CASE Begin(p)
    <2>1. PICK verb \in Verb, w \in Ws, force \in BOOLEAN, step \in Step \ Section :
             Ask(p, verb, w, force, step)
      BY <1>1, BeginAsks
    <2> QED
      BY <2>1, Leads DEF Ask, disk, Section
  <1>2. CASE Acquire(p, "lock", "check")
    BY <1>2, Leads DEF Acquire, disk, Step
  <1>3. CASE Record(p)
    BY <1>3, Leads DEF Record, WithCache, Step
  <1>4. CASE Fetch(p)
    BY <1>4, Leads DEF Fetch, Step
  <1>5. CASE FetchBase(p)
    BY <1>5, Leads DEF FetchBase, Step
  <1>6. CASE Cut(p)
    BY <1>6, Leads DEF Cut, Step
  <1>7. CASE Look(p)
    BY <1>7, Leads DEF Look, disk, Step
  <1>8. CASE CloneTree(p)
    BY <1>8, Leads DEF CloneTree, Step
  <1>9. CASE Repoint(p) \/ Checkout(p) \/ Materialize(p)
    BY <1>9, Leads DEF Repoint, Checkout, Materialize, Step
  <1>10. CASE Note(p) \/ Up(p) \/ TryLock(p) \/ Sweep(p)
    BY <1>10, Leads DEF Note, Up, TryLock, Sweep, disk, Step
  <1>11. CASE Plan(p) \/ Confirm(p) \/ Acquire(p, "relock", "remove")
    BY <1>11, Leads DEF Plan, Confirm, Acquire, disk, Step
  <1>12. CASE Relist(p)
    BY <1>12, Leads DEF Relist, disk, Step
  <1>13. CASE Remove(p)
    BY <1>13, Leads DEF Remove, Step
  <1>14. CASE Forget(p)
    BY <1>14, Leads DEF Forget, Step
  <1>15. CASE Delete(p) \/ Drop(p)
    BY <1>15, Leads DEF Delete, Drop, disk, Step
  <1> QED
    BY <1>1, <1>2, <1>3, <1>4, <1>5, <1>6, <1>7, <1>8, <1>9, <1>10, <1>11,
       <1>12, <1>13, <1>14, <1>15
    DEF Quiet, Prune

LEMMA BareStep ==
    ASSUME Types, NEW p \in Process, Acts(p), pc[p] = "clone" => bare # "head"
    PROVE  /\ bare = "head" => bare' = "head"
           /\ pc'[p] = "clone" => bare' # "head"
           /\ pc[p] \notin Section => bare' = bare
  <1>1. CASE Quiet(p)
    BY <1>1, QuietStep
  <1>2. CASE Check(p)
    <2>1. pc'[p] = "clone" => Goto(p, "clone")
      BY <1>2, Leads DEF Check, WithCache, Step
    <2>2. Goto(p, "clone") => bare' # "head"
      BY <1>2, GotoFacts, Leads DEF Check, WithCache, Step
    <2> QED
      BY <1>2, <2>1, <2>2 DEF Check, Section
  <1>3. CASE Clone(p)
    BY <1>3, Leads DEF Clone, Step, Section
  <1>4. CASE Crash(p)
    BY <1>4, EndFacts DEF Crash, Halfway, Section
  <1> QED
    BY <1>1, <1>2, <1>3, <1>4 DEF Acts, Quiet, Launch

LEMMA CacheStep ==
    TypeOK /\ CloneFree /\ [Next]_vars =>
        CloneFree' /\ (bare = "head" => bare' = "head")
  <1> SUFFICES ASSUME Types, LockHeld, CloneFree, [Next]_vars
               PROVE  CloneFree' /\ (bare = "head" => bare' = "head")
    BY DEF TypeOK
  <1>1. ASSUME NEW p \in Process, Acts(p)
        PROVE  CloneFree' /\ (bare = "head" => bare' = "head")
    <2>1. /\ bare = "head" => bare' = "head"
          /\ pc'[p] = "clone" => bare' # "head"
          /\ pc[p] \notin Section => bare' = bare
      BY <1>1, BareStep DEF CloneFree
    <2>2. Others(p)
      BY <1>1, ActsStep DEF Moves
    <2>3. ASSUME NEW q \in Process, q # p, pc[q] = "clone"
          PROVE  bare' # "head"
      <3>1. pc[p] \notin Section
        BY <2>3 DEF LockHeld, Section
      <3> QED
        BY <2>1, <2>3, <3>1 DEF CloneFree
    <2> QED
      BY <2>1, <2>2, <2>3 DEF CloneFree, Others
  <1>2. CASE UNCHANGED vars
    BY <1>2 DEF CloneFree, vars, disk
  <1>3. CASE (\E b \in Branch : Push(b)) \/ (\E w \in Ws : Edit(w))
    BY <1>3 DEF CloneFree, Push, Edit, disk
  <1> QED
    BY <1>1, <1>2, <1>3, NextSplits

\* A cache that has its HEAD is never removed and never cloned over, by any
\* number of processes killed at any step: clone_repo and register_existing.
THEOREM CacheNeverLost == Spec => CacheStands
  <1>1. Init => CloneFree
    BY DEF Init, CloneFree
  <1>2. TypeOK /\ CloneFree /\ [Next]_vars => CloneFree'
    BY CacheStep
  <1>3. TypeOK /\ CloneFree /\ [Next]_vars => [bare = "head" => bare' = "head"]_vars
    BY CacheStep
  <1> QED
    BY <1>1, <1>2, <1>3, TypeCorrect, PTL DEF Spec, CacheStands

(***************************************************************************)
(* What a launch has in hand, step by step of its scope, when nothing      *)
(* removes a workspace (rm and kill take no repo lock).                    *)
(***************************************************************************)
Fresh(p) ==
    /\ pc[p] \in {"lock", "check", "clone", "record", "fetch", "base", "cut", "look"}
         => ~my[p].new
    /\ pc[p] \in {"lock", "check", "clone", "record", "fetch", "base"}
         => ~my[p].fetched

\* A fetched branch is at what the forge had, or later, until it is cloned from.
Fetched(p) ==
    pc[p] \in {"cut", "look", "tree"} /\ my[p].fetched =>
        refs[my[p].ws] >= my[p].asked

InHand(p) ==
    LET t == tree[my[p].ws] IN
      /\ pc[p] \in {"repoint", "lfs", "note"} => t.at = "git"
      /\ pc[p] \in {"checkout", "lfs", "note"} /\ my[p].new =>
            t.at = "git" /\ t.origin = "forge"
      /\ pc[p] \in {"lfs", "note"} => t.out
      /\ pc[p] = "note" /\ t.pointers => my[p].blind
      /\ pc[p] \in {"repoint", "checkout", "lfs", "note"} /\ my[p].new /\ my[p].fetched
            => t.tip >= my[p].asked

Asked(p) == my[p].asked <= forge[my[p].ws]

Holds(p) == /\ pc[p] \notin {"delete", "drop"}
            /\ Fresh(p) /\ Fetched(p) /\ InHand(p) /\ Asked(p)

\* Commits are pushed in order.
Ordered == \A b \in Branch : forge[b] <= commits

LaunchInv == Ordered /\ \A p \in Process : Holds(p)

LEMMA EndHolds ==
    ASSUME Types, Types', NEW p \in Process, End(p)
    PROVE  Holds(p)'
  <1>1. pc'[p] = "idle" /\ my'[p] = Untold
    BY DEF End, Goto, Types
  <1>2. Untold.asked = 0 /\ Untold.ws \in Branch
    BY UntoldType, BranchAssumption DEF Untold, Mine
  <1>3. forge'[Untold.ws] \in Nat
    BY <1>2 DEF Types, Commit
  <1> QED
    BY <1>1, <1>2, <1>3 DEF Holds, Fresh, Fetched, InHand, Asked

\* A process that another one's step leaves alone.
LEMMA Bystander ==
    ASSUME Types, Types', NEW p \in Process, Holds(p),
           pc'[p] = pc[p], my'[p] = my[p],
           \A b \in Branch : forge'[b] >= forge[b],
           pc[p] \in Section => UNCHANGED <<refs, tree>>
    PROVE  Holds(p)'
  <1>1. my[p].ws \in Branch /\ my[p].asked \in Nat
    BY BranchAssumption DEF Types, Mine, Commit
  <1>2. forge[my[p].ws] \in Nat /\ forge'[my[p].ws] \in Nat
    BY <1>1 DEF Types, Commit
  <1>3. Fresh(p)' /\ Asked(p)'
    BY <1>1, <1>2 DEF Holds, Fresh, Asked
  <1>4. CASE pc[p] \in Section
    BY <1>3, <1>4 DEF Holds, Fetched, InHand
  <1>5. CASE pc[p] \notin Section
    BY <1>3, <1>5 DEF Holds, Fetched, InHand, Section
  <1> QED
    BY <1>4, <1>5

LEMMA AskHolds ==
    ASSUME Types, Types', NEW p \in Process, NEW verb \in Verb, NEW w \in Ws,
           NEW force \in BOOLEAN, NEW step \in Step \ Section,
           step \notin {"delete", "drop"},
           Ask(p, verb, w, force, step)
    PROVE  Holds(p)'
  <1>1. my[p] \in Mine /\ Untold \in Mine /\ forge'[w] = forge[w] /\ forge[w] \in Nat
    BY UntoldType, BranchAssumption DEF Types, Ask, Commit
  <1>2. pc'[p] = step
    BY GotoFacts DEF Ask
  <1>3. my'[p] = [Untold EXCEPT !.verb = verb, !.ws = w, !.force = force,
                                !.knows = entry, !.noted = noted,
                                !.asked = forge[w], !.old = Working,
                                !.seen = listed]
    BY DEF Ask, Types
  <1>4. my'[p].ws = w /\ my'[p].asked = forge[w] /\ ~my'[p].new /\ ~my'[p].fetched
    BY <1>3 DEF Untold
  <1> QED
    BY <1>1, <1>2, <1>4 DEF Holds, Fresh, Fetched, InHand, Asked, Section

\* Outside a launch there is only what was asked to keep.
LEMMA Elsewhere ==
    ASSUME Types, NEW p \in Process, Holds(p), UNCHANGED forge,
           pc'[p] \in {"idle", "up", "sweep", "confirm", "relist", "relock",
                       "remove", "forget"},
           my'[p].asked = my[p].asked, my'[p].ws = my[p].ws
    PROVE  Holds(p)'
  BY DEF Holds, Fresh, Fetched, InHand, Asked

\* A step on with the same baggage, before the clone.
LEMMA OnwardHolds ==
    ASSUME Types, NEW p \in Process, Holds(p), UNCHANGED <<forge, my>>,
           \/ pc[p] \in {"lock", "check", "clone", "record"} /\
              pc'[p] \in {"check", "clone", "record", "fetch"}
           \/ pc[p] = "fetch" /\ pc'[p] \in {"base", "cut"}
           \/ pc[p] = "base" /\ pc'[p] = "cut"
    PROVE  Holds(p)'
  BY DEF Holds, Fresh, Fetched, InHand, Asked

LEMMA CacheHolds ==
    ASSUME Types, Types', NEW p \in Process, Holds(p),
           \/ Acquire(p, "lock", "check") \/ Check(p) \/ Clone(p) \/ Record(p)
    PROVE  Holds(p)'
  <1>1. UNCHANGED forge
    BY DEF Acquire, Check, Clone, Record
  <1>2. CASE End(p)
    BY <1>2, EndHolds
  <1>3. ASSUME NEW step \in {"check", "clone", "record", "fetch"},
               Goto(p, step), UNCHANGED my
        PROVE  Holds(p)'
    <2>1. pc'[p] = step
      BY <1>3, GotoFacts DEF Step
    <2>2. pc[p] \in {"lock", "check", "clone", "record"}
      BY DEF Acquire, Check, Clone, Record
    <2> QED
      BY <1>1, <1>3, <2>1, <2>2, OnwardHolds
  <1> QED
    BY <1>2, <1>3 DEF Acquire, Check, Clone, Record, WithCache

LEMMA FetchHolds ==
    ASSUME Types, Types', NEW p \in Process, Holds(p), Fetch(p)
    PROVE  Holds(p)'
  <1>1. UNCHANGED forge /\ pc[p] = "fetch"
    BY DEF Fetch
  <1>2. CASE End(p)
    BY <1>2, EndHolds
  <1>3. CASE /\ refs' = [refs EXCEPT ![my[p].ws] = forge[my[p].ws]]
             /\ my' = [my EXCEPT ![p].fetched = TRUE] /\ Goto(p, "cut")
    <2>1. /\ my'[p].ws = my[p].ws /\ my'[p].asked = my[p].asked
          /\ my'[p].new = my[p].new /\ pc'[p] = "cut"
      BY <1>3, GotoFacts DEF Types, Mine, Step
    <2>2. refs'[my[p].ws] = forge[my[p].ws] /\ forge[my[p].ws] >= my[p].asked
      <3>1. my[p].ws \in Branch /\ my[p].asked \in Nat
        BY BranchAssumption DEF Types, Mine, Commit
      <3> QED
        BY <1>3, <3>1 DEF Types, Holds, Asked, Commit
    <2> QED
      BY <1>1, <2>1, <2>2 DEF Holds, Fresh, Fetched, InHand, Asked
  <1>4. ASSUME NEW step \in {"base", "cut"}, Goto(p, step), UNCHANGED my
        PROVE  Holds(p)'
    <2>1. pc'[p] = step
      BY <1>4, GotoFacts DEF Step
    <2> QED
      BY <1>1, <1>4, <2>1, OnwardHolds
  <1> QED
    BY <1>2, <1>3, <1>4 DEF Fetch

LEMMA FetchBaseHolds ==
    ASSUME Types, Types', NEW p \in Process, Holds(p), FetchBase(p)
    PROVE  Holds(p)'
  <1>1. UNCHANGED forge /\ pc[p] = "base"
    BY DEF FetchBase
  <1>2. CASE End(p)
    BY <1>2, EndHolds
  <1>3. CASE my' = [my EXCEPT ![p].base = forge[StartPoint(p)]] /\ Goto(p, "cut")
    <2>1. /\ my'[p].ws = my[p].ws /\ my'[p].asked = my[p].asked
          /\ my'[p].new = my[p].new /\ my'[p].fetched = my[p].fetched
          /\ pc'[p] = "cut"
      BY <1>3, GotoFacts DEF Types, Mine, Step
    <2> QED
      BY <1>1, <2>1 DEF Holds, Fresh, Fetched, InHand, Asked
  <1>4. CASE Goto(p, "cut") /\ UNCHANGED my
    <2>1. pc'[p] = "cut"
      BY <1>4, GotoFacts DEF Step
    <2> QED
      BY <1>1, <1>4, <2>1, OnwardHolds
  <1> QED
    BY <1>2, <1>3, <1>4 DEF FetchBase

LEMMA CutHolds ==
    ASSUME Types, Types', NEW p \in Process, Holds(p), Cut(p)
    PROVE  Holds(p)'
  <1>1. UNCHANGED forge /\ pc[p] = "cut"
    BY DEF Cut
  <1>2. CASE End(p)
    BY <1>2, EndHolds
  <1>3. CASE /\ refs' = IF Absent(my[p].ws)
                        THEN [refs EXCEPT ![my[p].ws] = refs[StartPoint(p)]] ELSE refs
             /\ Goto(p, "look") /\ UNCHANGED my
    <2>1. pc'[p] = "look" /\ my'[p] = my[p]
      BY <1>3, GotoFacts DEF Step
    <2>2. /\ my[p].ws \in Branch /\ my[p].asked \in Nat
          /\ refs[my[p].ws] \in Nat /\ refs'[my[p].ws] \in Nat
      BY BranchAssumption DEF Types, Mine, Commit
    <2>3. refs'[my[p].ws] = refs[my[p].ws] \/ refs[my[p].ws] = 0
      BY <1>3, <2>2 DEF Absent
    <2> QED
      BY <1>1, <2>1, <2>2, <2>3 DEF Holds, Fresh, Fetched, InHand, Asked
  <1> QED
    BY <1>2, <1>3 DEF Cut

LEMMA LookHolds ==
    ASSUME Types, Types', NEW p \in Process, Holds(p), Look(p)
    PROVE  Holds(p)'
  <1>1. UNCHANGED <<forge, refs, tree>> /\ pc[p] = "look"
    BY DEF Look, disk
  <1>2. CASE Goto(p, "checkout") /\ UNCHANGED my
    <2>1. pc'[p] = "checkout"
      BY <1>2, GotoFacts DEF Step
    <2> QED
      BY <1>1, <1>2, <2>1 DEF Holds, Fresh, Fetched, InHand, Asked
  <1>3. CASE Goto(p, "tree") /\ my' = [my EXCEPT ![p].new = TRUE]
    <2>1. /\ my'[p].ws = my[p].ws /\ my'[p].asked = my[p].asked
          /\ my'[p].fetched = my[p].fetched /\ pc'[p] = "tree"
      BY <1>3, GotoFacts DEF Types, Mine, Step
    <2> QED
      BY <1>1, <2>1 DEF Holds, Fresh, Fetched, InHand, Asked
  <1> QED
    BY <1>2, <1>3 DEF Look

LEMMA CloneTreeHolds ==
    ASSUME Types, Types', NEW p \in Process, Holds(p), CloneTree(p)
    PROVE  Holds(p)'
  <1>1. UNCHANGED <<forge, refs>> /\ pc[p] = "tree" /\ my[p].ws \in Ws
    BY DEF CloneTree, Types, Mine
  <1>2. CASE End(p)
    BY <1>2, EndHolds
  <1>3. CASE Put(my[p].ws, Cloned(my[p].ws)) /\ Goto(p, "repoint") /\ UNCHANGED my
    <2>1. pc'[p] = "repoint"
      BY <1>3, GotoFacts DEF Step
    <2>2. tree'[my[p].ws] = Cloned(my[p].ws)
      BY <1>1, <1>3, ClonedType, PutType
    <2>3. tree'[my[p].ws].at = "git" /\ tree'[my[p].ws].tip = refs[my[p].ws]
      BY <2>2 DEF Cloned
    <2> QED
      BY <1>1, <1>3, <2>1, <2>3 DEF Holds, Fresh, Fetched, InHand, Asked
  <1> QED
    BY <1>2, <1>3 DEF CloneTree

\* What a clone keeps when one of its fields is set in place.
LEMMA TreeFieldFacts ==
    ASSUME Types, NEW w \in Ws
    PROVE  /\ tree' = [tree EXCEPT ![w].origin = "forge"] =>
              /\ tree'[w].at = tree[w].at /\ tree'[w].tip = tree[w].tip
              /\ tree'[w].origin = "forge"
           /\ tree' = [tree EXCEPT ![w].out = TRUE] =>
              /\ tree'[w].at = tree[w].at /\ tree'[w].tip = tree[w].tip
              /\ tree'[w].origin = tree[w].origin /\ tree'[w].out = TRUE
           /\ tree' = [tree EXCEPT ![w].pointers = FALSE] =>
              /\ tree'[w].at = tree[w].at /\ tree'[w].tip = tree[w].tip
              /\ tree'[w].origin = tree[w].origin /\ tree'[w].out = tree[w].out
              /\ tree'[w].pointers = FALSE
           /\ tree' = [tree EXCEPT ![w].work = TRUE] => \A v \in Ws :
              /\ tree'[v].at = tree[v].at /\ tree'[v].tip = tree[v].tip
              /\ tree'[v].origin = tree[v].origin /\ tree'[v].out = tree[v].out
              /\ tree'[v].pointers = tree[v].pointers
  BY DEF Types, Tree

LEMMA RepointHolds ==
    ASSUME Types, Types', NEW p \in Process, Holds(p), Repoint(p)
    PROVE  Holds(p)'
  <1>1. UNCHANGED <<forge, refs>> /\ pc[p] = "repoint" /\ my[p].ws \in Ws
    BY DEF Repoint, Types, Mine
  <1>2. CASE End(p)
    BY <1>2, EndHolds
  <1>3. CASE /\ tree' = [tree EXCEPT ![my[p].ws].origin = "forge"]
             /\ Goto(p, "checkout") /\ UNCHANGED my
    <2>1. pc'[p] = "checkout"
      BY <1>3, GotoFacts DEF Step
    <2>2. /\ tree'[my[p].ws].at = tree[my[p].ws].at
          /\ tree'[my[p].ws].tip = tree[my[p].ws].tip
          /\ tree'[my[p].ws].origin = "forge"
      BY <1>1, <1>3, TreeFieldFacts
    <2> QED
      BY <1>1, <1>3, <2>1, <2>2 DEF Holds, Fresh, Fetched, InHand, Asked
  <1> QED
    BY <1>2, <1>3 DEF Repoint

LEMMA CheckoutHolds ==
    ASSUME Types, Types', NEW p \in Process, Holds(p), Checkout(p)
    PROVE  Holds(p)'
  <1>1. UNCHANGED <<forge, refs>> /\ pc[p] = "checkout" /\ my[p].ws \in Ws
    BY DEF Checkout, Types, Mine
  <1>2. CASE End(p)
    BY <1>2, EndHolds
  <1>3. CASE /\ tree[my[p].ws].at = "git"
             /\ tree' = [tree EXCEPT ![my[p].ws].out = TRUE]
             /\ Goto(p, "lfs") /\ UNCHANGED my
    <2>1. pc'[p] = "lfs"
      BY <1>3, GotoFacts DEF Step
    <2>2. /\ tree'[my[p].ws].at = tree[my[p].ws].at
          /\ tree'[my[p].ws].tip = tree[my[p].ws].tip
          /\ tree'[my[p].ws].origin = tree[my[p].ws].origin
          /\ tree'[my[p].ws].out = TRUE
      BY <1>1, <1>3, TreeFieldFacts
    <2> QED
      BY <1>1, <1>3, <2>1, <2>2 DEF Holds, Fresh, Fetched, InHand, Asked
  <1> QED
    BY <1>2, <1>3 DEF Checkout

LEMMA MaterializeHolds ==
    ASSUME Types, Types', NEW p \in Process, Holds(p), Materialize(p)
    PROVE  Holds(p)'
  <1>1. UNCHANGED <<forge, refs>> /\ pc[p] = "lfs" /\ my[p].ws \in Ws
    BY DEF Materialize, Types, Mine
  <1>2. CASE End(p)
    BY <1>2, EndHolds
  <1>3. CASE /\ tree' = [tree EXCEPT ![my[p].ws].pointers = FALSE]
             /\ Goto(p, "note") /\ UNCHANGED my
    <2>1. pc'[p] = "note"
      BY <1>3, GotoFacts DEF Step
    <2>2. /\ tree'[my[p].ws].at = tree[my[p].ws].at
          /\ tree'[my[p].ws].tip = tree[my[p].ws].tip
          /\ tree'[my[p].ws].origin = tree[my[p].ws].origin
          /\ tree'[my[p].ws].out = tree[my[p].ws].out
          /\ tree'[my[p].ws].pointers = FALSE
      BY <1>1, <1>3, TreeFieldFacts
    <2> QED
      BY <1>1, <1>3, <2>1, <2>2 DEF Holds, Fresh, Fetched, InHand, Asked
  <1>4. CASE my' = [my EXCEPT ![p].blind = TRUE] /\ Goto(p, "note") /\ UNCHANGED tree
    <2>1. /\ my'[p].ws = my[p].ws /\ my'[p].asked = my[p].asked
          /\ my'[p].new = my[p].new /\ my'[p].fetched = my[p].fetched
          /\ my'[p].blind = TRUE /\ pc'[p] = "note"
      BY <1>4, GotoFacts DEF Types, Mine, Step
    <2> QED
      BY <1>1, <1>4, <2>1 DEF Holds, Fresh, Fetched, InHand, Asked
  <1> QED
    BY <1>2, <1>3, <1>4 DEF Materialize

\* The end of a launch, the sweep and the prune.
LEMMA OtherHolds ==
    ASSUME Types, Types', NEW p \in Process, Holds(p),
           \/ Note(p) \/ Up(p) \/ TryLock(p) \/ Sweep(p) \/ Prune(p) \/ Crash(p)
    PROVE  Holds(p)'
  <1>1. CASE End(p)
    BY <1>1, EndHolds
  <1>2. CASE Note(p)
    <2>1. pc'[p] = "up" /\ UNCHANGED <<forge, my>>
      BY <1>2, GotoFacts DEF Note, Step
    <2> QED
      BY <2>1, Elsewhere
  <1>3. CASE TryLock(p) /\ ~End(p)
    <2>1. pc'[p] = "sweep" /\ UNCHANGED <<forge, my>>
      BY <1>3, GotoFacts DEF TryLock, Step
    <2> QED
      BY <2>1, Elsewhere
  <1>4. CASE (Confirm(p) \/ Acquire(p, "relock", "remove")) /\ ~End(p)
    <2>1. pc'[p] \in {"relist", "remove"} /\ UNCHANGED <<forge, my>>
      BY <1>4, GotoFacts DEF Confirm, Acquire, Step
    <2> QED
      BY <2>1, Elsewhere
  <1>5. CASE Plan(p)
    <2>1. pc'[p] = "confirm" /\ UNCHANGED forge
      BY <1>5, GotoFacts DEF Plan, Step
    <2>2. my'[p].asked = my[p].asked /\ my'[p].ws = my[p].ws
      <3>1. PICK refused \in SUBSET Ws :
              LET stands == {w \in Orphaned(p) : Stands(w) \/ w \in refused}
                  forced == IF my[p].force THEN stands ELSE {}
              IN my' = [my EXCEPT
                          ![p].plan = (Orphaned(p) \ stands) \cup forced,
                          ![p].promoted = forced, ![p].objected = stands,
                          ![p].forget = {w \in my[p].noted : tree[w].at = "none"}]
        BY <1>5 DEF Plan
      <3> QED
        BY <3>1 DEF Types, Mine
    <2> QED
      BY <2>1, <2>2, Elsewhere
  <1>6. CASE Relist(p) /\ ~End(p)
    <2>1. pc'[p] \in {"forget", "relock"} /\ UNCHANGED forge
      BY <1>6, GotoFacts DEF Relist, Step
    <2>2. my'[p].asked = my[p].asked /\ my'[p].ws = my[p].ws
      BY <1>6 DEF Relist, Types, Mine
    <2> QED
      BY <2>1, <2>2, Elsewhere
  <1>7. CASE Remove(p)
    <2>1. pc'[p] \in {"remove", "forget"} /\ UNCHANGED forge
      BY <1>7, GotoFacts DEF Remove, Step
    <2>2. my'[p].asked = my[p].asked /\ my'[p].ws = my[p].ws
      BY <1>7 DEF Remove, Types, Mine
    <2> QED
      BY <2>1, <2>2, Elsewhere
  <1>8. CASE Forget(p) /\ ~End(p)
    <2>1. pc'[p] = "forget" /\ UNCHANGED forge
      BY <1>8 DEF Forget
    <2>2. my'[p].asked = my[p].asked /\ my'[p].ws = my[p].ws
      BY <1>8 DEF Forget, Types, Mine
    <2> QED
      BY <2>1, <2>2, Elsewhere
  <1>9. Up(p) \/ Sweep(p) \/ Crash(p) => End(p)
    BY DEF Up, Sweep, Crash
  <1> QED
    BY <1>1, <1>2, <1>3, <1>4, <1>5, <1>6, <1>7, <1>8, <1>9 DEF Prune

(***************************************************************************)
(* What a process without the lock cannot do, and the invariant.           *)
(***************************************************************************)
LEMMA OnlyHolder ==
    ASSUME Types, NEW p \in Process, Acts(p), pc[p] \notin Section \cup {"drop"}
    PROVE  UNCHANGED <<refs, tree>>
  <1>1. CASE Begin(p)
    BY <1>1, BeginAsks DEF Ask, disk
  <1>2. CASE Launch(p)
    BY <1>2 DEF Launch, Check, Clone, Record, Fetch, FetchBase, Cut, Look,
       CloneTree, Repoint, Checkout, Materialize, Note, Up, Section, disk
  <1>3. CASE Prune(p)
    BY <1>3 DEF Prune, Plan, Confirm, Relist, Acquire, Remove, Forget, Section, disk
  <1>4. CASE Acquire(p, "lock", "check") \/ TryLock(p) \/ Sweep(p) \/ Delete(p) \/ Drop(p)
    BY <1>4 DEF Acquire, TryLock, Sweep, Delete, Drop, Section, disk
  <1>5. CASE Crash(p)
    BY <1>5 DEF Crash, Halfway, Section
  <1> QED
    BY <1>1, <1>2, <1>3, <1>4, <1>5 DEF Acts

LEMMA ForgeStill ==
    ASSUME NEW p \in Process, Acts(p)
    PROVE  UNCHANGED <<forge, commits>>
  <1>1. CASE Begin(p)
    BY <1>1, BeginAsks DEF Ask
  <1>2. CASE Launch(p)
    BY <1>2 DEF Launch, Check, Clone, Record, Fetch, FetchBase, Cut, Look,
       CloneTree, Repoint, Checkout, Materialize, Note, Up, counts
  <1>3. CASE Prune(p)
    BY <1>3 DEF Prune, Plan, Confirm, Relist, Acquire, Remove, Forget, counts
  <1> QED
    BY <1>1, <1>2, <1>3 DEF Acts, Acquire, TryLock, Sweep, Delete, Drop, Crash, counts

NothingRemoved == {"rm", "kill"} \cap Verbs = {}

LEMMA ActsHolds ==
    ASSUME Types, Types', NothingRemoved, NEW p \in Process, Holds(p), Acts(p)
    PROVE  Holds(p)'
  <1>1. CASE Begin(p)
    <2>1. PICK verb \in Verb, w \in Ws, force \in BOOLEAN, step \in Step \ Section :
             /\ Ask(p, verb, w, force, step)
             /\ step \in {"delete", "drop"} => verb \in {"rm", "kill"}
      BY <1>1, BeginAsks
    <2>2. step \notin {"delete", "drop"}
      BY <2>1 DEF Ask, NothingRemoved
    <2> QED
      BY <2>1, <2>2, AskHolds
  <1>2. CASE Acquire(p, "lock", "check") \/ Launch(p)
    BY <1>2, CacheHolds, FetchHolds, FetchBaseHolds, CutHolds, LookHolds,
       CloneTreeHolds, RepointHolds, CheckoutHolds, MaterializeHolds, OtherHolds
    DEF Launch
  <1>3. CASE TryLock(p) \/ Sweep(p) \/ Prune(p) \/ Crash(p)
    BY <1>3, OtherHolds
  <1>4. ~(Delete(p) \/ Drop(p))
    BY DEF Holds, Delete, Drop
  <1> QED
    BY <1>1, <1>2, <1>3, <1>4 DEF Acts

LEMMA LaunchInit == Init => LaunchInv
  <1> SUFFICES ASSUME Init PROVE LaunchInv
    OBVIOUS
  <1>1. forge \in [Branch -> {0, 1}] /\ commits = 1
    BY DEF Init
  <1>2. Ordered
    BY <1>1 DEF Ordered
  <1>3. ASSUME NEW p \in Process PROVE Holds(p)
    <2>1. pc[p] = "idle" /\ my[p] = Untold
      BY DEF Init
    <2>2. Untold.asked = 0 /\ Untold.ws \in Branch
      BY UntoldType, BranchAssumption DEF Untold, Mine
    <2> QED
      BY <1>1, <2>1, <2>2 DEF Holds, Fresh, Fetched, InHand, Asked
  <1> QED
    BY <1>2, <1>3 DEF LaunchInv

LEMMA LaunchStep ==
    NothingRemoved => (TypeOK /\ TypeOK' /\ LaunchInv /\ [Next]_vars => LaunchInv')
  <1> SUFFICES ASSUME NothingRemoved, Types, LockHeld, Types', LaunchInv, [Next]_vars
               PROVE  LaunchInv'
    BY DEF TypeOK
  <1>1. ASSUME NEW p \in Process, Acts(p) PROVE LaunchInv'
    <2>1. UNCHANGED <<forge, commits>>
      BY <1>1, ForgeStill
    <2>2. Holds(p)'
      BY <1>1, ActsHolds DEF LaunchInv
    <2>3. ASSUME NEW q \in Process, q # p PROVE Holds(q)'
      <3>1. pc'[q] = pc[q] /\ my'[q] = my[q]
        BY <1>1, <2>3, ActsStep DEF Moves, Others
      <3>2. pc[q] \in Section => pc[p] \notin Section \cup {"drop"}
        BY <2>3 DEF LockHeld, LaunchInv, Holds
      <3>3. pc[q] \in Section => UNCHANGED <<refs, tree>>
        BY <1>1, <3>2, OnlyHolder
      <3>4. \A b \in Branch : forge'[b] >= forge[b]
        BY <2>1 DEF Types, Commit
      <3> QED
        BY <3>1, <3>3, <3>4, Bystander DEF LaunchInv
    <2> QED
      BY <2>1, <2>2, <2>3 DEF LaunchInv, Ordered
  <1>2. ASSUME NEW b \in Branch, Push(b) PROVE LaunchInv'
    <2>1. /\ commits' = commits + 1 /\ forge' = [forge EXCEPT ![b] = commits + 1]
          /\ UNCHANGED <<refs, tree, pc, my>>
      BY <1>2 DEF Push, disk
    <2>2. \A a \in Branch : forge'[a] >= forge[a] /\ forge'[a] <= commits'
      BY <2>1 DEF LaunchInv, Ordered, Types, Commit
    <2> QED
      BY <2>1, <2>2, Bystander DEF LaunchInv, Ordered
  <1>3. ASSUME NEW w \in Ws, Edit(w) PROVE LaunchInv'
    <2>1. /\ tree' = [tree EXCEPT ![w].work = TRUE]
          /\ UNCHANGED <<forge, refs, pc, my, commits>>
      BY <1>3 DEF Edit, counts
    <2>2. ASSUME NEW p \in Process PROVE Holds(p)'
      <3>1. my[p].ws \in Ws
        BY DEF Types, Mine
      <3> DEFINE v == my[p].ws
      <3>2. /\ tree'[v].at = tree[v].at /\ tree'[v].tip = tree[v].tip
            /\ tree'[v].origin = tree[v].origin /\ tree'[v].out = tree[v].out
            /\ tree'[v].pointers = tree[v].pointers
        BY <2>1, <3>1, TreeFieldFacts
      <3> QED
        BY <2>1, <3>2 DEF LaunchInv, Holds, Fresh, Fetched, InHand, Asked
    <2> QED
      BY <2>1, <2>2 DEF LaunchInv, Ordered
  <1>4. CASE UNCHANGED vars
    BY <1>4 DEF LaunchInv, Ordered, Holds, Fresh, Fetched, InHand, Asked, vars,
       disk, counts
  <1> QED
    BY <1>1, <1>2, <1>3, <1>4, NextSplits

LEMMA LaunchInvariant ==
    ASSUME NothingRemoved
    PROVE  Spec => []LaunchInv
  <1>1. TypeOK /\ TypeOK' /\ LaunchInv /\ [Next]_vars => LaunchInv'
    BY LaunchStep
  <1> QED
    BY <1>1, LaunchInit, TypeCorrect, PTL DEF Spec

\* While nothing removes a workspace, what a launch hands over at the end of its
\* scope is whole: prepare_workspace under the repo lock, with any number of
\* launches, sweeps and prunes beside it, killed at any step.
THEOREM LaunchHandsOver ==
    ASSUME NothingRemoved
    PROVE  Spec => []HandedOver
  <1>1. LaunchInv => HandedOver
    BY DEF LaunchInv, Holds, InHand, HandedOver
  <1> QED
    BY <1>1, LaunchInvariant, PTL

\* Under the same assumption, a pushed branch that was fetched is never handed
\* over older than it was when the launch was asked for: fetch_ref in ensure_branch
\* and the checkout of origin's tip in a new clone.
THEOREM LaunchSeesPush ==
    ASSUME NothingRemoved
    PROVE  Spec => []PushedTip
  <1>1. LaunchInv => PushedTip
    BY DEF LaunchInv, Holds, InHand, PushedTip
  <1> QED
    BY <1>1, LaunchInvariant, PTL

(***************************************************************************)
(* Work that was in a clone when it was last asked about.                  *)
(***************************************************************************)
\* Only a checkout holds work.
WorkInGit == \A w \in Ws : tree[w].work => tree[w].at = "git"

\* What entitles p to the next thing it does to a clone.
Entitled(p) ==
    /\ pc[p] = "tree" => tree[my[p].ws].at \in {"none", "husk"}
    /\ pc[p] = "plan" => my[p].verb = "prune"
    /\ pc[p] \in {"confirm", "relist", "relock", "remove"} =>
         /\ my[p].verb = "prune"
         /\ my[p].promoted \subseteq my[p].objected
         /\ my[p].promoted # {} => my[p].force
    /\ pc[p] \in {"delete", "drop"} =>
         /\ my[p].verb \in {"rm", "kill"}
         /\ my[p].force \/ my[p].ws \notin my[p].noted \/ my[p].ws \notin my[p].old

WorkInv == WorkInGit /\ \A p \in Process : Entitled(p)

Watched == {"tree", "plan", "confirm", "relist", "relock", "remove", "delete", "drop"}

LEMMA Unwatched ==
    ASSUME NEW p \in Process, pc'[p] \notin Watched
    PROVE  Entitled(p)'
  BY DEF Entitled, Watched

\* The steps that lead out of what is watched, or never were in it.
LEMMA LeadsOut ==
    ASSUME Types, NEW p \in Process,
           \/ Acquire(p, "lock", "check") \/ Check(p) \/ Clone(p) \/ Record(p)
           \/ Fetch(p) \/ FetchBase(p) \/ Cut(p) \/ CloneTree(p) \/ Repoint(p)
           \/ Checkout(p) \/ Materialize(p) \/ Note(p) \/ Up(p)
           \/ TryLock(p) \/ Sweep(p) \/ Forget(p) \/ Drop(p) \/ Crash(p)
    PROVE  pc'[p] \notin Watched
  <1>1. CASE Acquire(p, "lock", "check") \/ Check(p) \/ Clone(p) \/ Record(p)
    BY <1>1, Leads DEF Acquire, Check, Clone, Record, WithCache, Step, Watched
  <1>2. CASE Fetch(p)
    BY <1>2, Leads DEF Fetch, Step, Watched
  <1>3. CASE FetchBase(p) \/ Cut(p) \/ CloneTree(p)
    BY <1>3, Leads DEF FetchBase, Cut, CloneTree, Step, Watched
  <1>4. CASE Repoint(p) \/ Checkout(p) \/ Materialize(p) \/ Note(p)
    BY <1>4, Leads DEF Repoint, Checkout, Materialize, Note, Step, Watched
  <1>5. CASE Up(p) \/ TryLock(p) \/ Sweep(p) \/ Drop(p) \/ Crash(p)
    BY <1>5, Leads DEF Up, TryLock, Sweep, Drop, Crash, Step, Watched
  <1>6. CASE Forget(p)
    BY <1>6, Leads DEF Forget, Step, Watched
  <1> QED
    BY <1>1, <1>2, <1>3, <1>4, <1>5, <1>6

LEMMA BeginEntitled ==
    ASSUME Types, WorkInGit, NEW p \in Process, Begin(p)
    PROVE  Entitled(p)' /\ UNCHANGED tree
  <1> DEFINE Carries(verb, w, force) ==
               my' = [my EXCEPT ![p] =
                        [Untold EXCEPT !.verb = verb, !.ws = w, !.force = force,
                                       !.knows = entry, !.noted = noted,
                                       !.asked = forge[w], !.old = Working,
                                       !.seen = listed]]
  <1>1. ASSUME NEW verb \in Verb, NEW w \in Ws, NEW force \in BOOLEAN,
               NEW step \in Step, Ask(p, verb, w, force, step)
        PROVE  /\ pc'[p] = step /\ UNCHANGED tree
               /\ my'[p].verb = verb /\ my'[p].ws = w /\ my'[p].force = force
               /\ my'[p].noted = noted /\ my'[p].old = Working
    <2>1. Carries(verb, w, force)
      BY <1>1 DEF Ask
    <2>2. /\ my'[p].verb = verb /\ my'[p].ws = w /\ my'[p].force = force
          /\ my'[p].noted = noted /\ my'[p].old = Working
      BY <2>1 DEF Types, Untold
    <2>3. pc'[p] = step /\ UNCHANGED tree
      BY <1>1, GotoFacts DEF Ask, disk
    <2> QED
      BY <2>2, <2>3
  <1>2. {"lock", "try", "plan", "delete"} \subseteq Step
    BY DEF Step
  <1>3. {"launch", "from", "ensure", "sweep", "prune", "rm", "kill"} \subseteq Verb
    BY DEF Verb
  <1>4. Untold.ws \in Ws
    BY UntoldType DEF Mine
  <1> HIDE DEF Carries
  <1>5. CASE (\E w \in Ws : BeginLaunch(p, w)) \/ BeginEnsure(p) \/ BeginSweep(p)
    <2>1. pc'[p] \in {"lock", "try"} /\ UNCHANGED tree
      BY <1>1, <1>2, <1>3, <1>4, <1>5 DEF BeginLaunch, BeginEnsure, BeginSweep
    <2> QED
      BY <2>1, Unwatched DEF Watched
  <1>6. CASE BeginPrune(p)
    <2>1. pc'[p] = "plan" /\ my'[p].verb = "prune" /\ UNCHANGED tree
      BY <1>1, <1>2, <1>3, <1>4, <1>6 DEF BeginPrune
    <2> QED
      BY <2>1 DEF Entitled
  <1>7. ASSUME NEW w \in Ws, BeginRemove(p, w)
        PROVE  Entitled(p)' /\ UNCHANGED tree
    <2>1. PICK verb \in {"rm", "kill"}, force \in BOOLEAN :
             /\ Ask(p, verb, w, force, "delete")
             /\ (w \in noted /\ Stands(w)) => force
      BY <1>7 DEF BeginRemove
    <2>2. /\ pc'[p] = "delete" /\ UNCHANGED tree
          /\ my'[p].verb = verb /\ my'[p].ws = w /\ my'[p].force = force
          /\ my'[p].noted = noted /\ my'[p].old = Working
      BY <1>1, <1>2, <1>3, <2>1
    <2>3. w \in Working => Stands(w)
      BY DEF Working, Stands
    <2> QED
      BY <2>1, <2>2, <2>3 DEF Entitled
  <1> QED
    BY <1>5, <1>6, <1>7 DEF Begin

LEMMA WatchedEntitled ==
    ASSUME Types, NEW p \in Process, Entitled(p),
           \/ Look(p) \/ Plan(p) \/ Confirm(p) \/ Relist(p)
           \/ Acquire(p, "relock", "remove") \/ Remove(p) \/ Delete(p)
    PROVE  Entitled(p)'
  <1>1. CASE Look(p)
    <2>1. pc'[p] \in {"checkout", "tree"} /\ UNCHANGED tree
      BY <1>1, GotoFacts DEF Look, Step, disk
    <2>2. pc'[p] = "tree" => ~CloneIsThere(my[p].ws)
      BY <1>1, GotoFacts DEF Look, Step
    <2>3. my'[p].ws = my[p].ws /\ tree[my[p].ws].at \in At
      BY <1>1 DEF Look, Types, Mine, Tree
    <2> QED
      BY <2>1, <2>2, <2>3 DEF Entitled, CloneIsThere, At
  <1>2. CASE Plan(p)
    <2>1. pc[p] = "plan" /\ pc'[p] = "confirm"
      BY <1>2, GotoFacts DEF Plan, Step
    <2>2. PICK refused \in SUBSET Ws :
            LET stands == {w \in Orphaned(p) : Stands(w) \/ w \in refused}
                forced == IF my[p].force THEN stands ELSE {}
            IN my' = [my EXCEPT
                        ![p].plan = (Orphaned(p) \ stands) \cup forced,
                        ![p].promoted = forced, ![p].objected = stands,
                        ![p].forget = {w \in my[p].noted : tree[w].at = "none"}]
      BY <1>2 DEF Plan
    <2> DEFINE stands == {w \in Orphaned(p) : Stands(w) \/ w \in refused}
    <2>3. /\ my'[p].verb = my[p].verb /\ my'[p].force = my[p].force
          /\ my'[p].objected = stands
          /\ my'[p].promoted = IF my[p].force THEN stands ELSE {}
      BY <2>2 DEF Types, Mine
    <2> HIDE DEF stands
    <2> QED
      BY <2>1, <2>3 DEF Entitled
  <1>3. CASE Confirm(p) \/ Acquire(p, "relock", "remove")
    <2>1. CASE End(p)
      BY <2>1, EndFacts, Unwatched DEF Watched
    <2>2. CASE ~End(p)
      <3>1. /\ pc[p] \in {"confirm", "relock"} /\ pc'[p] \in {"relist", "remove"}
            /\ my' = my
        BY <1>3, <2>2, GotoFacts DEF Confirm, Acquire, Step
      <3> QED
        BY <3>1 DEF Entitled
    <2> QED
      BY <2>1, <2>2
  <1>4. CASE Relist(p)
    <2>1. CASE End(p)
      BY <2>1, EndFacts, Unwatched DEF Watched
    <2>2. CASE ~End(p)
      <3>1. pc[p] = "relist" /\ pc'[p] \in {"forget", "relock"}
        BY <1>4, <2>2, GotoFacts DEF Relist, Step
      <3>2. /\ my'[p].verb = my[p].verb /\ my'[p].force = my[p].force
            /\ my'[p].objected = my[p].objected /\ my'[p].promoted = my[p].promoted
        BY <1>4, <2>2 DEF Relist, Types, Mine
      <3> QED
        BY <3>1, <3>2 DEF Entitled
    <2> QED
      BY <2>1, <2>2
  <1>5. CASE Remove(p)
    <2>1. pc[p] = "remove" /\ pc'[p] \in {"remove", "forget"}
      BY <1>5, GotoFacts DEF Remove, Step
    <2>2. /\ my'[p].verb = my[p].verb /\ my'[p].force = my[p].force
          /\ my'[p].objected = my[p].objected /\ my'[p].promoted = my[p].promoted
      BY <1>5 DEF Remove, Types, Mine
    <2> QED
      BY <2>1, <2>2 DEF Entitled
  <1>6. CASE Delete(p)
    <2>1. CASE End(p)
      BY <2>1, EndFacts, Unwatched DEF Watched
    <2>2. CASE ~End(p)
      <3>1. pc[p] = "delete" /\ pc'[p] = "drop" /\ my' = my
        BY <1>6, <2>2, GotoFacts DEF Delete, Step
      <3> QED
        BY <3>1 DEF Entitled
    <2> QED
      BY <2>1, <2>2
  <1> QED
    BY <1>1, <1>2, <1>3, <1>4, <1>5, <1>6

LEMMA ActsEntitled ==
    ASSUME Types, WorkInGit, NEW p \in Process, Entitled(p), Acts(p)
    PROVE  Entitled(p)'
  <1>1. CASE Begin(p)
    BY <1>1, BeginEntitled
  <1>2. CASE /\ ~Begin(p)
             /\ ~(\/ Look(p) \/ Plan(p) \/ Confirm(p) \/ Relist(p)
                  \/ Acquire(p, "relock", "remove") \/ Remove(p) \/ Delete(p))
    BY <1>2, LeadsOut, Unwatched DEF Acts, Launch, Prune
  <1> QED
    BY <1>1, <1>2, WatchedEntitled

\* p may remove work from the clone of w.
Excused(p, w) ==
    /\ pc[p] \in {"remove", "drop"}
    /\ \/ w \notin my[p].old
       \/ my[p].force /\ IF my[p].verb = "prune" THEN w \in my[p].objected
                                                ELSE w = my[p].ws

\* What one step of p does to the clones.
Effect(p) ==
    /\ WorkInGit'
    /\ \A w \in Ws : tree[w].work /\ ~tree'[w].work => Excused(p, w)
    /\ pc[p] \notin Section =>
         \A w \in Ws : tree[w].at \in {"none", "husk"} => tree'[w].at \in {"none", "husk"}

LEMMA NoEffect ==
    ASSUME WorkInGit, NEW p \in Process, UNCHANGED tree
    PROVE  Effect(p)
  BY DEF Effect, WorkInGit

LEMMA PartsFacts ==
    ASSUME NEW t \in Tree, t.work => t.at = "git", NEW part \in Parts(t)
    PROVE  /\ part.work => part.at = "git"
           /\ t.at = "husk" => part.at = "husk"
  <1>1. CASE part \in {Left("husk"), Left("hollow")}
    BY <1>1 DEF Parts, Left
  <1>2. CASE t.at = "git" /\ part = [t EXCEPT !.work = TRUE]
    BY <1>2 DEF Tree
  <1> QED
    BY <1>1, <1>2 DEF Parts

\* One clone is put in place of another.
LEMMA PutEffect ==
    ASSUME Types, WorkInGit, NEW p \in Process, NEW w \in Ws, NEW t \in Tree,
           Put(w, t), t.work => t.at = "git",
           tree[w].work /\ ~t.work => Excused(p, w),
           \/ pc[p] \in Section
           \/ tree[w].at \in {"none", "husk"} => t.at \in {"none", "husk"}
    PROVE  Effect(p)
  BY PutType DEF Effect, WorkInGit

LEMMA FieldEffect ==
    ASSUME Types, WorkInGit, NEW p \in Process, NEW w \in Ws, pc[p] \in Section,
           \/ tree' = [tree EXCEPT ![w].origin = "forge"]
           \/ tree' = [tree EXCEPT ![w].out = TRUE]
           \/ tree' = [tree EXCEPT ![w].pointers = FALSE]
    PROVE  Effect(p)
  <1>1. \A v \in Ws : tree'[v].at = tree[v].at /\ tree'[v].work = tree[v].work
    BY DEF Types, Tree
  <1> QED
    BY <1>1 DEF Effect, WorkInGit

LEMMA RemoveEffect ==
    ASSUME Types, WorkInGit, NEW p \in Process, Entitled(p), Remove(p)
    PROVE  Effect(p)
  <1>1. pc[p] = "remove" /\ pc[p] \in Section /\ my[p].plan \subseteq Ws
    BY DEF Remove, Section, Types, Mine
  <1>2. CASE UNCHANGED tree
    BY <1>2, NoEffect
  <1>3. ASSUME NEW w \in my[p].plan, Stands(w) => w \in my[p].promoted,
               NEW t \in Tree, Put(w, t), t.work => t.at = "git"
        PROVE  Effect(p)
    <2>1. tree[w].work => Excused(p, w)
      <3>1. tree[w].work => w \in my[p].promoted
        BY <1>3 DEF Stands
      <3> QED
        BY <1>1, <3>1 DEF Entitled, Excused
    <2> QED
      BY <1>1, <1>3, <2>1, PutEffect
  <1>4. CASE ~UNCHANGED tree
    <2>1. PICK w \in my[p].plan :
            /\ Stands(w) => w \in my[p].promoted
            /\ \/ Put(w, Left("none"))
               \/ \E part \in Parts(tree[w]) : Put(w, part)
      BY <1>4, Zenon DEF Remove
    <2>2. w \in Ws /\ tree[w] \in Tree /\ (tree[w].work => tree[w].at = "git")
      BY <1>1 DEF Types, WorkInGit
    <2>3. CASE Put(w, Left("none"))
      <3>1. Left("none") \in Tree /\ ~Left("none").work
        BY LeftType DEF At, Left
      <3> QED
        BY <1>3, <2>1, <2>3, <3>1
    <2>4. ASSUME NEW part \in Parts(tree[w]), Put(w, part) PROVE Effect(p)
      BY <1>3, <2>1, <2>2, <2>4, PartsType, PartsFacts
    <2> QED
      BY <2>1, <2>3, <2>4
  <1> QED
    BY <1>2, <1>4

LEMMA DropEffect ==
    ASSUME Types, WorkInGit, NEW p \in Process, Entitled(p), Drop(p)
    PROVE  Effect(p)
  <1> DEFINE w == my[p].ws
  <1>1. w \in Ws /\ pc[p] = "drop"
    BY DEF Drop, Types, Mine
  <1>2. tree[w] \in Tree /\ (tree[w].work => tree[w].at = "git")
    BY <1>1 DEF Types, WorkInGit
  <1>3. w \in my[p].noted => Excused(p, w)
    BY <1>1 DEF Entitled, Excused
  <1>4. CASE UNCHANGED tree
    BY <1>4, NoEffect
  <1>5. CASE w \in my[p].noted /\ Put(w, Left("none"))
    <2>1. Left("none") \in Tree /\ ~Left("none").work /\ Left("none").at = "none"
      BY LeftType DEF At, Left
    <2> QED
      BY <1>1, <1>3, <1>5, <2>1, PutEffect
  <1>6. ASSUME w \in my[p].noted, tree[w].at # "none",
               NEW part \in Parts(tree[w]), Put(w, part)
        PROVE  Effect(p)
    <2>1. /\ part \in Tree
          /\ part.work => part.at = "git"
          /\ tree[w].at = "husk" => part.at = "husk"
      BY <1>2, <1>6, PartsType, PartsFacts
    <2>2. tree[w].at \in {"none", "husk"} => part.at \in {"none", "husk"}
      BY <1>6, <2>1
    <2> HIDE DEF w
    <2> QED
      BY <1>1, <1>3, <1>6, <2>1, <2>2, PutEffect
  <1> QED
    BY <1>4, <1>5, <1>6 DEF Drop

\* A clone is put only where there is none, or files in no repository.
LEMMA TreeEffect ==
    ASSUME Types, WorkInGit, NEW p \in Process, Entitled(p),
           CloneTree(p) \/ Crash(p)
    PROVE  Effect(p)
  <1> DEFINE w == my[p].ws
  <1>1. w \in Ws
    BY DEF Types, Mine
  <1>2. CASE UNCHANGED tree
    BY <1>2, NoEffect
  <1>3. ASSUME pc[p] = "tree",
               \/ Put(w, Cloned(w))
               \/ \E at \in {"none", "husk", "hollow"} : Put(w, Left(at))
        PROVE  Effect(p)
    <2>1. ~tree[w].work /\ pc[p] \in Section
      BY <1>1, <1>3 DEF Entitled, WorkInGit, Section
    <2>2. Cloned(w) \in Tree /\ ~Cloned(w).work
      BY <1>1, ClonedType DEF Cloned
    <2>3. \A at \in {"none", "husk", "hollow"} : Left(at) \in Tree /\ ~Left(at).work
      BY LeftType DEF At, Left
    <2> QED
      BY <1>1, <1>3, <2>1, <2>2, <2>3, PutEffect
  <1>4. CASE CloneTree(p)
    BY <1>3, <1>4 DEF CloneTree
  <1>5. CASE Crash(p)
    BY <1>2, <1>3, <1>5 DEF Crash, Halfway
  <1> QED
    BY <1>4, <1>5

LEMMA ActsEffect ==
    ASSUME Types, WorkInGit, NEW p \in Process, Entitled(p), Acts(p)
    PROVE  Effect(p)
  <1>1. CASE UNCHANGED tree
    BY <1>1, NoEffect
  <1>2. CASE Repoint(p) \/ Checkout(p) \/ Materialize(p)
    <2>1. pc[p] \in Section /\ my[p].ws \in Ws
      BY <1>2 DEF Repoint, Checkout, Materialize, Section, Types, Mine
    <2> QED
      BY <1>1, <1>2, <2>1, FieldEffect DEF Repoint, Checkout, Materialize
  <1>3. CASE Remove(p) \/ Drop(p) \/ CloneTree(p) \/ Crash(p)
    BY <1>3, RemoveEffect, DropEffect, TreeEffect
  <1>4. Begin(p) => UNCHANGED tree
    BY BeginEntitled
  <1>5. /\ Acquire(p, "lock", "check") \/ TryLock(p) \/ Sweep(p) \/ Delete(p)
              => UNCHANGED tree
        /\ Launch(p) => \/ UNCHANGED tree
                        \/ CloneTree(p) \/ Repoint(p) \/ Checkout(p) \/ Materialize(p)
        /\ Prune(p) => UNCHANGED tree \/ Remove(p)
    BY DEF Acquire, TryLock, Sweep, Delete, Launch, Prune, Check, Clone, Record,
       Fetch, FetchBase, Cut, Look, Note, Up, Plan, Confirm, Relist, Forget, disk
  <1> QED
    BY <1>1, <1>2, <1>3, <1>4, <1>5 DEF Acts

LEMMA WorkStep ==
    TypeOK /\ WorkInv /\ [Next]_vars =>
      /\ WorkInv'
      /\ \A w \in Ws : tree[w].work /\ ~tree'[w].work => \E p \in Process : Excused(p, w)
  <1> SUFFICES ASSUME Types, LockHeld, WorkInv, [Next]_vars
               PROVE  /\ WorkInv'
                      /\ \A w \in Ws : tree[w].work /\ ~tree'[w].work =>
                            \E p \in Process : Excused(p, w)
    BY DEF TypeOK
  <1>1. ASSUME NEW p \in Process, Acts(p)
        PROVE  /\ WorkInv'
               /\ \A w \in Ws : tree[w].work /\ ~tree'[w].work => Excused(p, w)
    <2>1. Effect(p) /\ Entitled(p)'
      BY <1>1, ActsEffect, ActsEntitled DEF WorkInv
    <2>2. ASSUME NEW q \in Process, q # p PROVE Entitled(q)'
      <3>1. pc'[q] = pc[q] /\ my'[q] = my[q] /\ my[q].ws \in Ws
        BY <1>1, <2>2, ActsStep DEF Moves, Others, Types, Mine
      <3>2. pc[q] = "tree" => tree'[my[q].ws].at \in {"none", "husk"}
        BY <2>1, <2>2, <3>1 DEF Effect, WorkInv, Entitled, LockHeld, Section
      <3> QED
        BY <3>1, <3>2 DEF WorkInv, Entitled
    <2> QED
      BY <2>1, <2>2 DEF WorkInv, Effect
  <1>2. ASSUME NEW v \in Ws, Edit(v)
        PROVE  WorkInv' /\ \A w \in Ws : tree[w].work => tree'[w].work
    <2>1. /\ tree' = [tree EXCEPT ![v].work = TRUE] /\ tree[v].at = "git"
          /\ UNCHANGED <<pc, my>>
      BY <1>2 DEF Edit
    <2>2. /\ \A w \in Ws : tree'[w].at = tree[w].at /\ (tree[w].work => tree'[w].work)
          /\ \A w \in Ws : w # v => tree'[w] = tree[w]
      BY <2>1 DEF Types, Tree
    <2>3. \A p \in Process : my[p].ws \in Ws
      BY DEF Types, Mine
    <2> QED
      BY <2>1, <2>2, <2>3 DEF WorkInv, WorkInGit, Entitled
  <1>3. ASSUME NEW b \in Branch, Push(b) PROVE WorkInv' /\ UNCHANGED tree
    BY <1>3 DEF Push, disk, WorkInv, WorkInGit, Entitled
  <1>4. CASE UNCHANGED vars
    BY <1>4 DEF vars, disk, WorkInv, WorkInGit, Entitled
  <1> QED
    BY <1>1, <1>2, <1>3, <1>4, NextSplits

\* No command, interleaved with any others and killed at any step, removes work
\* it was told of, but a forced removal of that workspace or a forced prune that
\* had reported that very clone: guard_removal, prune_plan, prune_clones, Cleanup.
THEOREM OldWorkNeverLost == Spec => OldWorkKept
  <1>1. Init => WorkInv
    BY DEF Init, WorkInv, WorkInGit, Entitled, Left
  <1>2. TypeOK /\ WorkInv /\ [Next]_vars => WorkInv'
    BY WorkStep
  <1>3. TypeOK /\ WorkInv /\ [Next]_vars =>
          [\A w \in Ws : tree[w].work /\ ~tree'[w].work =>
              \E p \in Process : Excused(p, w)]_vars
    BY WorkStep
  <1>4. Spec => [][\A w \in Ws : tree[w].work /\ ~tree'[w].work =>
                     \E p \in Process : Excused(p, w)]_vars
    BY <1>1, <1>2, <1>3, TypeCorrect, PTL DEF Spec
  <1> QED
    BY <1>4 DEF OldWorkKept, Excused

(***************************************************************************)
(* While commands come one at a time.                                      *)
(***************************************************************************)
\* What p goes by when it puts, removes or forgets a clone, and nobody else is there
\* to make it untrue: a launch is of a workspace devpod does not list, a prune has
\* seen all that devpod lists, `drop` comes after devpod has let go, and what is to
\* be forgotten is gone.
Sound(p) ==
    /\ pc[p] \in {"lock", "check", "clone", "record"} /\ Launching(p) =>
         my[p].ws \notin listed
    /\ pc[p] \in {"fetch", "base", "cut", "look", "tree", "drop"} =>
         my[p].ws \notin listed
    /\ pc[p] \in {"relock", "remove"} => listed \subseteq my[p].seen
    /\ pc[p] \in {"confirm", "relist", "relock", "remove", "forget"} =>
         \A w \in my[p].forget : tree[w].at = "none"

SoundInv ==
    /\ overlapped \in BOOLEAN
    /\ overlapped \/ (Alone /\ ListedHasClone /\ \A p \in Process : Sound(p))

\* One step leaves no listed workspace without its clone, and no clone without a record.
Strands == ~(ListedHasClone' /\ DropsTheDead)

\* The steps whose next one goes by nothing.
Heedless == {"idle", "repoint", "checkout", "lfs", "note", "up", "try", "sweep",
             "plan", "delete"}

LEMMA HeedlessSound ==
    ASSUME NEW p \in Process, pc'[p] \in Heedless
    PROVE  Sound(p)'
  BY DEF Sound, Heedless

\* No clone comes or goes and nothing is listed or dropped.
LEMMA StillStrandsNot ==
    ASSUME ListedHasClone, listed' = listed, noted \subseteq noted', listed \subseteq Ws,
           \A w \in Ws : tree'[w].at = tree[w].at
    PROVE  ~Strands
  BY DEF ListedHasClone, DropsTheDead, Strands

\* One clone of a workspace that is not listed is put, removed or torn.
LEMMA PutStrandsNot ==
    ASSUME Types, ListedHasClone, listed' = listed, noted' = noted,
           NEW w \in Ws, w \notin listed, NEW t, Put(w, t)
    PROVE  ~Strands
  <1>1. \A v \in Ws : v # w => tree'[v] = tree[v]
    BY DEF Put, Types
  <1> QED
    BY <1>1 DEF ListedHasClone, DropsTheDead, Strands, Types

LEMMA BeginSound ==
    ASSUME Types, NEW p \in Process, Begin(p)
    PROVE  Sound(p)' /\ UNCHANGED <<tree, listed, noted>> /\ pc[p] = "idle"
  <1>1. ASSUME NEW verb, NEW w \in Ws, NEW force,
               NEW step \in Step, Ask(p, verb, w, force, step)
        PROVE  /\ pc'[p] = step /\ UNCHANGED <<tree, listed, noted>> /\ pc[p] = "idle"
               /\ my'[p].verb = verb /\ my'[p].ws = w
    <2>1. my' = [my EXCEPT ![p] =
                   [Untold EXCEPT !.verb = verb, !.ws = w, !.force = force,
                                  !.knows = entry, !.noted = noted,
                                  !.asked = forge[w], !.old = Working,
                                  !.seen = listed]]
      BY <1>1 DEF Ask
    <2>2. my'[p].verb = verb /\ my'[p].ws = w
      BY <2>1 DEF Types, Untold
    <2> QED
      BY <1>1, <2>2, GotoFacts DEF Ask, disk
  <1>2. {"lock", "try", "plan", "delete"} \subseteq Step
    BY DEF Step
  <1>3. Untold.ws \in Ws
    BY UntoldType DEF Mine
  <1>4. ASSUME NEW w \in Ws, BeginLaunch(p, w)
        PROVE  Sound(p)' /\ UNCHANGED <<tree, listed, noted>> /\ pc[p] = "idle"
    <2>1. /\ pc'[p] = "lock" /\ UNCHANGED <<tree, listed, noted>> /\ pc[p] = "idle"
          /\ my'[p].ws = w /\ w \notin listed
      BY <1>1, <1>2, <1>4 DEF BeginLaunch
    <2> QED
      BY <2>1 DEF Sound
  <1>5. CASE BeginEnsure(p)
    <2>1. /\ pc'[p] = "lock" /\ UNCHANGED <<tree, listed, noted>> /\ pc[p] = "idle"
          /\ my'[p].verb = "ensure"
      BY <1>1, <1>2, <1>3, <1>5 DEF BeginEnsure
    <2> QED
      BY <2>1 DEF Sound, Launching
  <1>6. CASE BeginSweep(p) \/ BeginPrune(p) \/ \E w \in Ws : BeginRemove(p, w)
    <2>1. /\ pc'[p] \in {"try", "plan", "delete"}
          /\ UNCHANGED <<tree, listed, noted>> /\ pc[p] = "idle"
      BY <1>1, <1>2, <1>3, <1>6 DEF BeginSweep, BeginPrune, BeginRemove
    <2> QED
      BY <2>1, HeedlessSound DEF Heedless
  <1> QED
    BY <1>4, <1>5, <1>6 DEF Begin

\* The scope of a launch up to the clone: the workspace asked for stays the one
\* devpod did not list.
LEMMA LaunchSound ==
    ASSUME Types, ListedHasClone, NEW p \in Process, Sound(p),
           \/ Acquire(p, "lock", "check") \/ Check(p) \/ Clone(p) \/ Record(p)
           \/ Fetch(p) \/ FetchBase(p) \/ Cut(p) \/ Look(p)
    PROVE  Sound(p)' /\ ~Strands
  <1>1. UNCHANGED <<tree, listed, noted>>
    BY DEF Acquire, Check, Clone, Record, Fetch, FetchBase, Cut, Look, disk
  <1>2. ~Strands
    BY <1>1, StillStrandsNot DEF Types
  <1>3. CASE End(p)
    BY <1>2, <1>3, EndFacts, HeedlessSound DEF Heedless
  <1>4. CASE /\ ~End(p)
             /\ Acquire(p, "lock", "check") \/ Check(p) \/ Clone(p) \/ Record(p)
    <2>1. my' = my /\ pc[p] \in {"lock", "check", "clone", "record"}
      BY <1>4 DEF Acquire, Check, Clone, Record, WithCache
    <2>2. pc'[p] \in {"check", "clone", "record", "fetch"}
      BY <1>4, GotoFacts DEF Acquire, Check, Clone, Record, WithCache, Step
    <2>3. pc'[p] = "fetch" => Launching(p)
      BY <1>4, GotoFacts DEF Acquire, Check, Clone, Record, WithCache, Step
    <2> QED
      BY <1>1, <1>2, <2>1, <2>2, <2>3 DEF Sound, Launching
  <1>5. CASE /\ ~End(p)
             /\ Fetch(p) \/ FetchBase(p) \/ Cut(p) \/ Look(p)
    <2>1. my'[p].ws = my[p].ws /\ pc[p] \in {"fetch", "base", "cut", "look"}
      BY <1>5 DEF Fetch, FetchBase, Cut, Look, Types, Mine
    <2>2. pc'[p] \in {"base", "cut", "look", "tree", "checkout"}
      BY <1>5, GotoFacts DEF Fetch, FetchBase, Cut, Look, Step
    <2> QED
      BY <1>1, <1>2, <2>1, <2>2 DEF Sound
  <1> QED
    BY <1>3, <1>4, <1>5

\* The clone is put where devpod knows of none, and from there on only filled in.
LEMMA CloneSound ==
    ASSUME Types, ListedHasClone, NEW p \in Process, Sound(p),
           \/ CloneTree(p) \/ Repoint(p) \/ Checkout(p) \/ Materialize(p)
           \/ Note(p) \/ Up(p) \/ TryLock(p) \/ Sweep(p) \/ Crash(p)
    PROVE  Sound(p)' /\ ~Strands
  <1> DEFINE w == my[p].ws
  <1>1. w \in Ws
    BY DEF Types, Mine
  <1>2. Sound(p)'
    <2>1. pc'[p] \in Heedless
      <3>1. CASE CloneTree(p) \/ Repoint(p) \/ Checkout(p)
        BY <3>1, Leads DEF CloneTree, Repoint, Checkout, Step, Heedless
      <3>2. CASE Materialize(p) \/ Note(p) \/ Up(p)
        BY <3>2, Leads DEF Materialize, Note, Up, Step, Heedless
      <3>3. CASE TryLock(p) \/ Sweep(p) \/ Crash(p)
        BY <3>3, Leads DEF TryLock, Sweep, Crash, Step, Heedless
      <3> QED
        BY <3>1, <3>2, <3>3
    <2> QED
      BY <2>1, HeedlessSound
  <1>3. CASE UNCHANGED <<tree, listed>> /\ noted \subseteq noted'
    BY <1>2, <1>3, StillStrandsNot DEF Types
  <1>4. CASE CloneTree(p)
    <2>1. /\ w \notin listed /\ listed' = listed /\ noted' = noted
          /\ \E t : Put(w, t)
      BY <1>4 DEF CloneTree, Sound
    <2> QED
      BY <1>1, <1>2, <2>1, PutStrandsNot
  <1>5. CASE Crash(p)
    <2>1. listed' = listed /\ noted' = noted
      BY <1>5 DEF Crash
    <2>2. CASE ~UNCHANGED tree
      <3>1. w \notin listed /\ \E t : Put(w, t)
        BY <1>5, <2>2 DEF Crash, Halfway, Sound
      <3> QED
        BY <1>1, <1>2, <2>1, <3>1, PutStrandsNot
    <2> QED
      BY <1>3, <2>1, <2>2
  <1>6. CASE Repoint(p) \/ Checkout(p) \/ Materialize(p)
    <2>1. listed' = listed /\ noted' = noted
      BY <1>6 DEF Repoint, Checkout, Materialize
    <2>2. \A v \in Ws : tree'[v].at = tree[v].at
      BY <1>1, <1>6 DEF Repoint, Checkout, Materialize, Types, Tree
    <2> QED
      BY <1>2, <2>1, <2>2, StillStrandsNot DEF Types
  <1>7. CASE Note(p) \/ TryLock(p) \/ Sweep(p)
    BY <1>3, <1>7 DEF Note, TryLock, Sweep, disk
  <1>8. CASE Up(p)
    <2>1. /\ tree' = tree /\ noted' = noted
          /\ listed' = listed \/ (listed' = listed \cup {w} /\ tree[w].at # "none")
      BY <1>8 DEF Up, disk
    <2> QED
      BY <1>2, <2>1 DEF Strands, ListedHasClone, DropsTheDead
  <1> QED
    BY <1>4, <1>5, <1>6, <1>7, <1>8

\* A prune acts on a listing nobody has added to since it was read.
PruneFirst(p) == \/ Plan(p) \/ Confirm(p) \/ Relist(p)
                 \/ Acquire(p, "relock", "remove")

LEMMA PruneSound ==
    ASSUME Types, ListedHasClone, NEW p \in Process, Sound(p), PruneFirst(p)
    PROVE  Sound(p)' /\ ~Strands
  <1>1. UNCHANGED <<tree, listed, noted>>
    <2>1. Plan(p) => UNCHANGED <<disk, listed>>
      BY Zenon DEF Plan
    <2> QED
      BY <2>1 DEF PruneFirst, Confirm, Relist, Acquire, disk
  <1>2. ~Strands
    BY <1>1, StillStrandsNot DEF Types
  <1>3. CASE End(p)
    BY <1>2, <1>3, EndFacts, HeedlessSound DEF Heedless
  <1>4. CASE Plan(p)
    <2>1. Goto(p, "confirm")
      BY <1>4, Zenon DEF Plan
    <2>2. pc'[p] = "confirm"
      BY <2>1, GotoFacts DEF Step
    <2> DEFINE gone == {w \in my[p].noted : tree[w].at = "none"}
    <2>3. PICK refused \in SUBSET Ws :
            LET stands == {w \in Orphaned(p) : Stands(w) \/ w \in refused}
                forced == IF my[p].force THEN stands ELSE {}
            IN my' = [my EXCEPT
                        ![p].plan = (Orphaned(p) \ stands) \cup forced,
                        ![p].promoted = forced, ![p].objected = stands,
                        ![p].forget = gone]
      BY <1>4, Zenon DEF Plan
    <2> DEFINE stands == {w \in Orphaned(p) : Stands(w) \/ w \in refused}
               forced == IF my[p].force THEN stands ELSE {}
               plan   == (Orphaned(p) \ stands) \cup forced
    <2>4. my' = [my EXCEPT ![p].plan = plan, ![p].promoted = forced,
                           ![p].objected = stands, ![p].forget = gone]
      BY <2>3, Zenon
    <2>5. my'[p].forget = gone
      <3> HIDE DEF plan, stands, forced, gone
      <3> QED
        BY <2>4 DEF Types, Mine
    <2> QED
      BY <1>1, <1>2, <2>2, <2>5 DEF Sound
  <1>5. CASE ~End(p) /\ (Confirm(p) \/ Acquire(p, "relock", "remove"))
    <2>1. /\ my' = my
          /\ \/ pc[p] = "confirm" /\ pc'[p] = "relist"
             \/ pc[p] = "relock" /\ pc'[p] = "remove"
      BY <1>5, GotoFacts DEF Confirm, Acquire, Step
    <2> QED
      BY <1>1, <1>2, <2>1 DEF Sound
  <1>6. CASE ~End(p) /\ Relist(p)
    <2>1. pc[p] = "relist" /\ pc'[p] \in {"forget", "relock"}
      BY <1>6, GotoFacts DEF Relist, Step
    <2>2. my'[p].seen = listed /\ my'[p].forget = my[p].forget
      BY <1>6 DEF Relist, Types, Mine
    <2> QED
      BY <1>1, <1>2, <2>1, <2>2 DEF Sound
  <1> QED
    BY <1>3, <1>4, <1>5, <1>6 DEF PruneFirst

LEMMA PartsThere ==
    ASSUME NEW t \in Tree, NEW part \in Parts(t)
    PROVE  part.at # "none"
  <1>1. CASE part \in {Left("husk"), Left("hollow")}
    BY <1>1 DEF Left
  <1>2. CASE t.at = "git" /\ part = [t EXCEPT !.work = TRUE]
    BY <1>2 DEF Tree
  <1> QED
    BY <1>1, <1>2 DEF Parts

\* What is removed was in no listing, and what is then to be forgotten is gone.
LEMMA RemoveSound ==
    ASSUME Types, ListedHasClone, NEW p \in Process, Sound(p), Remove(p)
    PROVE  Sound(p)' /\ ~Strands
  <1>1. /\ pc[p] = "remove" /\ pc'[p] \in {"remove", "forget"}
        /\ listed' = listed /\ noted' = noted
        /\ my[p].plan \subseteq Ws /\ my[p].forget \subseteq Ws
        /\ my'[p].seen = my[p].seen
    BY GotoFacts DEF Remove, Step, Types, Mine
  <1>2. listed \subseteq my[p].seen /\ \A w \in my[p].forget : tree[w].at = "none"
    BY <1>1 DEF Sound
  <1>3. SUFFICES /\ \A w \in my'[p].forget : tree'[w].at = "none"
                 /\ ~Strands
    BY <1>1, <1>2 DEF Sound
  <1>4. CASE UNCHANGED tree /\ my'[p].forget = my[p].forget
    BY <1>1, <1>2, <1>4, StillStrandsNot DEF Types
  <1>5. ASSUME NEW w \in my[p].plan, w \notin my[p].seen, Put(w, Left("none")),
               my'[p].forget \subseteq my[p].forget \cup {w}
        PROVE  (\A v \in my'[p].forget : tree'[v].at = "none") /\ ~Strands
    <2>1. tree'[w].at = "none" /\ \A v \in Ws : v # w => tree'[v] = tree[v]
      BY <1>1, <1>5 DEF Put, Types, Left
    <2> QED
      BY <1>1, <1>2, <1>5, <2>1, PutStrandsNot
  <1>6. ASSUME NEW w \in my[p].plan, w \notin my[p].seen, tree[w].at # "none",
               NEW t, Put(w, t), my'[p].forget = my[p].forget
        PROVE  (\A v \in my'[p].forget : tree'[v].at = "none") /\ ~Strands
    <2>1. \A v \in Ws : v # w => tree'[v] = tree[v]
      BY <1>6 DEF Put, Types
    <2> QED
      BY <1>1, <1>2, <1>6, <2>1, PutStrandsNot
  <1>7. PICK w \in my[p].plan :
          LET left(dropped) == my' = [my EXCEPT ![p].plan = @ \ {w},
                                               ![p].forget = @ \cup dropped]
          IN \/ /\ w \notin my[p].seen
                /\ \/ Put(w, Left("none")) /\ left({w} \cap my[p].noted)
                   \/ /\ tree[w].at # "none"
                      /\ \E part \in Parts(tree[w]) : Put(w, part)
                      /\ left({})
             \/ UNCHANGED tree /\ left({})
    BY DEF Remove
  <1>8. \A dropped : my' = [my EXCEPT ![p].plan = @ \ {w}, ![p].forget = @ \cup dropped]
                       => my'[p].forget = my[p].forget \cup dropped
    BY DEF Types, Mine
  <1>9. CASE w \notin my[p].seen /\ Put(w, Left("none"))
             /\ my'[p].forget = my[p].forget \cup ({w} \cap my[p].noted)
    BY <1>5, <1>9
  <1>10. CASE /\ w \notin my[p].seen /\ tree[w].at # "none"
              /\ \E part \in Parts(tree[w]) : Put(w, part)
              /\ my'[p].forget = my[p].forget \cup {}
    BY <1>6, <1>10
  <1>11. CASE UNCHANGED tree /\ my'[p].forget = my[p].forget \cup {}
    BY <1>4, <1>11
  <1> QED
    BY <1>7, <1>8, <1>9, <1>10, <1>11, Zenon

LEMMA ForgetSound ==
    ASSUME Types, ListedHasClone, NEW p \in Process, Sound(p), Forget(p)
    PROVE  Sound(p)' /\ ~Strands
  <1>1. UNCHANGED <<tree, listed>> /\ pc[p] = "forget"
    BY DEF Forget
  <1>2. \A w \in my[p].forget : tree[w].at = "none"
    BY <1>1 DEF Sound
  <1>3. CASE my[p].forget = {}
    BY <1>1, <1>3, EndFacts, HeedlessSound, StillStrandsNot DEF Forget, Heedless, Types
  <1>4. CASE my[p].forget # {}
    <2>1. PICK w \in my[p].forget : /\ my' = [my EXCEPT ![p].forget = @ \ {w}]
                                    /\ noted' = noted \ {w} \/ UNCHANGED noted
      BY <1>4 DEF Forget
    <2>2. my'[p].forget \subseteq my[p].forget /\ pc' = pc
      BY <1>4, <2>1 DEF Forget, Types, Mine
    <2> QED
      BY <1>1, <1>2, <2>1, <2>2 DEF Sound, Strands, ListedHasClone, DropsTheDead
  <1> QED
    BY <1>3, <1>4

\* devpod lets go of the workspace first, and the clone goes after that.
LEMMA DeleteSound ==
    ASSUME Types, ListedHasClone, NEW p \in Process, Sound(p), Delete(p)
    PROVE  Sound(p)' /\ ~Strands
  <1>1. /\ UNCHANGED <<tree, noted>> /\ listed' \subseteq listed
        /\ ~End(p) => my' = my /\ my[p].ws \notin listed'
    BY DEF Delete, disk
  <1>2. pc'[p] \in {"drop", "idle"}
    BY Leads DEF Delete, Step
  <1>3. CASE End(p)
    BY <1>1, <1>3, EndFacts, HeedlessSound
    DEF Heedless, Strands, ListedHasClone, DropsTheDead
  <1>4. CASE ~End(p)
    BY <1>1, <1>2, <1>4 DEF Sound, Strands, ListedHasClone, DropsTheDead
  <1> QED
    BY <1>3, <1>4

LEMMA DropSound ==
    ASSUME Types, ListedHasClone, NEW p \in Process, Sound(p), Drop(p)
    PROVE  Sound(p)' /\ ~Strands
  <1> DEFINE w == my[p].ws
  <1>1. /\ w \in Ws /\ w \notin listed /\ pc[p] = "drop"
        /\ listed' = listed /\ noted' = noted
    BY DEF Drop, Types, Mine, Sound
  <1>2. ~Strands
    BY <1>1, PutStrandsNot, StillStrandsNot DEF Drop, Types
  <1>3. CASE End(p)
    BY <1>2, <1>3, EndFacts, HeedlessSound DEF Heedless
  <1>4. CASE ~End(p)
    <2>1. Put(w, Left("none")) /\ my' = [my EXCEPT ![p].forget = {w}] /\ Goto(p, "forget")
      BY <1>4 DEF Drop
    <2>2. tree'[w].at = "none" /\ my'[p].forget = {w} /\ pc'[p] = "forget"
      BY <1>1, <2>1, GotoFacts DEF Put, Types, Mine, Left, Step
    <2> QED
      BY <1>2, <2>2 DEF Sound
  <1> QED
    BY <1>3, <1>4

LEMMA ActsSound ==
    ASSUME Types, ListedHasClone, NEW p \in Process, Sound(p), Acts(p)
    PROVE  Sound(p)' /\ ~Strands
  <1>1. CASE Begin(p)
    BY <1>1, BeginSound, StillStrandsNot DEF Types
  <1> QED
    BY <1>1, LaunchSound, CloneSound, PruneSound, RemoveSound, ForgetSound,
       DeleteSound, DropSound
    DEF Acts, Launch, Prune, PruneFirst

LEMMA IdleBegins ==
    ASSUME NEW p \in Process, Acts(p), pc[p] = "idle"
    PROVE  Begin(p)
  BY DEF Acts, Acquire, Launch, Prune, TryLock, Sweep, Delete, Drop, Crash,
     Check, Clone, Record, Fetch, FetchBase, Cut, Look, CloneTree, Repoint,
     Checkout, Materialize, Note, Up, Plan, Confirm, Relist, Remove, Forget

\* A command that begins changes no other's grounds, and one under way has nobody
\* beside it.
LEMMA SoundStep ==
    TypeOK /\ SoundInv /\ [MCNext]_<<vars, overlapped>> =>
        SoundInv' /\ (overlapped' \/ ~Strands)
  <1> SUFFICES ASSUME Types, SoundInv, [MCNext]_<<vars, overlapped>>
               PROVE  SoundInv' /\ (overlapped' \/ ~Strands)
    BY DEF TypeOK
  <1>1. CASE UNCHANGED <<vars, overlapped>>
    <2>1. SoundInv'
      BY <1>1 DEF SoundInv, Sound, Alone, Active, Launching, ListedHasClone,
         vars, disk, counts
    <2>2. overlapped' \/ ~Strands
      BY <1>1, StillStrandsNot DEF SoundInv, Types, vars, disk
    <2> QED
      BY <2>1, <2>2
  <1>2. CASE MCNext
    <2>1. overlapped' \in BOOLEAN /\ overlapped' = (overlapped \/ ~Alone')
      BY <1>2 DEF MCNext, SoundInv
    <2>2. CASE overlapped'
      BY <2>1, <2>2 DEF SoundInv
    <2>3. CASE ~overlapped'
      <3>1. Alone /\ Alone' /\ ListedHasClone /\ \A p \in Process : Sound(p)
        BY <2>1, <2>3 DEF SoundInv
      <3>2. SUFFICES (\A p \in Process : Sound(p)') /\ ~Strands
        BY <2>1, <3>1 DEF SoundInv, Strands
      <3>3. ASSUME NEW p \in Process, Acts(p)
            PROVE  (\A q \in Process : Sound(q)') /\ ~Strands
        <4>1. Sound(p)' /\ ~Strands /\ Others(p)
          BY <3>1, <3>3, ActsSound, ActsStep DEF Moves
        <4>2. ASSUME NEW q \in Process, q # p PROVE Sound(q)'
          <5>1. pc'[q] = pc[q] /\ my'[q] = my[q]
            BY <4>1, <4>2 DEF Others
          <5>2. CASE pc[q] = "idle"
            BY <5>1, <5>2, HeedlessSound DEF Heedless
          <5>3. CASE pc[q] # "idle"
            <6>1. pc[p] = "idle"
              BY <3>1, <4>2, <5>3 DEF Alone, Active
            <6>2. UNCHANGED <<tree, listed, noted>>
              BY <3>3, <6>1, IdleBegins, BeginSound
            <6> QED
              BY <3>1, <5>1, <6>2 DEF Sound, Launching
          <5> QED
            BY <5>2, <5>3
        <4> QED
          BY <4>1, <4>2
      <3>4. ASSUME NEW w \in Ws, Edit(w)
            PROVE  (\A q \in Process : Sound(q)') /\ ~Strands
        <4>1. /\ \A v \in Ws : tree'[v].at = tree[v].at
              /\ UNCHANGED <<listed, noted, pc, my>>
          BY <3>4 DEF Edit, Types, Tree
        <4>2. \A q \in Process : my[q].forget \subseteq Ws
          BY DEF Types, Mine
        <4>3. \A q \in Process : Sound(q)'
          BY <3>1, <4>1, <4>2 DEF Sound, Launching
        <4> QED
          BY <3>1, <4>1, <4>3, StillStrandsNot DEF Types
      <3>5. ASSUME NEW b \in Branch, Push(b)
            PROVE  (\A q \in Process : Sound(q)') /\ ~Strands
        <4>1. UNCHANGED <<tree, listed, noted, pc, my>>
          BY <3>5 DEF Push, disk
        <4> QED
          BY <3>1, <4>1, StillStrandsNot DEF Sound, Launching, Types
      <3> QED
        BY <1>2, <3>3, <3>4, <3>5, NextSplits DEF MCNext
    <2> QED
      BY <2>1, <2>2, <2>3
  <1> QED
    BY <1>1, <1>2

\* As long as commands come one at a time, and whatever was refused or killed before,
\* no workspace devpod lists has lost its clone and no record is dropped of a clone
\* that is there: remove_workspace_by_id after delete_one, prune_clones after its
\* second listing, run_devpod_up after prepare_workspace.
THEOREM OneByOneStrandsNothing == MCSpec => NothingStranded
  <1>1. MCInit => SoundInv
    BY DEF MCInit, Init, SoundInv, Alone, Active, ListedHasClone, Sound
  <1>2. TypeOK /\ SoundInv /\ [MCNext]_<<vars, overlapped>> => SoundInv'
    BY SoundStep
  <1>3. TypeOK /\ SoundInv /\ [MCNext]_<<vars, overlapped>> =>
          [overlapped' \/ ~Strands]_<<vars, overlapped>>
    BY SoundStep
  <1>4. MCInit => TypeOK
    BY TypeInit DEF MCInit
  <1>5. TypeOK /\ [MCNext]_<<vars, overlapped>> => TypeOK'
    BY TypeStep DEF MCNext, vars
  <1>6. MCSpec => [][overlapped' \/ ~Strands]_<<vars, overlapped>>
    BY <1>1, <1>2, <1>3, <1>4, <1>5, PTL DEF MCSpec
  <1>7. (overlapped' \/ ~Strands) <=> (overlapped' \/ (ListedHasClone' /\ DropsTheDead))
    BY DEF Strands
  <1> QED
    BY <1>6, <1>7, PTL DEF NothingStranded
=============================================================================
