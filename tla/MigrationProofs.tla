--------------------------- MODULE MigrationProofs ---------------------------
(***************************************************************************)
(* Theorems about Migration, for every set of records and paths, every     *)
(* layout of the old cache, every order of the records and any number of   *)
(* refused renames and deaths.                                             *)
(***************************************************************************)
EXTENDS Migration, TLAPS

\* The counters of refusals and deaths: one more, below the bound, is in range.
LEMMA CounterType ==
    ASSUME NEW max \in Nat, NEW n \in 0 .. max, n < max
    PROVE  n + 1 \in 0 .. max
  OBVIOUS

\* A record whose derived path is not blocked derives a path.
LEMMA DerivedType ==
    ASSUME NEW r \in Record, Derived[r] # NoPath
    PROVE  Derived[r] \in Path
  BY LayoutAssumption

(***************************************************************************)
(* Type correctness.                                                       *)
(***************************************************************************)
\* A step of the walk keeps every variable in its type.
LEMMA WalkType ==
    ASSUME TypeOK, NEW r \in Record, Walk(r)
    PROVE  TypeOK'
  <1>1. CASE LeaveBehind(r)
    BY <1>1 DEF LeaveBehind, TypeOK
  <1>2. CASE Follow(r)
    <2>1. Derived[r] \in Path
      BY <1>2, DerivedType DEF Follow, Repoint
    <2>2. at' = [at EXCEPT ![r] = Derived[r]]
      BY <1>2 DEF Follow, Repoint
    <2>3. at' \in [Record -> Path]
      BY <2>1, <2>2 DEF TypeOK
    <2> QED
      BY <1>2, <2>1, <2>3 DEF Follow, Repoint, TypeOK
  <1>3. CASE Rename(r)
    <2>1. Derived[r] \in Path
      BY <1>3, DerivedType DEF Rename, Repoint
    <2>2. at' = [at EXCEPT ![r] = Derived[r]]
      BY <1>3 DEF Rename, Repoint
    <2>3. at' \in [Record -> Path]
      BY <2>1, <2>2 DEF TypeOK
    <2>4. dir[at[r]] \in Record \cup {NoRecord, Stray}
      BY DEF TypeOK
    <2>5. dir' \in [Path -> Record \cup {NoRecord, Stray}]
      BY <1>3, <2>4 DEF Rename, TypeOK
    <2> QED
      BY <1>3, <2>1, <2>3, <2>5 DEF Rename, Repoint, TypeOK
  <1>4. CASE RefuseRename(r)
    <2>1. refusals' \in 0 .. MaxRefusals
      BY <1>4, CounterType, BoundAssumption DEF RefuseRename, TypeOK
    <2> QED
      BY <1>4, <2>1 DEF RefuseRename, TypeOK
  <1> QED
    BY <1>1, <1>2, <1>3, <1>4 DEF Walk

\* Each step of the specification keeps every variable in its type.
LEMMA TypeStep == TypeOK /\ [Next]_vars => TypeOK'
  <1> SUFFICES ASSUME TypeOK, [Next]_vars PROVE TypeOK'
    OBVIOUS
  <1>1. CASE BeginPass
    BY <1>1 DEF BeginPass, TypeOK
  <1>2. ASSUME NEW r \in Record, Walk(r) PROVE TypeOK'
    BY <1>2, WalkType
  <1>3. CASE Save
    BY <1>3 DEF Save, TypeOK
  <1>4. CASE Die
    <2>1. crashes' \in 0 .. MaxCrashes
      BY <1>4, CounterType, BoundAssumption DEF Die, TypeOK
    <2> QED
      BY <1>4, <2>1 DEF Die, TypeOK
  <1>5. CASE UNCHANGED vars
    BY <1>5 DEF vars, TypeOK
  <1> QED
    BY <1>1, <1>2, <1>3, <1>4, <1>5 DEF Next

\* The initial cache has the right type, whichever clones are there.
LEMMA TypeInit == Init => TypeOK
  <1> SUFFICES ASSUME Init PROVE TypeOK
    OBVIOUS
  <1>1. PICK there \in SUBSET Record,
             strays \in SUBSET (Path \ {Old[r] : r \in Record}) :
          dir = [p \in Path |->
                    IF \E r \in there : Old[r] = p
                    THEN CHOOSE r \in there : Old[r] = p
                    ELSE IF p \in strays THEN Stray ELSE NoRecord]
    BY DEF Init
  <1>2. ASSUME NEW p \in Path, \E r \in there : Old[r] = p
        PROVE  (CHOOSE r \in there : Old[r] = p) \in Record
    BY <1>2
  <1>3. dir \in [Path -> Record \cup {NoRecord, Stray}]
    BY <1>1, <1>2
  <1>4. /\ savedAt = Old /\ at = Old
        /\ current = FALSE /\ walking = FALSE
        /\ todo = {} /\ claimed = {} /\ failed = {}
        /\ refusals = 0 /\ crashes = 0
    BY Zenon DEF Init
  <1>5. 0 \in 0 .. MaxRefusals /\ 0 \in 0 .. MaxCrashes
    BY BoundAssumption
  <1> QED
    BY <1>3, <1>4, <1>5, LayoutAssumption DEF TypeOK

\* Every variable of the migration stays in its type (flows/migration.rs).
THEOREM TypeCorrect == Spec => []TypeOK
  BY TypeInit, TypeStep, PTL DEF Spec

(***************************************************************************)
(* No two records own one directory.                                       *)
(***************************************************************************)
IInv == TypeOK /\ NoSharedClone /\ ClaimedInv

\* Taking an unblocked derived path keeps the records of the pass apart.
LEMMA RepointKeepsApart ==
    ASSUME IInv, NEW r \in Record, Repoint(r)
    PROVE  NoSharedClone' /\ ClaimedInv'
  <1>1. Derived[r] \in Path /\ walking
    BY DerivedType DEF Repoint, Turn
  <1>2. at' = [at EXCEPT ![r] = Derived[r]] /\ at \in [Record -> Path]
    BY DEF Repoint, IInv, TypeOK
  <1>3. \A s \in Record \ {r} : at[s] # Derived[r]
    <2> SUFFICES ASSUME NEW s \in Record \ {r}, at[s] = Derived[r] PROVE FALSE
      OBVIOUS
    <2>1. Derived[r] \in claimed
      BY <1>1 DEF IInv, ClaimedInv
    <2>2. Derived[r] # at[r]
      BY <1>1 DEF IInv, NoSharedClone
    <2> QED
      BY <2>1, <2>2 DEF Repoint, IsBlocked
  <1>4. NoSharedClone'
    BY <1>1, <1>2, <1>3 DEF Repoint, IInv, NoSharedClone
  <1>5. ClaimedInv'
    BY <1>1, <1>2 DEF Repoint, IInv, ClaimedInv
  <1> QED
    BY <1>4, <1>5

\* The inductive step, one action at a time.
LEMMA ApartStep == IInv /\ [Next]_vars => IInv'
  <1> SUFFICES ASSUME IInv, [Next]_vars PROVE NoSharedClone' /\ ClaimedInv'
    BY TypeStep DEF IInv
  <1>1. CASE BeginPass
    BY <1>1 DEF BeginPass, IInv, NoSharedClone, ClaimedInv
  <1>2. ASSUME NEW r \in Record, Walk(r) PROVE NoSharedClone' /\ ClaimedInv'
    <2>1. CASE Follow(r) \/ Rename(r)
      BY <2>1, RepointKeepsApart DEF Follow, Rename
    <2>2. CASE LeaveBehind(r) \/ RefuseRename(r)
      BY <2>2 DEF LeaveBehind, RefuseRename, IInv, NoSharedClone, ClaimedInv
    <2> QED
      BY <1>2, <2>1, <2>2 DEF Walk
  <1>3. CASE Save
    BY <1>3 DEF Save, IInv, NoSharedClone, ClaimedInv
  <1>4. CASE Die
    BY <1>4 DEF Die, IInv, NoSharedClone, ClaimedInv
  <1>5. CASE UNCHANGED vars
    BY <1>5 DEF vars, IInv, NoSharedClone, ClaimedInv
  <1> QED
    BY <1>1, <1>2, <1>3, <1>4, <1>5 DEF Next

\* However the old cache was laid out, the migration never leaves two records
\* at one directory (#438), crashes and refused renames included.
THEOREM OneOwner == Spec => []NoSharedClone
  <1>1. Init => IInv
    BY TypeInit, LayoutAssumption DEF Init, IInv, NoSharedClone, ClaimedInv
  <1>2. IInv => NoSharedClone
    BY DEF IInv
  <1> QED
    BY <1>1, <1>2, ApartStep, PTL DEF Spec

(***************************************************************************)
(* No clone is lost.                                                       *)
(***************************************************************************)
\* Moving a record's clone from a path to one that holds none leaves the same clones.
LEMMA MoveKeepsClones ==
    ASSUME NEW d, NEW e, NEW from \in Path, NEW to \in Path,
           d \in [Path -> Record \cup {NoRecord, Stray}],
           d[to] = NoRecord, d[from] # NoRecord,
           e = [d EXCEPT ![to] = d[from], ![from] = NoRecord]
    PROVE  {e[p] : p \in Path} \cap Record = {d[p] : p \in Path} \cap Record
  <1>1. from # to /\ NoRecord \notin Record
    BY LayoutAssumption
  <1>2. e[to] = d[from] /\ e[from] = NoRecord
    BY <1>1
  <1>3. \A p \in Path \ {from, to} : e[p] = d[p]
    OBVIOUS
  <1>4. ASSUME NEW c \in Record, c \in {e[p] : p \in Path}
        PROVE  c \in {d[p] : p \in Path}
    <2>1. PICK p \in Path : c = e[p]
      BY <1>4
    <2>2. p # from
      BY <2>1, <1>1, <1>2
    <2> QED
      BY <2>1, <2>2, <1>2, <1>3
  <1>5. ASSUME NEW c \in Record, c \in {d[p] : p \in Path}
        PROVE  c \in {e[p] : p \in Path}
    <2>1. PICK p \in Path : c = d[p]
      BY <1>5
    <2>2. CASE p = from
      BY <2>1, <2>2, <1>2
    <2>3. CASE p # from
      <3>1. p # to
        BY <2>1, <1>1
      <3> QED
        BY <2>1, <2>3, <3>1, <1>3
    <2> QED
      BY <2>2, <2>3
  <1> QED
    BY <1>4, <1>5

\* Only a rename moves a clone, and it moves it where nothing is.
LEMMA ClonesStep == TypeOK /\ [Next]_vars => Clones' = Clones
  <1> SUFFICES ASSUME TypeOK, [Next]_vars PROVE Clones' = Clones
    OBVIOUS
  <1>1. ASSUME NEW r \in Record, Rename(r) PROVE Clones' = Clones
    <2>1. Derived[r] \in Path /\ at[r] \in Path
      BY <1>1, DerivedType DEF Rename, Repoint, TypeOK
    <2>2. dir' = [dir EXCEPT ![Derived[r]] = dir[at[r]], ![at[r]] = NoRecord]
      BY <1>1 DEF Rename
    <2>3. dir[Derived[r]] = NoRecord /\ dir[at[r]] # NoRecord
      BY <1>1 DEF Rename, Exists
    <2> QED
      BY <2>1, <2>2, <2>3, MoveKeepsClones DEF Clones, TypeOK
  <1>2. ASSUME UNCHANGED dir PROVE Clones' = Clones
    BY <1>2 DEF Clones
  <1>3. (\E r \in Record : Rename(r)) \/ UNCHANGED dir
    BY DEF Next, Walk, BeginPass, LeaveBehind, Follow, RefuseRename, Save, Die, vars
  <1> QED
    BY <1>1, <1>2, <1>3

(***************************************************************************)
(* A migrated cache is at home.                                            *)
(***************************************************************************)
\* Everything a record has ever pointed at is one of its two names, and what a pass
\* claims is where some record was before it or has been put by it.
TwoNames(path) == \A r \in Record : path[r] \in {Old[r], Derived[r]}

PlaceInv ==
    /\ TwoNames(savedAt) /\ TwoNames(at)
    /\ walking =>
          /\ \A r \in Record : at[r] \in {savedAt[r], Derived[r]}
          /\ \A r \in Record : savedAt[r] \in claimed
          /\ \A c \in claimed : \E s \in Record : c \in {savedAt[s], at[s]}
    /\ current => ~walking

\* A record the migration has come to: on its derived path, or left where it was for
\* one of the two reasons it reports.
DoneAt(path, r) ==
    \/ path[r] = Derived[r]
    \/ path[r] = Old[r] /\ (Derived[r] = NoPath \/ Contested(r))

DoneInv ==
    /\ walking => \A r \in Record \ (todo \cup failed) : DoneAt(at, r)
    /\ CurrentMeansDone

\* A record whose name nobody else wants.
Uncontested(r) == Derived[r] # NoPath /\ ~Contested(r)

\* Its clone is at one of its two names, at the old one only while the record says so
\* or a stray clone has the other; and nobody else's is ever put at either.
HomeOf(r) ==
    \/ dir[Derived[r]] = r
    \/ dir[Old[r]] = r /\ savedAt[r] = Old[r] /\ (walking => at[r] = Old[r])
    \/ dir[Old[r]] = r /\ dir[Derived[r]] = Stray

HomeInv ==
    /\ \A r \in Record : savedAt[r] = Old[r] => dir[Old[r]] \in {NoRecord, r}
    /\ \A r \in Record : Uncontested(r) => dir[Derived[r]] \in {NoRecord, r, Stray}
    /\ \A r \in Clones : Uncontested(r) => HomeOf(r)

MInv == IInv /\ PlaceInv /\ DoneInv /\ HomeInv

\* The old cache: each clone is where its record says, and no record has been moved.
LEMMA HomeInit == Init => MInv
  <1> SUFFICES ASSUME Init PROVE MInv
    OBVIOUS
  <1>1. IInv
    BY TypeInit, LayoutAssumption DEF Init, IInv, NoSharedClone, ClaimedInv
  <1>2. PICK there \in SUBSET Record,
             strays \in SUBSET (Path \ {Old[r] : r \in Record}) :
          dir = [p \in Path |->
                    IF \E r \in there : Old[r] = p
                    THEN CHOOSE r \in there : Old[r] = p
                    ELSE IF p \in strays THEN Stray ELSE NoRecord]
    BY DEF Init
  <1>3. savedAt = Old /\ at = Old /\ current = FALSE /\ walking = FALSE
    BY Zenon DEF Init
  <1>4. ASSUME NEW p \in Path
        PROVE  \/ dir[p] = NoRecord
               \/ dir[p] = Stray /\ \A r \in Record : Old[r] # p
               \/ dir[p] \in Record /\ Old[dir[p]] = p
    <2>1. CASE \E r \in there : Old[r] = p
      <3>1. dir[p] = CHOOSE r \in there : Old[r] = p
        BY <1>2, <2>1
      <3> QED
        BY <2>1, <3>1
    <2>2. CASE ~\E r \in there : Old[r] = p
      <3>1. dir[p] = IF p \in strays THEN Stray ELSE NoRecord
        BY <1>2, <2>2
      <3> QED
        BY <3>1
    <2> QED
      BY <2>1, <2>2
  <1>5. \A p \in Path : dir[p] \in Record \cup {NoRecord, Stray}
    BY <1>1 DEF IInv, TypeOK
  <1>6. \A r \in Record : Old[r] \in Path /\ Derived[r] \in Path \cup {NoPath}
    BY LayoutAssumption
  <1>7. PlaceInv /\ DoneInv
    BY <1>3 DEF PlaceInv, DoneInv, TwoNames, CurrentMeansDone
  <1>8. ASSUME NEW r \in Record PROVE dir[Old[r]] \in {NoRecord, r}
    <2>1. \/ dir[Old[r]] = NoRecord
          \/ dir[Old[r]] \in Record /\ Old[dir[Old[r]]] = Old[r]
      BY <1>4, <1>5, <1>6
    <2> QED
      BY <2>1, LayoutAssumption
  <1>9. ASSUME NEW r \in Record, Uncontested(r)
        PROVE  dir[Derived[r]] \in {NoRecord, r, Stray}
    <2>1. Derived[r] \in Path
      BY <1>9, DerivedType DEF Uncontested
    <2>2. \A s \in Record \ {r} : Derived[r] # Old[s]
      BY <1>9 DEF Uncontested, Contested
    <2> QED
      BY <2>1, <2>2, <1>4, <1>5
  <1>10. ASSUME NEW r \in Clones PROVE HomeOf(r)
    <2>1. PICK p \in Path : dir[p] = r
      BY <1>10 DEF Clones
    <2>2. Old[r] = p
      BY <2>1, <1>4, <1>10, LayoutAssumption DEF Clones
    <2> QED
      BY <2>1, <2>2, <1>3 DEF HomeOf
  <1>11. HomeInv
    BY <1>8, <1>9, <1>10 DEF HomeInv
  <1> QED
    BY <1>1, <1>7, <1>11 DEF MInv

\* Repointing leaves every path one of its record's two names, and claims no other.
LEMMA RepointKeepsPlaces ==
    ASSUME MInv, NEW r \in Record, Repoint(r)
    PROVE  PlaceInv' /\ DoneInv'
  <1>1. /\ at' = [at EXCEPT ![r] = Derived[r]] /\ at \in [Record -> Path]
        /\ walking /\ walking' = walking /\ savedAt' = savedAt
        /\ current' = current /\ failed' = failed
        /\ claimed' = claimed \cup {Derived[r]} /\ todo' = todo \ {r}
    BY DEF Repoint, Turn, MInv, IInv, TypeOK
  <1>2. at'[r] = Derived[r] /\ \A s \in Record \ {r} : at'[s] = at[s]
    BY <1>1
  <1>3. TwoNames(savedAt)' /\ TwoNames(at)'
    BY <1>1, <1>2 DEF MInv, PlaceInv, TwoNames
  <1>4. /\ \A s \in Record : at'[s] \in {savedAt'[s], Derived[s]}
        /\ \A s \in Record : savedAt'[s] \in claimed'
    BY <1>1, <1>2 DEF MInv, PlaceInv
  <1>5. ASSUME NEW c \in claimed'
        PROVE  \E s \in Record : c \in {savedAt'[s], at'[s]}
    <2>1. CASE c = Derived[r]
      BY <2>1, <1>2
    <2>2. CASE c # Derived[r]
      <3>1. PICK s \in Record : c \in {savedAt[s], at[s]}
        BY <2>2, <1>1 DEF MInv, PlaceInv
      <3>2. CASE s = r
        <4>1. c = savedAt[r]
          BY <2>2, <3>1, <3>2, <1>1 DEF MInv, PlaceInv
        <4> QED
          BY <4>1, <1>1
      <3>3. CASE s # r
        BY <3>1, <3>3, <1>1, <1>2
      <3> QED
        BY <3>2, <3>3
    <2> QED
      BY <2>1, <2>2
  <1>6. PlaceInv'
    BY <1>1, <1>3, <1>4, <1>5 DEF PlaceInv, MInv
  <1>7. \A s \in Record \ (todo' \cup failed') : DoneAt(at, s)'
    BY <1>1, <1>2 DEF DoneAt, MInv, DoneInv, Contested
  <1>8. DoneInv'
    BY <1>1, <1>7 DEF DoneInv, MInv, CurrentMeansDone, Contested
  <1> QED
    BY <1>6, <1>8

\* A record left behind has a reason the migration reports: its ref derives nothing,
\* or another record was at the path it derives, or derives it too.
LEMMA LeftBehindIsDone ==
    ASSUME MInv, NEW r \in Record, LeaveBehind(r)
    PROVE  DoneAt(at, r)
  <1>1. walking /\ at[r] \in {Old[r], Derived[r]}
    BY DEF LeaveBehind, Turn, MInv, PlaceInv, TwoNames
  <1>2. CASE Derived[r] = NoPath
    BY <1>1, <1>2 DEF DoneAt
  <1>3. CASE IsBlocked(r)
    <2>1. PICK s \in Record : Derived[r] \in {savedAt[s], at[s]}
      BY <1>1, <1>3 DEF IsBlocked, MInv, PlaceInv
    <2>2. s # r
      BY <1>1, <1>3, <2>1 DEF IsBlocked, MInv, PlaceInv
    <2>3. Derived[r] \in {Old[s], Derived[s]}
      BY <2>1 DEF MInv, PlaceInv, TwoNames
    <2>4. Contested(r)
      BY <2>2, <2>3 DEF Contested
    <2> QED
      BY <1>1, <2>4 DEF DoneAt
  <1> QED
    BY <1>2, <1>3 DEF LeaveBehind

\* Where records are, and which of them are done with, one action at a time.
LEMMA PlaceStep == MInv /\ [Next]_vars => PlaceInv' /\ DoneInv'
  <1> SUFFICES ASSUME MInv, [Next]_vars PROVE PlaceInv' /\ DoneInv'
    OBVIOUS
  <1>1. CASE BeginPass
    <2>1. PlaceInv'
      BY <1>1 DEF BeginPass, MInv, PlaceInv, TwoNames
    <2>2. DoneInv'
      BY <1>1 DEF BeginPass, MInv, DoneInv, CurrentMeansDone, Contested
    <2> QED
      BY <2>1, <2>2
  <1>2. ASSUME NEW r \in Record, Walk(r) PROVE PlaceInv' /\ DoneInv'
    <2>1. CASE Follow(r) \/ Rename(r)
      BY <2>1, RepointKeepsPlaces DEF Follow, Rename
    <2>2. CASE LeaveBehind(r)
      <3>1. DoneAt(at, r)
        BY <2>2, LeftBehindIsDone
      <3>2. PlaceInv'
        BY <2>2 DEF LeaveBehind, MInv, PlaceInv, TwoNames
      <3>3. DoneInv'
        BY <2>2, <3>1
        DEF LeaveBehind, MInv, DoneInv, DoneAt, CurrentMeansDone, Contested
      <3> QED
        BY <3>2, <3>3
    <2>3. CASE RefuseRename(r)
      <3>1. PlaceInv'
        BY <2>3 DEF RefuseRename, MInv, PlaceInv, TwoNames
      <3>2. DoneInv'
        BY <2>3
        DEF RefuseRename, MInv, DoneInv, DoneAt, CurrentMeansDone, Contested
      <3> QED
        BY <3>1, <3>2
    <2> QED
      BY <1>2, <2>1, <2>2, <2>3 DEF Walk
  <1>3. CASE Save
    <2>1. PlaceInv'
      BY <1>3 DEF Save, MInv, PlaceInv, TwoNames
    <2>2. current' => \A r \in Record : DoneAt(at, r)
      BY <1>3 DEF Save, MInv, DoneInv
    <2>3. DoneInv'
      BY <1>3, <2>2 DEF Save, DoneInv, DoneAt, CurrentMeansDone, Contested
    <2> QED
      BY <2>1, <2>3
  <1>4. CASE Die
    BY <1>4
    DEF Die, MInv, PlaceInv, TwoNames, DoneInv, CurrentMeansDone, Contested
  <1>5. CASE UNCHANGED vars
    BY <1>5
    DEF vars, MInv, PlaceInv, TwoNames, DoneInv, DoneAt, CurrentMeansDone, Contested
  <1> QED
    BY <1>1, <1>2, <1>3, <1>4, <1>5 DEF Next

\* A rename brings its record's own clone home, and leaves every other where it was.
LEMMA RenameKeepsHome ==
    ASSUME MInv, NEW s \in Record, Rename(s)
    PROVE  HomeInv'
  <1>1. /\ Derived[s] \in Path /\ Derived[s] # NoPath
        /\ at[s] \in Path /\ dir \in [Path -> Record \cup {NoRecord, Stray}]
        /\ walking /\ walking' = walking /\ savedAt' = savedAt
        /\ at \in [Record -> Path] /\ at' = [at EXCEPT ![s] = Derived[s]]
        /\ dir' = [dir EXCEPT ![Derived[s]] = dir[at[s]], ![at[s]] = NoRecord]
        /\ dir[Derived[s]] = NoRecord /\ dir[at[s]] # NoRecord
    BY DerivedType DEF Rename, Repoint, Turn, Exists, MInv, IInv, TypeOK
  <1>2. /\ Derived[s] # at[s] /\ Derived[s] \notin claimed
    BY <1>1 DEF Rename, Repoint, IsBlocked
  <1>3. /\ dir'[Derived[s]] = dir[at[s]] /\ dir'[at[s]] = NoRecord
        /\ \A p \in Path \ {Derived[s], at[s]} : dir'[p] = dir[p]
    BY <1>1, <1>2
  <1>4. savedAt[s] = Old[s] /\ at[s] = Old[s]
    BY <1>1, <1>2 DEF MInv, PlaceInv, TwoNames
  <1>5. dir[at[s]] = s /\ s # Stray
    BY <1>1, <1>4, LayoutAssumption DEF MInv, HomeInv
  <1>6. \A r \in Record : savedAt[r] # Derived[s]
    BY <1>1, <1>2 DEF MInv, PlaceInv
  <1>7. ASSUME NEW r \in Record, savedAt'[r] = Old[r]
        PROVE  dir'[Old[r]] \in {NoRecord, r}
    <2>1. Old[r] \in Path /\ Old[r] # Derived[s]
      BY <1>1, <1>6, <1>7, LayoutAssumption
    <2> QED
      BY <2>1, <1>1, <1>3, <1>7 DEF MInv, HomeInv
  <1>8. ASSUME NEW r \in Record, Uncontested(r)
        PROVE  dir'[Derived[r]] \in {NoRecord, r, Stray}
    <2>1. Derived[r] \in Path
      BY <1>8, DerivedType DEF Uncontested
    <2>2. CASE r = s
      BY <2>2, <1>3, <1>5
    <2>3. CASE r # s
      <3>1. Derived[r] # Derived[s] /\ Derived[r] # Old[s]
        BY <1>8, <2>3 DEF Uncontested, Contested
      <3> QED
        BY <2>1, <3>1, <1>3, <1>4, <1>8 DEF MInv, HomeInv
    <2> QED
      BY <2>2, <2>3
  <1>9. ASSUME NEW r \in Clones', Uncontested(r)
        PROVE  HomeOf(r)'
    <2>1. r \in Clones
      <3>1. Rename(s) => [Next]_vars
        BY DEF Next, Walk
      <3> QED
        BY <3>1, <1>9, ClonesStep DEF MInv, IInv
    <2>2. r \in Record
      BY <2>1, <1>1 DEF Clones
    <2>3. HomeOf(r)
      BY <2>1, <1>9 DEF MInv, HomeInv
    <2>4. CASE r = s
      BY <2>4, <1>3, <1>5 DEF HomeOf
    <2>5. CASE r # s
      <3>1. Derived[r] # Derived[s] /\ Derived[r] # Old[s]
        BY <1>9, <2>2, <2>5 DEF Uncontested, Contested
      <3>2. Derived[r] \in Path
        BY <1>9, <2>2, DerivedType DEF Uncontested
      <3>3. CASE dir[Derived[r]] = r
        BY <3>1, <3>2, <3>3, <1>3, <1>4 DEF HomeOf
      <3>4. CASE /\ dir[Old[r]] = r /\ savedAt[r] = Old[r]
                 /\ walking => at[r] = Old[r]
        <4>1. Old[r] \in Path /\ Old[r] # Derived[s] /\ Old[r] # at[s]
          BY <2>2, <2>5, <3>4, <1>4, <1>6, LayoutAssumption
        <4>2. at'[r] = at[r]
          BY <1>1, <2>2, <2>5
        <4> QED
          BY <4>1, <4>2, <3>4, <1>1, <1>3 DEF HomeOf
      <3>5. CASE dir[Old[r]] = r /\ dir[Derived[r]] = Stray
        <4>1. /\ Old[r] \in Path /\ r # NoRecord /\ Stray # NoRecord
              /\ Old[r] # at[s] /\ Derived[r] # at[s]
          BY <2>2, <2>5, <3>5, <1>4, <1>5, LayoutAssumption
        <4>2. dir'[Old[r]] = r /\ dir'[Derived[r]] = Stray
          BY <4>1, <3>1, <3>2, <3>5, <1>1, <1>3
        <4> QED
          BY <4>2 DEF HomeOf
      <3> QED
        BY <2>3, <3>3, <3>4, <3>5 DEF HomeOf
    <2> QED
      BY <2>4, <2>5
  <1> QED
    BY <1>7, <1>8, <1>9 DEF HomeInv, Uncontested, Contested

\* A record that follows a clone finds its own there, or a stray one, or has none.
LEMMA FollowKeepsHome ==
    ASSUME MInv, NEW s \in Record, Follow(s)
    PROVE  HomeInv'
  <1>1. /\ Derived[s] # NoPath /\ dir \in [Path -> Record \cup {NoRecord, Stray}]
        /\ walking /\ walking' = walking /\ savedAt' = savedAt
        /\ at \in [Record -> Path] /\ at' = [at EXCEPT ![s] = Derived[s]]
        /\ dir' = dir /\ Clones' = Clones
        /\ dir[Derived[s]] # NoRecord \/ dir[at[s]] = NoRecord
    BY DEF Follow, Repoint, Turn, Exists, MInv, IInv, TypeOK, Clones
  <1>2. ASSUME NEW r \in Clones, Uncontested(r) PROVE HomeOf(r)'
    <2>1. r \in Record /\ r # NoRecord /\ HomeOf(r)
      BY <1>1, <1>2, LayoutAssumption DEF Clones, MInv, HomeInv
    <2>2. CASE r # s
      BY <1>1, <2>1, <2>2 DEF HomeOf
    <2>3. CASE r = s
      BY <1>1, <1>2, <2>1, <2>3 DEF HomeOf, MInv, HomeInv
    <2> QED
      BY <2>2, <2>3
  <1> QED
    BY <1>1, <1>2 DEF HomeInv, MInv, Uncontested, Contested

\* The record keeps saying where its clone is until the clone has moved.
LEMMA HomeStep == MInv /\ [Next]_vars => HomeInv'
  <1> SUFFICES ASSUME MInv, [Next]_vars PROVE HomeInv'
    OBVIOUS
  <1>1. ASSUME UNCHANGED <<dir, savedAt>>,
               walking' => \A r \in Record : savedAt[r] = Old[r] /\ (walking => at[r] = Old[r])
                                             => at'[r] = Old[r]
        PROVE  HomeInv'
    <2>1. Clones' = Clones
      BY <1>1 DEF Clones
    <2>2. \A r \in Clones : r \in Record
      BY DEF Clones, MInv, IInv, TypeOK
    <2>3. \A r \in Clones : HomeOf(r) => HomeOf(r)'
      BY <1>1, <2>2 DEF HomeOf
    <2> QED
      BY <1>1, <2>1, <2>3 DEF HomeInv, MInv, Uncontested, Contested
  <1>2. CASE BeginPass
    BY <1>1, <1>2 DEF BeginPass
  <1>3. ASSUME NEW r \in Record, Walk(r) PROVE HomeInv'
    <2>1. CASE Follow(r)
      BY <2>1, FollowKeepsHome
    <2>2. CASE Rename(r)
      BY <2>2, RenameKeepsHome
    <2>3. CASE LeaveBehind(r)
      BY <1>1, <2>3 DEF LeaveBehind, Turn
    <2>4. CASE RefuseRename(r)
      BY <1>1, <2>4 DEF RefuseRename, Turn
    <2> QED
      BY <1>3, <2>1, <2>2, <2>3, <2>4 DEF Walk
  <1>4. CASE Save
    <2>1. /\ dir' = dir /\ savedAt' = at /\ walking /\ ~walking'
          /\ Clones' = Clones
      BY <1>4 DEF Save, Clones
    <2>2. \A r \in Record : at[r] = Old[r] => savedAt[r] = Old[r]
      BY <2>1 DEF MInv, PlaceInv, TwoNames
    <2>3. \A r \in Record : at[r] = Old[r] => dir[Old[r]] \in {NoRecord, r}
      BY <2>2 DEF MInv, HomeInv
    <2>4. \A r \in Clones : r \in Record
      BY DEF Clones, MInv, IInv, TypeOK
    <2>5. \A r \in Clones : HomeOf(r) => HomeOf(r)'
      BY <2>1, <2>4 DEF HomeOf
    <2> QED
      BY <2>1, <2>3, <2>5 DEF HomeInv, MInv, Uncontested, Contested
  <1>5. CASE Die
    BY <1>1, <1>5 DEF Die
  <1>6. CASE UNCHANGED vars
    BY <1>1, <1>6 DEF vars
  <1> QED
    BY <1>2, <1>3, <1>4, <1>5, <1>6 DEF Next

\* Where a record's clone is moved to there was none, and what it leaves was its own:
\* the one moved is never a stray.
LEMMA StraysStep ==
    ASSUME MInv, [Next]_vars, NEW p \in Path, dir[p] = Stray
    PROVE  dir'[p] = Stray
  <1>1. ASSUME NEW s \in Record, Rename(s) PROVE dir'[p] = Stray
    <2>1. /\ dir \in [Path -> Record \cup {NoRecord, Stray}]
          /\ Derived[s] \in Path /\ Derived[s] # NoPath
          /\ at[s] \in Path /\ walking
          /\ dir' = [dir EXCEPT ![Derived[s]] = dir[at[s]], ![at[s]] = NoRecord]
          /\ dir[Derived[s]] = NoRecord /\ dir[at[s]] # NoRecord
      BY <1>1, DerivedType DEF Rename, Repoint, Turn, Exists, MInv, IInv, TypeOK
    <2>2. at[s] = Old[s] /\ savedAt[s] = Old[s]
      BY <1>1, <2>1 DEF Rename, Repoint, IsBlocked, MInv, PlaceInv, TwoNames
    <2>3. dir[at[s]] = s
      BY <2>1, <2>2 DEF MInv, HomeInv
    <2>4. p # Derived[s] /\ p # at[s]
      BY <2>1, <2>3, LayoutAssumption
    <2> QED
      BY <2>1, <2>4
  <1>2. (\E s \in Record : Rename(s)) \/ UNCHANGED dir
    BY DEF Next, Walk, BeginPass, LeaveBehind, Follow, RefuseRename, Save, Die, vars
  <1> QED
    BY <1>1, <1>2

\* Refusals, deaths, stray clones: nothing undoes where records and clones are.
LEMMA MigrationStep == MInv /\ [Next]_vars => MInv'
  BY ApartStep, PlaceStep, HomeStep DEF MInv

\* A migration pass loses no clone, a record's or a stray one, whatever it is refused
\* and wherever it dies: the uncommitted work in a clone is the one thing nobody can
\* recreate.
THEOREM ClonesSurvive == Spec => NoCloneLost
  <1>1. MInv /\ [Next]_vars =>
            [/\ Clones' = Clones
             /\ \A p \in Path : dir[p] = Stray => dir'[p] = Stray]_vars
    BY ClonesStep, StraysStep DEF MInv, IInv
  <1> QED
    BY <1>1, HomeInit, MigrationStep, PTL DEF Spec, NoCloneLost

\* Whatever was refused and wherever passes died, a header that says the cache is
\* migrated is never written over a record that was not come to, and a record whose
\* name nobody else wants then finds its clone where it says it is, or a clone nobody
\* recorded there and its own where it was.
THEOREM MigratedCacheIsHome == Spec => []MigratedIsHome
  <1>1. MInv => MigratedIsHome
    <2> SUFFICES ASSUME MInv PROVE MigratedIsHome
      OBVIOUS
    <2>1. CurrentMeansDone
      BY DEF MInv, DoneInv
    <2>2. ASSUME current, NEW r \in Clones, Uncontested(r)
          PROVE  \/ dir[savedAt[r]] = r
                 \/ dir[savedAt[r]] = Stray /\ dir[Old[r]] = r
      <3>1. r \in Record
        BY DEF Clones, MInv, IInv, TypeOK
      <3>2. savedAt[r] = Derived[r]
        BY <2>1, <2>2, <3>1 DEF CurrentMeansDone, Uncontested
      <3>3. HomeOf(r)
        BY <2>2 DEF MInv, HomeInv
      <3> QED
        BY <3>2, <3>3 DEF HomeOf
    <2> QED
      BY <2>1, <2>2 DEF MigratedIsHome, UncontestedOwn, Uncontested
  <1> QED
    BY <1>1, HomeInit, MigrationStep, PTL DEF Spec
=============================================================================
