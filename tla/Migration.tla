----------------------------- MODULE Migration -----------------------------
(***************************************************************************)
(* The cache migration (flows/migration.rs): every dl command that opens   *)
(* the records first walks them, in the order metadata.json lists them,    *)
(* renaming each clone directory onto the name its record derives.  The    *)
(* renames land on disk one by one; the new paths and the new version      *)
(* header land together in the one save that ends the pass                 *)
(* (MetadataStorage::commit_migration).  A pass may die between any two    *)
(* renames, and the file system may refuse any of them.                    *)
(*                                                                         *)
(* The metadata lock keeps passes apart (FileLock), so one pass runs at a  *)
(* time.  A record's workspace_id moves with its local_path and is not     *)
(* modelled apart from it.                                                 *)
(***************************************************************************)
EXTENDS Naturals, FiniteSets

CONSTANTS
    Record,        \* the worktree records of metadata.json
    NoRecord,      \* what a path with no clone on it holds
    Stray,         \* a clone no record names, made alongside those that are named
    Path,          \* directories a clone can be in
    NoPath,        \* the derived path of a record whose ref derives no id
    Old,           \* where each record says its clone is before the migration
    Derived,       \* clone_dir of the id its triple derives, or NoPath
    Rank,          \* the order in which the file lists the records
    MaxRefusals,   \* bound: renames the file system refuses
    MaxCrashes     \* bound: passes that die, or whose save fails

ASSUME LayoutAssumption ==
    /\ NoRecord \notin Record /\ NoPath \notin Path
    /\ Stray \notin Record \cup {NoRecord}
    /\ Old \in [Record -> Path]
    /\ Derived \in [Record -> Path \cup {NoPath}]
    /\ \A r, s \in Record : Old[r] = Old[s] => r = s
ASSUME RankAssumption ==
    Rank \in [Record -> Nat] /\ \A r, s \in Record : Rank[r] = Rank[s] => r = s
ASSUME BoundAssumption == MaxRefusals \in Nat /\ MaxCrashes \in Nat

VARIABLES
    dir,        \* which record's clone each path holds, Stray, or NoRecord
    savedAt,    \* local_path of each record, in the file
    current,    \* whether the header in the file is SCHEMA_VERSION
    walking,    \* whether a pass is under way
    at,         \* local_path of each record, in the memory of the pass
    todo,       \* the records the pass has not come to yet
    claimed,    \* paths some record pointed at before the pass, or took since
    failed,     \* the records whose rename was refused in this pass
    refusals, crashes

vars == <<dir, savedAt, current, walking, at, todo, claimed, failed,
          refusals, crashes>>

\* The clones of records; a stray one is only ever stayed clear of or followed.
Clones == {dir[p] : p \in Path} \cap Record

TypeOK ==
    /\ dir \in [Path -> Record \cup {NoRecord, Stray}]
    /\ savedAt \in [Record -> Path]
    /\ current \in BOOLEAN /\ walking \in BOOLEAN
    /\ at \in [Record -> Path]
    /\ todo \subseteq Record /\ failed \subseteq Record
    /\ claimed \subseteq Path
    /\ refusals \in 0 .. MaxRefusals /\ crashes \in 0 .. MaxCrashes

\* A cache an older devlaunch wrote: records under their old names, some with
\* their directory gone, and clones no record names anywhere else, under a newer
\* scheme's name among others.
Init ==
    /\ \E there \in SUBSET Record,
          strays \in SUBSET (Path \ {Old[r] : r \in Record}) :
          dir = [p \in Path |->
                    IF \E r \in there : Old[r] = p
                    THEN CHOOSE r \in there : Old[r] = p
                    ELSE IF p \in strays THEN Stray ELSE NoRecord]
    /\ savedAt = Old
    /\ current = FALSE
    /\ walking = FALSE
    /\ at = Old
    /\ todo = {}
    /\ claimed = {}
    /\ failed = {}
    /\ refusals = 0
    /\ crashes = 0

Exists(p) == dir[p] # NoRecord

\* Mutant: what an earlier pass was refused is carried into this one.
BeginPassKeepsFailed ==
    /\ ~walking /\ ~current
    /\ walking' = TRUE
    /\ at' = savedAt
    /\ todo' = Record
    /\ claimed' = {savedAt[r] : r \in Record}
    /\ UNCHANGED <<dir, savedAt, current, failed, refusals, crashes>>

\* commit_migration took the lock, reloaded, and found an older header.
BeginPass ==
    /\ ~walking /\ ~current
    /\ walking' = TRUE
    /\ at' = savedAt
    /\ todo' = Record
    /\ claimed' = {savedAt[r] : r \in Record}
    /\ failed' = {}
    /\ UNCHANGED <<dir, savedAt, current, refusals, crashes>>

\* It is r's turn in the walk.
Turn(r) ==
    /\ walking /\ r \in todo
    /\ \A s \in todo : Rank[r] <= Rank[s]

\* Mutant: nobody asks whose path it is (devlaunch before #438).
IsBlockedUnasked(r) == FALSE

\* The derived name is a path some other record points at or has just taken.
IsBlocked(r) == Derived[r] # at[r] /\ Derived[r] \in claimed

\* An illegal ref, or a blocked one: reported, the record left as it is.
LeaveBehind(r) ==
    /\ Turn(r)
    /\ Derived[r] = NoPath \/ IsBlocked(r)
    /\ todo' = todo \ {r}
    /\ UNCHANGED <<dir, savedAt, current, walking, at, claimed, failed,
                   refusals, crashes>>

\* The record is repointed at its derived path, which is taken from now on.
Repoint(r) ==
    /\ Turn(r) /\ Derived[r] # NoPath /\ ~IsBlocked(r)
    /\ at' = [at EXCEPT ![r] = Derived[r]]
    /\ claimed' = claimed \cup {Derived[r]}
    /\ todo' = todo \ {r}
    /\ UNCHANGED <<savedAt, current, walking, failed, refusals, crashes>>

\* A clone is there already (moved by an interrupted pass, or a stray one), or
\* there is none at all.
Follow(r) ==
    /\ Repoint(r)
    /\ Exists(Derived[r]) \/ ~Exists(at[r])
    /\ UNCHANGED dir

\* Mutant: renames over whatever is there.
RenameOver(r) ==
    /\ Repoint(r)
    /\ Exists(at[r]) /\ at[r] # Derived[r]
    /\ dir' = [dir EXCEPT ![Derived[r]] = dir[at[r]], ![at[r]] = NoRecord]

Rename(r) ==
    /\ Repoint(r)
    /\ ~Exists(Derived[r]) /\ Exists(at[r])
    /\ dir' = [dir EXCEPT ![Derived[r]] = dir[at[r]], ![at[r]] = NoRecord]

\* Mutant: the record is repointed although its directory stayed.
RefuseRenameRepoints(r) ==
    /\ Repoint(r)
    /\ ~Exists(Derived[r]) /\ Exists(at[r])
    /\ UNCHANGED dir

RefuseRename(r) ==
    /\ Turn(r) /\ Derived[r] # NoPath /\ ~IsBlocked(r)
    /\ ~Exists(Derived[r]) /\ Exists(at[r])
    /\ refusals < MaxRefusals
    /\ refusals' = refusals + 1
    /\ failed' = failed \cup {r}
    /\ todo' = todo \ {r}
    /\ UNCHANGED <<dir, savedAt, current, walking, at, claimed, crashes>>

\* The one save: the paths as they are now, and the header if nothing failed.
Save ==
    /\ walking /\ todo = {}
    /\ savedAt' = at
    /\ current' = (failed = {})
    /\ walking' = FALSE
    /\ UNCHANGED <<dir, at, todo, claimed, failed, refusals, crashes>>

\* The process dies, or the save fails: the renames stay, nothing is recorded.
Die ==
    /\ walking /\ crashes < MaxCrashes
    /\ crashes' = crashes + 1
    /\ walking' = FALSE
    /\ UNCHANGED <<dir, savedAt, current, at, todo, claimed, failed, refusals>>

Walk(r) == LeaveBehind(r) \/ Follow(r) \/ Rename(r) \/ RefuseRename(r)

Next == BeginPass \/ (\E r \in Record : Walk(r)) \/ Save \/ Die

Spec == Init /\ [][Next]_vars

(***************************************************************************)
(* Commands that open the records keep being run, and a pass that is not   *)
(* killed comes to its end.                                                *)
(***************************************************************************)
FairSpec ==
    /\ Spec
    /\ WF_vars(BeginPass) /\ WF_vars(Save)
    /\ \A r \in Record : WF_vars(Walk(r))

-----------------------------------------------------------------------------
\* Two records never own one clone directory, in the file or in memory, though
\* their triples derive one id (blooop/devlaunch#438).
NoSharedClone ==
    \A r, s \in Record :
        r # s => savedAt[r] # savedAt[s] /\ (walking => at[r] # at[s])

\* What makes NoSharedClone inductive: during a pass every path a record points
\* at is a claimed one, so an unclaimed derived path is nobody's.
ClaimedInv == walking => \A r \in Record : at[r] \in claimed

\* No step loses a clone, a record's or a stray one: a rename lands only where
\* nothing is.
NoCloneLost ==
    [][/\ Clones' = Clones
       /\ \A p \in Path : dir[p] = Stray => dir'[p] = Stray]_vars

\* Some other record was at r's derived path, or derives it too.
Contested(r) ==
    \E s \in Record \ {r} : Derived[r] \in {Old[s], Derived[s]}

\* Once the header is current every record is on its derived path, but for the
\* two kinds the migration reports and leaves behind.
CurrentMeansDone ==
    current => \A r \in Record :
                  \/ savedAt[r] = Derived[r]
                  \/ savedAt[r] = Old[r] /\ (Derived[r] = NoPath \/ Contested(r))

\* In a migrated cache a record whose name nobody else wants finds its clone where
\* it says it is, whatever refusals and deaths came in between; but where a stray
\* clone had the name, the record follows that one, and its own is left as it was.
UncontestedOwn ==
    current => \A r \in Clones :
                  Derived[r] # NoPath /\ ~Contested(r) =>
                      \/ dir[savedAt[r]] = r
                      \/ dir[savedAt[r]] = Stray /\ dir[Old[r]] = r

\* "current" is said of nothing less than that, and so what is left for a later run
\* is never thought done (migrate_cache_to_workspaces' header, written last).
MigratedIsHome == CurrentMeansDone /\ UncontestedOwn

\* Refusals and deaths end the wait for the header only for as long as they
\* last: the migration is resumed and completes.
Completes == <>[]current
=============================================================================
