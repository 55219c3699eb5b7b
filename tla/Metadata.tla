------------------------------ MODULE Metadata ------------------------------
(***************************************************************************)
(* metadata.json (domain/metadata.rs), and the dl processes that load it,  *)
(* queue for its lock, reload it, change one record and replace it.        *)
(*                                                                         *)
(* Two loads exist.  `open` loads with no lock, and the copy it leaves in  *)
(* memory goes stale; `exclusive` and `commit_migration` load again under  *)
(* the lock before they touch anything.  Both move an unusable file aside  *)
(* to .corrupt, and copy one they cannot round-trip to .bak.               *)
(*                                                                         *)
(* A document is abstracted to which records it has, what the branch lists *)
(* name, which records the migration still owes a rename (`old`) and which *)
(* carry a field an update put there (`noted`).  The lock is the one       *)
(* FileLock models; `look` and the read-only queries change nothing.       *)
(***************************************************************************)
EXTENDS Naturals

CONSTANTS
    Process,        \* dl processes
    NoProcess,
    Repo, Branch,
    FirstDocs,      \* documents an earlier release may have left
    MaxDamage,      \* bound: edits of the file by something that is not dl
    PreserveFails   \* whether the OS may refuse the rename or copy aside

ASSUME NoProcessAssumption == NoProcess \notin Process
ASSUME DamageAssumption    == MaxDamage \in Nat
ASSUME PreserveAssumption  == PreserveFails \in BOOLEAN

Tree == Repo \X Branch

Doc == [header : {"old", "current"},
        repos  : SUBSET Repo,             \* repositories recorded
        listed : SUBSET Tree,             \* branches their lists name
        trees  : SUBSET Tree,             \* worktrees recorded
        old    : SUBSET Tree,             \* ... under a path still to migrate
        noted  : SUBSET (Repo \cup Tree)] \* records an update has moved

EmptyDoc == [header |-> "current", repos |-> {}, listed |-> {}, trees |-> {},
             old |-> {}, noted |-> {}]

ASSUME FirstDocsAssumption ==
    \A d \in FirstDocs :
        /\ d \in Doc
        /\ d.header = "current" => d.old = {}
        /\ \A t \in d.listed : t \in d.trees /\ t[1] \in d.repos

\* A path: nothing, bytes that are no JSON object, or a document.  `foreign`:
\* it holds something a rewrite drops, a newer build's field or a broken entry.
File == [kind : {"absent", "unusable", "doc"}, foreign : BOOLEAN, doc : Doc]

Absent   == [kind |-> "absent", foreign |-> FALSE, doc |-> EmptyDoc]
Unusable == [kind |-> "unusable", foreign |-> FALSE, doc |-> EmptyDoc]
Written(d) == [kind |-> "doc", foreign |-> FALSE, doc |-> d]

Op == [kind : {"add_repository", "update_repository"}, key : Repo]
      \cup [kind : {"add_worktree", "update_worktree", "remove_worktree"}, key : Tree]
      \cup [kind : {"migrate"}, key : {"all"}]

Migration == [kind |-> "migrate", key |-> "all"]

VARIABLES
    file,       \* metadata.json
    corrupt,    \* the .corrupt slot
    bak,        \* the .bak slot
    holder,     \* who holds metadata.json.lock
    mem,        \* each process's copy
    pc, op,     \* where each process is, and the operation it is in
    harm        \* how often something else has written the file, and which of
                \* the kinds of originals that left are owed their slot

vars == <<file, corrupt, bak, holder, mem, pc, op, harm>>

Step == {"closed", "loading", "reading", "quarantining", "copying", "ready",
         "queued", "editing", "saving"}

TypeOK ==
    /\ file \in File /\ corrupt \in File /\ bak \in File
    /\ holder \in Process \cup {NoProcess}
    /\ mem \in [Process -> Doc]
    /\ pc \in [Process -> Step]
    /\ op \in [Process -> Op]
    /\ harm \in [owed : SUBSET {"unusable", "foreign"}, times : 0 .. MaxDamage]

Init ==
    /\ \E d \in FirstDocs : file \in {Absent, Written(d)}
    /\ corrupt = Absent /\ bak = Absent
    /\ holder = NoProcess
    /\ mem = [p \in Process |-> EmptyDoc]
    /\ pc = [p \in Process |-> "closed"]
    /\ op = [p \in Process |-> Migration]
    /\ harm = [owed |-> {}, times |-> 0]

Goto(p, step) == pc' = [pc EXCEPT ![p] = step]

(***************************************************************************)
(* Loading, with the lock (holder = p) or without.                         *)
(***************************************************************************)
Open(p) ==
    /\ pc[p] = "closed"
    /\ Goto(p, "loading")
    /\ UNCHANGED <<file, corrupt, bak, holder, mem, op, harm>>

\* What a later operation still asks of a copy once the lock is not held: which
\* repositories it records.  The rest is loaded again before it is used.
Stale(d) == [EmptyDoc EXCEPT !.repos = d.repos]

\* The load is done and left d in memory.  An `open` goes on to the migration
\* when the header it read is an older one (open_records, migrate_cache).
Loaded(p, d) ==
    \/ /\ holder = p
       /\ Goto(p, "editing")
       /\ mem' = [mem EXCEPT ![p] = d]
    \/ /\ holder # p
       /\ Goto(p, IF d.header = "old" THEN "queued" ELSE "ready")
       /\ mem' = [mem EXCEPT ![p] = Stale(d)]

\* read_file asks first whether there is a file.
Exists(p) ==
    /\ pc[p] = "loading"
    /\ \/ file.kind # "absent" /\ Goto(p, "reading")
          /\ mem' = [mem EXCEPT ![p] = EmptyDoc]
       \/ file.kind = "absent" /\ Loaded(p, EmptyDoc)
    /\ UNCHANGED <<file, corrupt, bak, holder, op, harm>>

Read(p) ==
    /\ pc[p] = "reading"
    /\ \/ /\ file.kind # "doc" \/ file.foreign
          /\ mem' = [mem EXCEPT ![p] = file.doc]
          /\ Goto(p, IF file.foreign THEN "copying" ELSE "quarantining")
       \/ file.kind = "doc" /\ ~file.foreign /\ Loaded(p, file.doc)
    /\ UNCHANGED <<file, corrupt, bak, holder, op, harm>>

\* An original of this kind is owed its slot no more, in one of the two ways the
\* code lets it go: the OS refused to set it aside, or an `open`, which holds no
\* lock, acted on what a mutation has saved since it read.
Forgo(kind, lost) ==
    harm' = IF lost THEN [harm EXCEPT !.owed = @ \ {kind}] ELSE harm

\* Mutant: an unusable file is left for the next save to replace.
QuarantineLeaves(p) ==
    /\ pc[p] = "quarantining"
    /\ Loaded(p, mem[p])
    /\ UNCHANGED <<file, corrupt, bak, holder, op, harm>>

\* quarantine: rename what is at the path now to .corrupt.
Quarantine(p) ==
    /\ pc[p] = "quarantining"
    /\ \/ /\ file.kind # "absent" /\ corrupt' = file /\ file' = Absent
          /\ Forgo("unusable", holder # p /\ file # Unusable)
       \/ /\ PreserveFails \/ file.kind = "absent"
          /\ UNCHANGED <<file, corrupt>>
          /\ Forgo("unusable", file = Unusable)
    /\ Loaded(p, mem[p])
    /\ UNCHANGED <<bak, holder, op>>

\* backup: copy what is at the path now to .bak.
Backup(p) ==
    /\ pc[p] = "copying"
    /\ \/ /\ file.kind # "absent" /\ bak' = file
          /\ Forgo("foreign", holder # p /\ ~file.foreign)
       \/ /\ PreserveFails \/ file.kind = "absent"
          /\ UNCHANGED bak
          /\ Forgo("foreign", file.foreign)
    /\ Loaded(p, mem[p])
    /\ UNCHANGED <<file, corrupt, holder, op>>

(***************************************************************************)
(* A mutation.                                                             *)
(***************************************************************************)
\* The operations a command asks for, by what its own copy says, loaded whenever
\* that was: a repository is registered when the copy has no record of it
\* (clone_repo), and a worktree is added once it has one (prepare_cold).
Asks(p, o) ==
    /\ o # Migration
    /\ o.kind = "add_repository" => o.key \notin mem[p].repos
    /\ o.kind = "add_worktree" => o.key[1] \in mem[p].repos

Ask(p, o) ==
    /\ pc[p] = "ready" /\ Asks(p, o)
    /\ op' = [op EXCEPT ![p] = o]
    /\ Goto(p, "queued")
    /\ UNCHANGED <<file, corrupt, bak, holder, mem, harm>>

\* Mutant: a mutation under the lock edits the copy it came with.
TakeLockUnloaded(p) ==
    /\ pc[p] = "queued" /\ holder = NoProcess
    /\ holder' = p
    /\ Goto(p, "editing")
    /\ UNCHANGED <<file, corrupt, bak, mem, op, harm>>

\* hold_lock_watching, then the reload.
TakeLock(p) ==
    /\ pc[p] = "queued" /\ holder = NoProcess
    /\ holder' = p
    /\ Goto(p, "loading")
    /\ UNCHANGED <<file, corrupt, bak, mem, op, harm>>

\* MetadataError::Lock: the mutation is refused before it read anything.
LockRefused(p) ==
    /\ pc[p] = "queued"
    /\ Goto(p, "ready")
    /\ op' = [op EXCEPT ![p] = Migration]
    /\ UNCHANGED <<file, corrupt, bak, holder, mem, harm>>

\* Mutant: an absent record is put there by its own update (before #412).
WritesInserts(o, d) ==
    CASE o.kind = "remove_worktree" -> o.key \in d.trees
      [] o.kind = "migrate"         -> d.header = "old"
      [] OTHER                      -> TRUE

\* Whether the operation writes at all, on what it reloaded.
Writes(o, d) ==
    CASE o.kind = "update_repository"                      -> o.key \in d.repos
      [] o.kind \in {"update_worktree", "remove_worktree"} -> o.key \in d.trees
      [] o.kind = "migrate"                                -> d.header = "old"
      [] OTHER                                             -> TRUE

\* Mutants of the edits: removing a worktree leaves its branch in the list; a
\* worktree is listed under its repository's key.
AfterUnlisted(o, d) ==
    CASE o.kind = "add_worktree"    ->
            [d EXCEPT !.trees = @ \cup {o.key}, !.old = @ \ {o.key},
                      !.listed = @ \cup {t \in {o.key} : t[1] \in d.repos}]
      [] o.kind = "remove_worktree" ->
            [d EXCEPT !.trees = @ \ {o.key}, !.old = @ \ {o.key}]
      [] OTHER                      -> d
\* The document each operation makes of d.  add_repository is handed a record
\* with an empty branch list; add_worktree lists its branch only when the
\* repository is recorded.
After(o, d) ==
    CASE o.kind = "add_repository"    ->
            [d EXCEPT !.repos = @ \cup {o.key}, !.noted = @ \ {o.key},
                      !.listed = {t \in @ : t[1] # o.key}]
      [] o.kind = "update_repository" -> [d EXCEPT !.noted = @ \cup {o.key}]
      [] o.kind = "update_worktree"   -> [d EXCEPT !.noted = @ \cup {o.key}]
      [] o.kind = "add_worktree"      ->
            [d EXCEPT !.trees = @ \cup {o.key}, !.old = @ \ {o.key},
                      !.noted = @ \ {o.key},
                      !.listed = @ \cup {t \in {o.key} : t[1] \in d.repos}]
      [] o.kind = "remove_worktree"   ->
            [d EXCEPT !.trees = @ \ {o.key}, !.old = @ \ {o.key},
                      !.noted = @ \ {o.key}, !.listed = @ \ {o.key}]

\* The migration's edit: the renames in `refused` are still owed, and the header
\* is promoted when there are none.
AfterMigration(d, refused) ==
    LET repointed == [d EXCEPT !.old = refused]
    IN  IF refused = {} THEN [repointed EXCEPT !.header = "current"] ELSE repointed

\* The guard is dropped, and the copy is an old one from here on.
Finish(p) ==
    /\ holder' = NoProcess
    /\ Goto(p, "ready")
    /\ mem' = [mem EXCEPT ![p] = Stale(@)]
    /\ op' = [op EXCEPT ![p] = Migration]

\* The command ends or dies: its copy is gone and the kernel frees its lock.
Close(p) ==
    /\ Goto(p, "closed")
    /\ mem' = [mem EXCEPT ![p] = EmptyDoc]
    /\ op' = [op EXCEPT ![p] = Migration]
    /\ holder' = IF holder = p THEN NoProcess ELSE holder

\* Nothing to write: absent from the reloaded file, or migrated meanwhile.
EditNothing(p) ==
    /\ pc[p] = "editing" /\ ~Writes(op[p], mem[p])
    /\ Finish(p)
    /\ UNCHANGED <<file, corrupt, bak, harm>>

Edit(p) ==
    /\ pc[p] = "editing" /\ Writes(op[p], mem[p])
    /\ \/ op[p] # Migration /\ mem' = [mem EXCEPT ![p] = After(op[p], @)]
       \/ /\ op[p] = Migration
          /\ \E refused \in SUBSET mem[p].old :
                mem' = [mem EXCEPT ![p] = AfterMigration(@, refused)]
    /\ Goto(p, "saving")
    /\ UNCHANGED <<file, corrupt, bak, holder, op, harm>>

\* Mutant: every save writes SCHEMA_VERSION (before #180).
SavePromotes(p) ==
    /\ pc[p] = "saving"
    /\ file' = Written([mem[p] EXCEPT !.header = "current"])
    /\ Finish(p)
    /\ UNCHANGED <<corrupt, bak, harm>>

\* save: a temporary file renamed over the target; then the lock is dropped.
Save(p) ==
    /\ pc[p] = "saving"
    /\ file' = Written(mem[p])
    /\ Finish(p)
    /\ UNCHANGED <<corrupt, bak, harm>>

\* Any step of the save is refused: the file stays.  A command that cannot
\* record its repository fails (CloneError::NotRecorded); the rest go on.
SaveRefused(p) ==
    /\ pc[p] = "saving"
    /\ file' = file
    /\ \/ op[p].kind # "add_repository" /\ Finish(p)
       \/ op[p].kind = "add_repository" /\ Close(p)
    /\ UNCHANGED <<corrupt, bak, harm>>

Exit(p) ==
    /\ pc[p] # "closed"
    /\ Close(p)
    /\ UNCHANGED <<file, corrupt, bak, harm>>

\* Something that is not this dl rewrites the file: a newer build adds a field,
\* a hand edit breaks an entry or the whole of it.  Not in the middle of a load
\* or a mutation: what such an edit loses is not dl's to keep.
Damage(kind) ==
    /\ harm.times < MaxDamage
    /\ \A p \in Process : pc[p] \in {"closed", "loading", "ready", "queued"}
    /\ file.kind = "doc" /\ ~file.foreign
    /\ harm' = [owed |-> harm.owed \cup {kind}, times |-> harm.times + 1]
    /\ file' = IF kind = "unusable" THEN Unusable ELSE [file EXCEPT !.foreign = TRUE]
    /\ UNCHANGED <<corrupt, bak, holder, mem, pc, op>>

Load(p) == Exists(p) \/ Read(p) \/ Quarantine(p) \/ Backup(p)

Mutate(p) == \/ TakeLock(p) \/ LockRefused(p) \/ EditNothing(p) \/ Edit(p)
             \/ Save(p) \/ SaveRefused(p)

Next ==
    \/ \E p \in Process : \/ Open(p) \/ Load(p) \/ Mutate(p) \/ Exit(p)
                          \/ \E o \in Op : Ask(p, o)
    \/ \E kind \in {"unusable", "foreign"} : Damage(kind)

Spec == Init /\ [][Next]_vars

-----------------------------------------------------------------------------
\* Nothing but dl has written the file yet.
Untouched == harm.times = 0

\* A copy that is about to be edited is what the file says now, and one about
\* to be saved differs from it by the one edit: nobody wrote since the reload.
Reloaded ==
    \A p \in Process :
        /\ pc[p] \in {"editing", "saving"} => holder = p
        /\ pc[p] = "editing" => mem[p] = file.doc
        /\ pc[p] = "saving" =>
              /\ Writes(op[p], file.doc)
              /\ IF op[p] = Migration
                 THEN \E refused \in SUBSET file.doc.old :
                         mem[p] = AfterMigration(file.doc, refused)
                 ELSE mem[p] = After(op[p], file.doc)

\* While nothing but dl writes the file, every save writes one edit of what the
\* file says at that moment (exclusive: lock, reload, edit, save).
ReloadedUnderLock == Untouched => Reloaded

\* Whatever the interleaving, what the file says changes one record at a time
\* and from what was last written: no concurrent run's record is dropped
\* (exclusive's "rewriting the file from that stale copy silently drops their
\* records").
Shown == IF Untouched THEN file.doc ELSE [EmptyDoc EXCEPT !.header = "ruined"]
Store == INSTANCE StoreSpec WITH store <- Shown
ImplementsStore == Store!Spec

\* A current header means no record is left for the migration, across every
\* other writer's saves (#180).
HeaderNeverLies == Untouched /\ file.doc.header = "current" => file.doc.old = {}

\* A branch a repository lists has a worktree record, and its repository one.
ListedAreRecorded ==
    Untouched => \A t \in file.doc.listed : t \in file.doc.trees /\ t[1] \in file.doc.repos

\* An update never puts back a record another run removed (#412).
UpdatesNeverResurrect ==
    [][\A p \in Process :
          /\ Untouched /\ pc[p] = "saving" /\ file' # file
          /\ op[p].kind \in {"update_repository", "update_worktree"}
          => op[p].key \in file.doc.repos \cup file.doc.trees]_vars

\* What something else wrote is in the file or in the slot kept for it, whatever
\* loads and mutations overlap: a load under the lock never moves or copies anything
\* but what it read, an `open` only where a mutation has saved since, and nothing is
\* saved over an original that neither was set aside nor refused to be.
OriginalsKept ==
    /\ "unusable" \in harm.owed => Unusable \in {file, corrupt}
    /\ "foreign" \in harm.owed => file.foreign \/ bak.foreign

\* "Anything lossy is preserved first ... while the original bytes are still on disk"
\* (metadata.rs's module comment): where every rename and copy aside is granted, what
\* could not be read or not be written back whole stays, in the file or in its slot.
LossyPreservedFirst ==
    [][~PreserveFails =>
          /\ Unusable \in {file, corrupt} => Unusable \in {file', corrupt'}
          /\ file.foreign \/ bak.foreign => file'.foreign \/ bak'.foreign]_vars
=============================================================================
