--------------------------- MODULE MetadataProofs ---------------------------
(***************************************************************************)
(* Theorems about Metadata, for every set of processes, repositories and   *)
(* branches and every document an earlier release may have left.  Type     *)
(* correctness and what becomes of originals hold whatever is done to the  *)
(* file; the others speak of it while nothing but dl writes it.            *)
(***************************************************************************)
EXTENDS Metadata, TLAPS

(***************************************************************************)
(* The edits, as operators on documents.                                   *)
(***************************************************************************)
LEMMA EmptyDocType == EmptyDoc \in Doc /\ Absent \in File /\ Unusable \in File
  BY DEF EmptyDoc, Doc, Absent, Unusable, File

LEMMA StaleType == ASSUME NEW d \in Doc PROVE Stale(d) \in Doc
  BY DEF Stale, EmptyDoc, Doc

LEMMA OpCases ==
    ASSUME NEW o \in Op, o # Migration
    PROVE  \/ o.kind = "add_repository" /\ o.key \in Repo
           \/ o.kind = "update_repository" /\ o.key \in Repo
           \/ o.kind = "add_worktree" /\ o.key \in Tree
           \/ o.kind = "update_worktree" /\ o.key \in Tree
           \/ o.kind = "remove_worktree" /\ o.key \in Tree
  BY DEF Op, Migration

\* What each edit makes of a document, field by field.
LEMMA AddRepository ==
    ASSUME NEW o, NEW d \in Doc, o.kind = "add_repository"
    PROVE  After(o, d) = [header |-> d.header, repos |-> d.repos \cup {o.key},
                          listed |-> {t \in d.listed : t[1] # o.key},
                          trees |-> d.trees, old |-> d.old,
                          noted |-> d.noted \ {o.key}]
  BY DEF After, Doc

LEMMA AddWorktree ==
    ASSUME NEW o, NEW d \in Doc, o.kind = "add_worktree"
    PROVE  After(o, d) = [header |-> d.header, repos |-> d.repos,
                          listed |-> d.listed \cup {t \in {o.key} : t[1] \in d.repos},
                          trees |-> d.trees \cup {o.key}, old |-> d.old \ {o.key},
                          noted |-> d.noted \ {o.key}]
  BY DEF After, Doc

LEMMA RemoveWorktree ==
    ASSUME NEW o, NEW d \in Doc, o.kind = "remove_worktree"
    PROVE  After(o, d) = [header |-> d.header, repos |-> d.repos,
                          listed |-> d.listed \ {o.key},
                          trees |-> d.trees \ {o.key}, old |-> d.old \ {o.key},
                          noted |-> d.noted \ {o.key}]
  BY DEF After, Doc

LEMMA UpdateEither ==
    ASSUME NEW o, NEW d \in Doc,
           o.kind \in {"update_repository", "update_worktree"}
    PROVE  After(o, d) = [header |-> d.header, repos |-> d.repos,
                          listed |-> d.listed, trees |-> d.trees, old |-> d.old,
                          noted |-> d.noted \cup {o.key}]
  BY DEF After, Doc

LEMMA Migrated ==
    ASSUME NEW d \in Doc, NEW refused \in SUBSET Tree
    PROVE  AfterMigration(d, refused) =
              [header |-> IF refused = {} THEN "current" ELSE d.header,
               repos |-> d.repos, listed |-> d.listed, trees |-> d.trees,
               old |-> refused, noted |-> d.noted]
  <1> DEFINE e == [d EXCEPT !.old = refused]
  <1>1. /\ e \in Doc
        /\ e = [header |-> d.header, repos |-> d.repos, listed |-> d.listed,
                trees |-> d.trees, old |-> refused, noted |-> d.noted]
    BY DEF Doc
  <1>2. AfterMigration(d, refused) =
           IF refused = {} THEN [e EXCEPT !.header = "current"] ELSE e
    BY DEF AfterMigration
  <1> HIDE DEF e
  <1>3. [e EXCEPT !.header = "current"] =
           [header |-> "current", repos |-> e.repos, listed |-> e.listed,
            trees |-> e.trees, old |-> e.old, noted |-> e.noted]
    BY <1>1 DEF Doc
  <1>4. CASE refused = {}
    BY <1>1, <1>2, <1>3, <1>4
  <1>5. CASE refused # {}
    BY <1>1, <1>2, <1>5
  <1> QED
    BY <1>4, <1>5

\* An edit makes a document of a document.
LEMMA AfterType ==
    ASSUME NEW o \in Op, o # Migration, NEW d \in Doc
    PROVE  After(o, d) \in Doc
  <1>1. CASE o.kind = "add_repository"
    <2>1. o.key \in Repo
      BY <1>1, OpCases
    <2> QED
      BY <1>1, <2>1, AddRepository DEF Doc
  <1>2. CASE o.kind = "add_worktree"
    <2>1. o.key \in Tree
      BY <1>2, OpCases
    <2> QED
      BY <1>2, <2>1, AddWorktree DEF Doc
  <1>3. CASE o.kind = "remove_worktree"
    BY <1>3, RemoveWorktree DEF Doc
  <1>4. CASE o.kind \in {"update_repository", "update_worktree"}
    <2>1. o.key \in Repo \cup Tree
      BY <1>4, OpCases
    <2> QED
      BY <1>4, <2>1, UpdateEither DEF Doc
  <1> QED
    BY <1>1, <1>2, <1>3, <1>4, OpCases

LEMMA MigratedType ==
    ASSUME NEW d \in Doc, NEW refused \in SUBSET d.old
    PROVE  AfterMigration(d, refused) \in Doc
  <1>1. refused \in SUBSET Tree
    BY DEF Doc
  <1> QED
    BY <1>1, Migrated DEF Doc

(***************************************************************************)
(* Type correctness.                                                       *)
(***************************************************************************)
\* The parts of TypeOK a load changes, and those the end of a mutation does.
LEMMA LoadedType ==
    ASSUME TypeOK, NEW p \in Process, NEW d \in Doc, Loaded(p, d)
    PROVE  pc' \in [Process -> Step] /\ mem' \in [Process -> Doc]
  BY StaleType DEF TypeOK, Loaded, Goto, Step

LEMMA FinishType ==
    ASSUME TypeOK, NEW p \in Process, Finish(p)
    PROVE  /\ pc' \in [Process -> Step] /\ mem' \in [Process -> Doc]
           /\ op' \in [Process -> Op] /\ holder' \in Process \cup {NoProcess}
  <1>1. mem[p] \in Doc /\ Migration \in Op
    BY DEF TypeOK, Migration, Op
  <1>2. Stale(mem[p]) \in Doc
    BY <1>1, StaleType
  <1> QED
    BY <1>1, <1>2 DEF TypeOK, Finish, Goto, Step

LEMMA CloseType ==
    ASSUME TypeOK, NEW p \in Process, Close(p)
    PROVE  /\ pc' \in [Process -> Step] /\ mem' \in [Process -> Doc]
           /\ op' \in [Process -> Op] /\ holder' \in Process \cup {NoProcess}
  <1>1. Migration \in Op
    BY DEF Migration, Op
  <1> QED
    BY <1>1, EmptyDocType DEF TypeOK, Close, Goto, Step

LEMMA ForgoType ==
    ASSUME TypeOK, NEW kind, NEW lost \in BOOLEAN, Forgo(kind, lost)
    PROVE  harm' \in [owed : SUBSET {"unusable", "foreign"}, times : 0 .. MaxDamage]
  BY DEF Forgo, TypeOK

LEMMA LoadStepType ==
    ASSUME TypeOK, NEW p \in Process, Load(p)
    PROVE  TypeOK'
  <1>0. file \in File /\ file.doc \in Doc /\ mem[p] \in Doc
    BY DEF TypeOK, File
  <1>1. CASE Exists(p)
    <2>1. CASE file.kind # "absent" /\ Goto(p, "reading") /\ mem' = [mem EXCEPT ![p] = EmptyDoc]
      BY <1>1, <2>1, EmptyDocType DEF Exists, Goto, Step, TypeOK
    <2>2. CASE Loaded(p, EmptyDoc)
      <3>1. pc' \in [Process -> Step] /\ mem' \in [Process -> Doc]
        BY <2>2, LoadedType, EmptyDocType
      <3> QED
        BY <1>1, <3>1 DEF Exists, TypeOK
    <2> QED
      BY <1>1, <2>1, <2>2 DEF Exists
  <1>2. CASE Read(p)
    <2>1. CASE mem' = [mem EXCEPT ![p] = file.doc] /\ Goto(p, IF file.foreign THEN "copying" ELSE "quarantining")
      BY <1>0, <1>2, <2>1 DEF Read, Goto, Step, TypeOK
    <2>2. CASE Loaded(p, file.doc)
      <3>1. pc' \in [Process -> Step] /\ mem' \in [Process -> Doc]
        BY <2>2, <1>0, LoadedType
      <3> QED
        BY <1>2, <3>1 DEF Read, TypeOK
    <2> QED
      BY <1>2, <2>1, <2>2 DEF Read
  <1>3. CASE Quarantine(p)
    <2>1. pc' \in [Process -> Step] /\ mem' \in [Process -> Doc]
      BY <1>0, <1>3, LoadedType DEF Quarantine
    <2>2. file' \in File /\ corrupt' \in File
      BY <1>0, <1>3, EmptyDocType DEF Quarantine, TypeOK
    <2>3. harm' \in [owed : SUBSET {"unusable", "foreign"}, times : 0 .. MaxDamage]
      BY <1>3, ForgoType DEF Quarantine
    <2> QED
      BY <1>3, <2>1, <2>2, <2>3 DEF Quarantine, TypeOK
  <1>4. CASE Backup(p)
    <2>1. pc' \in [Process -> Step] /\ mem' \in [Process -> Doc]
      BY <1>0, <1>4, LoadedType DEF Backup
    <2>2. bak' \in File
      BY <1>0, <1>4 DEF Backup, TypeOK
    <2>3. harm' \in [owed : SUBSET {"unusable", "foreign"}, times : 0 .. MaxDamage]
      <3>1. (holder # p /\ ~file.foreign) \in BOOLEAN /\ file.foreign \in BOOLEAN
        BY <1>0 DEF File
      <3> QED
        BY <1>4, <3>1, ForgoType DEF Backup
    <2> QED
      BY <1>4, <2>1, <2>2, <2>3 DEF Backup, TypeOK
  <1> QED
    BY <1>1, <1>2, <1>3, <1>4 DEF Load

LEMMA EditType ==
    ASSUME TypeOK, NEW p \in Process, Edit(p)
    PROVE  mem' \in [Process -> Doc]
  <1>0. mem[p] \in Doc /\ op[p] \in Op
    BY DEF TypeOK
  <1>1. CASE op[p] # Migration /\ mem' = [mem EXCEPT ![p] = After(op[p], @)]
    <2>1. After(op[p], mem[p]) \in Doc
      BY <1>0, <1>1, AfterType
    <2> QED
      BY <1>1, <2>1 DEF TypeOK
  <1>2. CASE \E refused \in SUBSET mem[p].old :
                mem' = [mem EXCEPT ![p] = AfterMigration(@, refused)]
    <2>1. PICK refused \in SUBSET mem[p].old :
             mem' = [mem EXCEPT ![p] = AfterMigration(@, refused)]
      BY <1>2
    <2>2. AfterMigration(mem[p], refused) \in Doc
      BY <1>0, MigratedType
    <2> QED
      BY <2>1, <2>2 DEF TypeOK
  <1> QED
    BY <1>1, <1>2 DEF Edit

LEMMA MutateType ==
    ASSUME TypeOK, NEW p \in Process, Mutate(p)
    PROVE  TypeOK'
  <1>1. CASE TakeLock(p)
    BY <1>1 DEF TakeLock, Goto, Step, TypeOK
  <1>2. CASE LockRefused(p)
    <2>1. Migration \in Op
      BY DEF Migration, Op
    <2> QED
      BY <1>2, <2>1 DEF LockRefused, Goto, Step, TypeOK
  <1>3. CASE EditNothing(p)
    BY <1>3, FinishType DEF EditNothing, TypeOK
  <1>4. CASE Edit(p)
    <2>1. mem' \in [Process -> Doc]
      BY <1>4, EditType
    <2> QED
      BY <1>4, <2>1 DEF Edit, Goto, Step, TypeOK
  <1>5. CASE Save(p)
    <2>1. file' \in File
      BY <1>5 DEF Save, Written, File, TypeOK
    <2> QED
      BY <1>5, <2>1, FinishType DEF Save, TypeOK
  <1>6. CASE SaveRefused(p)
    BY <1>6, FinishType, CloseType DEF SaveRefused, TypeOK
  <1> QED
    BY <1>1, <1>2, <1>3, <1>4, <1>5, <1>6 DEF Mutate

LEMMA DamageType ==
    ASSUME TypeOK, NEW kind \in {"unusable", "foreign"}, Damage(kind)
    PROVE  TypeOK'
  <1>1. harm.times + 1 \in 0 .. MaxDamage
    BY DamageAssumption DEF Damage, TypeOK
  <1>2. harm' \in [owed : SUBSET {"unusable", "foreign"}, times : 0 .. MaxDamage]
    BY <1>1 DEF Damage, TypeOK
  <1>3. file' \in File
    BY EmptyDocType DEF Damage, TypeOK, File
  <1> QED
    BY <1>2, <1>3 DEF Damage, TypeOK

LEMMA TypeStep == TypeOK /\ [Next]_vars => TypeOK'
  <1> SUFFICES ASSUME TypeOK, [Next]_vars PROVE TypeOK'
    OBVIOUS
  <1>1. ASSUME NEW p \in Process, Open(p) PROVE TypeOK'
    BY <1>1 DEF Open, Goto, Step, TypeOK
  <1>2. ASSUME NEW p \in Process, Load(p) PROVE TypeOK'
    BY <1>2, LoadStepType
  <1>3. ASSUME NEW p \in Process, Mutate(p) PROVE TypeOK'
    BY <1>3, MutateType
  <1>4. ASSUME NEW p \in Process, Exit(p) PROVE TypeOK'
    BY <1>4, CloseType DEF Exit, TypeOK
  <1>5. ASSUME NEW p \in Process, NEW o \in Op, Ask(p, o) PROVE TypeOK'
    BY <1>5 DEF Ask, Goto, Step, TypeOK
  <1>6. ASSUME NEW kind \in {"unusable", "foreign"}, Damage(kind) PROVE TypeOK'
    BY <1>6, DamageType
  <1>7. CASE UNCHANGED vars
    BY <1>7 DEF vars, TypeOK
  <1> QED
    BY <1>1, <1>2, <1>3, <1>4, <1>5, <1>6, <1>7 DEF Next

LEMMA TypeInit == Init => TypeOK
  <1> SUFFICES ASSUME Init PROVE TypeOK
    OBVIOUS
  <1>1. file \in File
    <2>1. PICK d \in FirstDocs : file \in {Absent, Written(d)}
      BY Zenon DEF Init
    <2>2. d \in Doc
      BY FirstDocsAssumption
    <2>3. Written(d) \in File
      BY <2>2 DEF Written, File
    <2> QED
      BY <2>1, <2>3, EmptyDocType
  <1>2. Migration \in Op /\ 0 \in 0 .. MaxDamage
    BY DamageAssumption DEF Migration, Op
  <1>3. /\ corrupt = Absent /\ bak = Absent /\ holder = NoProcess
        /\ mem = [p \in Process |-> EmptyDoc]
        /\ pc = [p \in Process |-> "closed"]
        /\ op = [p \in Process |-> Migration]
        /\ harm = [owed |-> {}, times |-> 0]
    BY Zenon DEF Init
  <1>4. harm \in [owed : SUBSET {"unusable", "foreign"}, times : 0 .. MaxDamage]
    BY <1>2, <1>3
  <1> QED
    BY <1>1, <1>2, <1>3, <1>4, EmptyDocType DEF TypeOK, Step

\* Every variable of the store stays in its type, whatever is done to the file.
THEOREM TypeCorrect == Spec => []TypeOK
  BY TypeInit, TypeStep, PTL DEF Spec

(***************************************************************************)
(* While nothing but dl writes the file.                                   *)
(***************************************************************************)
\* The file is absent or a document dl wrote, and no load has met anything else.
Healthy ==
    /\ harm.times = 0
    /\ file.kind # "unusable" /\ ~file.foreign
    /\ file.kind = "absent" => file.doc = EmptyDoc
    /\ \A p \in Process : /\ pc[p] \notin {"quarantining", "copying"}
                          /\ pc[p] = "reading" => file.kind = "doc"

\* HeaderNeverLies and ListedAreRecorded, of any document.
Good(d) ==
    /\ d.header = "current" => d.old = {}
    /\ \A t \in d.listed : t \in d.trees /\ t[1] \in d.repos

IInv == TypeOK /\ Healthy /\ Reloaded /\ Good(file.doc)

\* Every edit keeps a good document good.
LEMMA AfterGood ==
    ASSUME NEW o \in Op, o # Migration, NEW d \in Doc, Good(d)
    PROVE  Good(After(o, d))
  <1>1. CASE o.kind = "add_repository"
    BY <1>1, AddRepository DEF Good
  <1>2. CASE o.kind = "add_worktree"
    BY <1>2, AddWorktree DEF Good
  <1>3. CASE o.kind = "remove_worktree"
    BY <1>3, RemoveWorktree DEF Good
  <1>4. CASE o.kind \in {"update_repository", "update_worktree"}
    BY <1>4, UpdateEither DEF Good
  <1> QED
    BY <1>1, <1>2, <1>3, <1>4, OpCases

LEMMA MigratedGood ==
    ASSUME NEW d \in Doc, NEW refused \in SUBSET d.old, d.header = "old", Good(d)
    PROVE  Good(AfterMigration(d, refused))
  <1>1. refused \in SUBSET Tree
    BY DEF Doc
  <1> QED
    BY <1>1, Migrated DEF Good

\* What a save writes: an edit of the document that is in the file.
LEMMA SavedDoc ==
    ASSUME IInv, NEW p \in Process, Save(p)
    PROVE  /\ file' = Written(mem[p]) /\ file'.doc = mem[p]
           /\ Writes(op[p], file.doc)
           /\ \/ op[p] # Migration /\ mem[p] = After(op[p], file.doc)
              \/ op[p] = Migration /\ \E refused \in SUBSET file.doc.old :
                                         mem[p] = AfterMigration(file.doc, refused)
  BY DEF IInv, Reloaded, Save, Written

LEMMA SavedGood ==
    ASSUME IInv, NEW p \in Process, Save(p)
    PROVE  Good(file'.doc)
  <1>0. file.doc \in Doc /\ op[p] \in Op /\ Good(file.doc)
    BY DEF IInv, TypeOK, File
  <1>1. CASE op[p] # Migration /\ mem[p] = After(op[p], file.doc)
    BY <1>0, <1>1, SavedDoc, AfterGood
  <1>2. CASE op[p] = Migration /\ \E refused \in SUBSET file.doc.old :
                                     mem[p] = AfterMigration(file.doc, refused)
    <2>1. file.doc.header = "old"
      BY <1>2, SavedDoc DEF Writes, Migration
    <2>2. PICK refused \in SUBSET file.doc.old :
             mem[p] = AfterMigration(file.doc, refused)
      BY <1>2
    <2> QED
      BY <1>0, <2>1, <2>2, SavedDoc, MigratedGood
  <1> QED
    BY <1>1, <1>2, SavedDoc

\* A load without damage ends with what the file says, and changes no file.
LEMMA LoadKeeps ==
    ASSUME IInv, NEW p \in Process, Load(p)
    PROVE  Healthy' /\ Reloaded' /\ UNCHANGED file
  <1>1. Exists(p) \/ Read(p)
    BY DEF IInv, Healthy, Load, Quarantine, Backup
  <1>2. UNCHANGED <<file, corrupt, bak, holder, op, harm>>
    BY <1>1 DEF Exists, Read
  <1>3. \/ pc' = [pc EXCEPT ![p] = "reading"] /\ file.kind = "doc"
        \/ Loaded(p, file.doc)
    <2>1. CASE Exists(p)
      BY <2>1 DEF Exists, IInv, Healthy, TypeOK, File, Goto
    <2>2. CASE Read(p)
      BY <2>2 DEF Read, IInv, Healthy
    <2> QED
      BY <1>1, <2>1, <2>2
  <1>4. \A q \in Process \ {p} : pc'[q] = pc[q] /\ mem'[q] = mem[q]
    BY <1>1 DEF Exists, Read, Loaded, Goto, IInv, TypeOK
  <1>5. \/ pc'[p] = "reading" /\ file.kind = "doc"
        \/ pc'[p] = "editing" /\ holder = p /\ mem'[p] = file.doc
        \/ pc'[p] \in {"queued", "ready"}
    BY <1>3 DEF Loaded, Goto, IInv, TypeOK
  <1>6. Healthy'
    BY <1>2, <1>4, <1>5 DEF IInv, Healthy
  <1>7. Reloaded'
    BY <1>2, <1>4, <1>5 DEF IInv, Reloaded
  <1> QED
    BY <1>2, <1>6, <1>7

\* A step that leaves the file alone and brings p nowhere near an edit keeps
\* both parts: the others' copies are still what they were.
LEMMA OthersKeep ==
    ASSUME IInv, NEW p \in Process, UNCHANGED <<file, harm>>,
           pc' \in [Process -> Step],
           pc'[p] \in {"closed", "loading", "ready", "queued"},
           \A q \in Process \ {p} :
              /\ pc'[q] = pc[q] /\ mem'[q] = mem[q] /\ op'[q] = op[q]
              /\ holder = q => holder' = q
    PROVE  Healthy' /\ Reloaded'
  <1>1. Healthy'
    BY DEF IInv, Healthy
  <1>2. Reloaded'
    BY DEF IInv, Reloaded
  <1> QED
    BY <1>1, <1>2

LEMMA MutateKeeps ==
    ASSUME IInv, NEW p \in Process, Mutate(p)
    PROVE  Healthy' /\ Reloaded' /\ Good(file'.doc)
  <1>0. TypeOK' /\ Good(file.doc)
    BY MutateType DEF IInv
  <1>1. CASE TakeLock(p)
    <2>1. Healthy' /\ Reloaded'
      BY <1>0, <1>1, OthersKeep, NoProcessAssumption DEF TakeLock, Goto, IInv, TypeOK
    <2> QED
      BY <1>0, <1>1, <2>1 DEF TakeLock
  <1>2. CASE LockRefused(p)
    <2>1. Healthy' /\ Reloaded'
      BY <1>0, <1>2, OthersKeep DEF LockRefused, Goto, IInv, TypeOK
    <2> QED
      BY <1>0, <1>2, <2>1 DEF LockRefused
  <1>3. CASE EditNothing(p)
    <2>1. holder = p
      BY <1>3 DEF EditNothing, IInv, Reloaded
    <2>2. Healthy' /\ Reloaded'
      BY <1>0, <1>3, <2>1, OthersKeep DEF EditNothing, Finish, Goto, IInv, TypeOK
    <2> QED
      BY <1>0, <1>3, <2>2 DEF EditNothing
  <1>4. CASE Edit(p)
    <2>1. holder = p /\ mem[p] = file.doc
      BY <1>4 DEF Edit, IInv, Reloaded
    <2>2. /\ Writes(op[p], file.doc)
          /\ IF op[p] = Migration
             THEN \E refused \in SUBSET file.doc.old :
                     mem'[p] = AfterMigration(file.doc, refused)
             ELSE mem'[p] = After(op[p], file.doc)
      BY <1>4, <2>1 DEF Edit, IInv, TypeOK
    <2>3. \A q \in Process \ {p} : pc'[q] = pc[q] /\ mem'[q] = mem[q]
      BY <1>4 DEF Edit, Goto, IInv, TypeOK
    <2>4. pc'[p] = "saving" /\ UNCHANGED <<file, holder, op, harm>>
      BY <1>4 DEF Edit, Goto, IInv, TypeOK
    <2>5. Healthy'
      BY <2>3, <2>4 DEF IInv, Healthy
    <2>6. Reloaded'
      BY <2>1, <2>2, <2>3, <2>4 DEF IInv, Reloaded
    <2> QED
      BY <1>0, <2>4, <2>5, <2>6
  <1>5. CASE Save(p)
    <2>1. holder = p
      BY <1>5 DEF Save, IInv, Reloaded
    <2>2. \A q \in Process : pc[q] \notin {"editing", "saving"} \/ q = p
      BY <2>1 DEF IInv, Reloaded
    <2>3. /\ pc'[p] = "ready" /\ UNCHANGED harm
          /\ \A q \in Process \ {p} : pc'[q] = pc[q]
      BY <1>5 DEF Save, Finish, Goto, IInv, TypeOK
    <2>4. file'.kind = "doc" /\ ~file'.foreign
      BY <1>5 DEF Save, Written
    <2>5. Healthy'
      BY <2>3, <2>4 DEF IInv, Healthy
    <2>6. Reloaded'
      BY <2>2, <2>3 DEF Reloaded
    <2> QED
      BY <1>5, <2>5, <2>6, SavedGood
  <1>6. CASE SaveRefused(p)
    <2>1. holder = p
      BY <1>6 DEF SaveRefused, IInv, Reloaded
    <2>2. /\ pc'[p] \in {"ready", "closed"} /\ UNCHANGED <<file, harm>>
          /\ \A q \in Process \ {p} :
                pc'[q] = pc[q] /\ mem'[q] = mem[q] /\ op'[q] = op[q]
      BY <1>6 DEF SaveRefused, Finish, Close, Goto, IInv, TypeOK
    <2>3. pc' \in [Process -> Step]
      BY <1>0 DEF TypeOK
    <2>4. Healthy' /\ Reloaded'
      BY <2>1, <2>2, <2>3, OthersKeep
    <2> QED
      BY <1>0, <2>2, <2>4
  <1> QED
    BY <1>1, <1>2, <1>3, <1>4, <1>5, <1>6 DEF Mutate

\* The inductive step, one action at a time.
LEMMA HealthyStep ==
    ASSUME IInv, [Next]_vars, Untouched'
    PROVE  IInv'
  <1>0. TypeOK'
    BY TypeStep DEF IInv
  <1> SUFFICES Healthy' /\ Reloaded' /\ Good(file'.doc)
    BY <1>0 DEF IInv, Good
  <1>g. Good(file.doc)
    BY DEF IInv
  <1>1. ASSUME NEW p \in Process, Open(p)
        PROVE  Healthy' /\ Reloaded' /\ Good(file'.doc)
    <2>1. Healthy' /\ Reloaded'
      BY <1>0, <1>1, OthersKeep DEF Open, Goto, IInv, TypeOK
    <2> QED
      BY <1>1, <1>g, <2>1 DEF Open
  <1>2. ASSUME NEW p \in Process, Load(p)
        PROVE  Healthy' /\ Reloaded' /\ Good(file'.doc)
    BY <1>2, <1>g, LoadKeeps
  <1>3. ASSUME NEW p \in Process, Mutate(p)
        PROVE  Healthy' /\ Reloaded' /\ Good(file'.doc)
    BY <1>3, MutateKeeps
  <1>4. ASSUME NEW p \in Process, Exit(p)
        PROVE  Healthy' /\ Reloaded' /\ Good(file'.doc)
    <2>1. Healthy' /\ Reloaded'
      BY <1>0, <1>4, OthersKeep DEF Exit, Close, Goto, IInv, TypeOK
    <2> QED
      BY <1>4, <1>g, <2>1 DEF Exit
  <1>5. ASSUME NEW p \in Process, NEW o \in Op, Ask(p, o)
        PROVE  Healthy' /\ Reloaded' /\ Good(file'.doc)
    <2>1. Healthy' /\ Reloaded'
      BY <1>0, <1>5, OthersKeep DEF Ask, Goto, IInv, TypeOK
    <2> QED
      BY <1>5, <1>g, <2>1 DEF Ask
  <1>6. ASSUME NEW kind, Damage(kind) PROVE FALSE
    BY <1>6 DEF Damage, IInv, Healthy, Untouched
  <1>7. CASE UNCHANGED vars
    <2>1. Healthy' /\ Reloaded'
      BY <1>7 DEF vars, IInv, Healthy, Reloaded
    <2> QED
      BY <1>7, <1>g, <2>1 DEF vars
  <1> QED
    BY <1>1, <1>2, <1>3, <1>4, <1>5, <1>6, <1>7 DEF Next

LEMMA HealthyInit == Init => IInv
  <1> SUFFICES ASSUME Init PROVE IInv
    OBVIOUS
  <1>1. /\ harm = [owed |-> {}, times |-> 0]
        /\ pc = [p \in Process |-> "closed"]
    BY Zenon DEF Init
  <1>2. PICK d \in FirstDocs : file \in {Absent, Written(d)}
    BY Zenon DEF Init
  <1>3. Good(d)
    BY FirstDocsAssumption DEF Good
  <1>4. Good(EmptyDoc)
    BY DEF Good, EmptyDoc
  <1>5. Good(file.doc)
    BY <1>2, <1>3, <1>4 DEF Absent, Written
  <1>6. Healthy
    BY <1>1, <1>2 DEF Healthy, Absent, Written
  <1>7. Reloaded
    BY <1>1 DEF Reloaded
  <1> QED
    BY <1>5, <1>6, <1>7, TypeInit DEF IInv

\* The file, once something else has written it, never counts as untouched again.
LEMMA StaysTouched ==
    ASSUME TypeOK, [Next]_vars, Untouched'
    PROVE  Untouched
  <1>1. harm.times \in Nat
    BY DamageAssumption DEF TypeOK
  <1>2. ASSUME NEW kind, Damage(kind) PROVE FALSE
    BY <1>1, <1>2 DEF Damage, Untouched
  <1>3. harm'.times = harm.times
    <2>1. ASSUME NEW p \in Process, Load(p) PROVE harm'.times = harm.times
      BY <2>1 DEF Load, Exists, Read, Quarantine, Backup, Forgo, TypeOK
    <2>2. ASSUME NEW p \in Process, Mutate(p) PROVE harm'.times = harm.times
      BY <2>2 DEF Mutate, TakeLock, LockRefused, EditNothing, Edit, Save, SaveRefused
    <2> QED
      BY <1>2, <2>1, <2>2 DEF Next, vars, Open, Exit, Ask
  <1> QED
    BY <1>3 DEF Untouched

\* What is inductive for a file that may be damaged at any step.
HInv == TypeOK /\ (Untouched => IInv)

LEMMA HInvStep == HInv /\ [Next]_vars => HInv'
  <1> SUFFICES ASSUME HInv, [Next]_vars PROVE HInv'
    OBVIOUS
  <1>1. TypeOK'
    BY TypeStep DEF HInv
  <1>2. ASSUME Untouched' PROVE IInv'
    BY <1>2, StaysTouched, HealthyStep DEF HInv
  <1> QED
    BY <1>1, <1>2 DEF HInv

LEMMA HInvInit == Init => HInv
  BY HealthyInit, TypeInit DEF HInv

\* While nothing but dl writes the file, every save writes one edit of what the
\* file says at that moment (exclusive: lock, reload, edit, save).
THEOREM SavesAreReloaded == Spec => []ReloadedUnderLock
  <1>1. HInv => ReloadedUnderLock
    BY DEF HInv, IInv, ReloadedUnderLock
  <1> QED
    BY <1>1, HInvInit, HInvStep, PTL DEF Spec

\* ... no save promotes the header while the migration owes a rename (#180),
THEOREM HeaderIsHonest == Spec => []HeaderNeverLies
  <1>1. HInv => HeaderNeverLies
    BY DEF HInv, IInv, Good, HeaderNeverLies
  <1> QED
    BY <1>1, HInvInit, HInvStep, PTL DEF Spec

\* ... no branch list names a worktree without a record,
THEOREM ListsAreRecorded == Spec => []ListedAreRecorded
  <1>1. HInv => ListedAreRecorded
    BY DEF HInv, IInv, Good, ListedAreRecorded
  <1> QED
    BY <1>1, HInvInit, HInvStep, PTL DEF Spec

(***************************************************************************)
(* The store behaves as StoreSpec says.                                    *)
(***************************************************************************)
\* Each edit is a change the specification allows.
LEMMA RepoEdit ==
    ASSUME NEW o \in Op, NEW d \in Doc, Shown = d, Shown' = After(o, d),
           o.kind \in {"add_repository", "update_repository"}
    PROVE  \E r \in Repo : Store!ChangeRepo(r)
  <1>1. o.key \in Repo /\ o # Migration
    BY DEF Op, Migration
  <1>2. CASE o.kind = "add_repository"
    <2> DEFINE e == Shown'
               K == Store!Keys \ ({o.key} \cup {t \in Store!Tree : t[1] = o.key})
    <2>2. /\ e.repos = d.repos \cup {o.key} /\ e.header = d.header
          /\ e.listed = {t \in d.listed : t[1] # o.key}
          /\ e.trees = d.trees /\ e.old = d.old /\ e.noted = d.noted \ {o.key}
      BY <1>2, AddRepository
    <2>3. d.listed \subseteq Store!Tree
      BY DEF Doc, Tree, Store!Tree
    <2>4. \A t \in K : t \in e.listed <=> t \in d.listed
      BY <2>2, <2>3
    <2>5. e.listed \cap K = d.listed \cap K
      BY <2>4
    <2>6. e.repos \cap K = d.repos \cap K /\ e.noted \cap K = d.noted \cap K
      BY <2>2
    <2>7. Store!About(e, K) = Store!About(d, K)
      BY <2>2, <2>5, <2>6 DEF Store!About
    <2>1. Store!ChangeRepo(o.key)
      BY <2>2, <2>7 DEF Store!ChangeRepo
    <2> QED
      BY <1>1, <2>1
  <1>3. CASE o.kind = "update_repository"
    <2>1. Store!ChangeRepo(o.key)
      BY <1>3, UpdateEither DEF Store!ChangeRepo, Store!About, Store!Keys, Store!Tree
    <2> QED
      BY <1>1, <2>1
  <1> QED
    BY <1>2, <1>3

LEMMA TreeEdit ==
    ASSUME NEW o \in Op, NEW d \in Doc, Shown = d, Shown' = After(o, d),
           o.kind \in {"add_worktree", "update_worktree", "remove_worktree"}
    PROVE  \E t \in Store!Tree : Store!ChangeTree(t)
  <1>1. o.key \in Store!Tree /\ o # Migration
    BY DEF Op, Migration, Tree, Store!Tree
  <1>2. CASE o.kind = "add_worktree"
    <2>1. Store!ChangeTree(o.key)
      BY <1>2, AddWorktree DEF Store!ChangeTree, Store!About, Store!Keys
    <2> QED
      BY <1>1, <2>1
  <1>3. CASE o.kind = "remove_worktree"
    <2>1. Store!ChangeTree(o.key)
      BY <1>3, RemoveWorktree DEF Store!ChangeTree, Store!About, Store!Keys
    <2> QED
      BY <1>1, <2>1
  <1>4. CASE o.kind = "update_worktree"
    <2>1. Store!ChangeTree(o.key)
      BY <1>4, UpdateEither DEF Store!ChangeTree, Store!About, Store!Keys
    <2> QED
      BY <1>1, <2>1
  <1> QED
    BY <1>2, <1>3, <1>4

LEMMA MigrationEdit ==
    ASSUME NEW d \in Doc, Shown = d, d.header = "old",
           NEW refused \in SUBSET d.old, Shown' = AfterMigration(d, refused)
    PROVE  Store!Migrate
  <1>1. refused \in SUBSET Tree
    BY DEF Doc
  <1> QED
    BY <1>1, Migrated DEF Store!Migrate

\* A step maps to a change of the store, or to none.
LEMMA StoreStep ==
    ASSUME IInv, [Next]_vars, Untouched'
    PROVE  [Store!Next]_Shown
  <1> Untouched
    BY StaysTouched DEF IInv
  <1>s. Shown = file.doc /\ Shown' = file'.doc
    BY DEF Shown
  <1>0. file.doc \in Doc
    BY DEF IInv, TypeOK, File
  <1>1. ASSUME NEW p \in Process, Save(p) PROVE Store!Next
    <2>1. op[p] \in Op
      BY DEF IInv, TypeOK
    <2>2. CASE op[p] # Migration /\ mem[p] = After(op[p], file.doc)
      <3>1. file'.doc = After(op[p], file.doc)
        BY <1>1, <2>2, SavedDoc
      <3>2. \/ op[p].kind \in {"add_repository", "update_repository"}
            \/ op[p].kind \in {"add_worktree", "update_worktree", "remove_worktree"}
        BY <2>1, <2>2, OpCases
      <3> QED
        BY <1>0, <1>s, <2>1, <3>1, <3>2, RepoEdit, TreeEdit DEF Store!Next
    <2>3. CASE op[p] = Migration /\ \E refused \in SUBSET file.doc.old :
                                       mem[p] = AfterMigration(file.doc, refused)
      <3>1. PICK refused \in SUBSET file.doc.old :
               mem[p] = AfterMigration(file.doc, refused)
        BY <2>3
      <3>2. file.doc.header = "old" /\ file'.doc = AfterMigration(file.doc, refused)
        BY <1>1, <2>3, <3>1, SavedDoc DEF Writes, Migration
      <3> QED
        BY <1>0, <1>s, <3>2, MigrationEdit DEF Store!Next
    <2> QED
      BY <1>1, <2>2, <2>3, SavedDoc
  <1>2. ASSUME NEW p \in Process, Load(p) PROVE UNCHANGED file
    BY <1>2, LoadKeeps
  <1>3. ASSUME NEW kind, Damage(kind) PROVE FALSE
    BY <1>3 DEF Damage, IInv, Healthy, Untouched
  <1>4. (\E p \in Process : Save(p)) \/ UNCHANGED file
    BY <1>2, <1>3 DEF Next, vars, Open, Mutate, TakeLock, LockRefused, EditNothing,
                      Edit, SaveRefused, Exit, Ask
  <1> QED
    BY <1>1, <1>4, <1>s

\* ... and whatever the interleaving of loads, mutations, refusals and crashes,
\* the file changes one record at a time from what was last written: no run
\* drops another's record.
THEOREM StoreImplemented == Spec => ImplementsStore
  <1>1. ASSUME HInv, [Next]_vars PROVE [Store!Next]_Shown
    <2>1. CASE Untouched'
      BY <1>1, <2>1, StaysTouched, StoreStep DEF HInv
    <2>2. CASE ~Untouched'
      <3>1. Shown'.header = "ruined"
        BY <2>2 DEF Shown, EmptyDoc
      <3> QED
        BY <3>1 DEF Store!Next, Store!Ruin
    <2> QED
      BY <2>1, <2>2
  <1> QED
    BY <1>1, HInvInit, HInvStep, PTL DEF Spec, ImplementsStore, Store!Spec

\* ... nor does an update bring back a record another run removed (#412).
THEOREM NoResurrection == Spec => UpdatesNeverResurrect
  <1> DEFINE A(p) == /\ Untouched /\ pc[p] = "saving" /\ file' # file
                     /\ op[p].kind \in {"update_repository", "update_worktree"}
                     => op[p].key \in file.doc.repos \cup file.doc.trees
  <1>1. ASSUME HInv, NEW p \in Process PROVE A(p)
    <2>1. Untouched /\ pc[p] = "saving" => Writes(op[p], file.doc)
      BY <1>1 DEF HInv, IInv, Reloaded
    <2> QED
      BY <2>1 DEF Writes
  <1>2. HInv => \A p \in Process : A(p)
    BY <1>1
  <1> QED
    BY <1>2, HInvInit, HInvStep, PTL DEF Spec, UpdatesNeverResurrect

(***************************************************************************)
(* Whatever something else does to the file, and however loads, mutations  *)
(* and refusals overlap.                                                   *)
(***************************************************************************)
\* What p may rely on until its next step.  A mutation about to replace the file has
\* the lock, and whatever original is in the file is owed nothing or has its copy; a
\* load that judged the file unusable finds it unusable or gone while it holds the
\* lock, and never one a newer build left; and one that found such finds it or nothing.
SetAside(p) ==
    /\ pc[p] \in {"editing", "saving"} =>
          /\ holder = p
          /\ file.kind = "unusable" => "unusable" \notin harm.owed
          /\ file.foreign /\ "foreign" \in harm.owed => bak.foreign
    /\ pc[p] = "quarantining" =>
          /\ ~file.foreign
          /\ holder = p => file = Unusable \/ file.kind = "absent"
    /\ pc[p] = "copying" /\ holder = p => file.foreign \/ file.kind = "absent"

KInv ==
    /\ TypeOK
    /\ file.foreign => file.kind = "doc"
    /\ file.kind = "unusable" => file = Unusable
    /\ \A p \in Process : SetAside(p)
    /\ OriginalsKept

\* A step of p's that leaves every file alone, the others where they are, and the
\* lock with them when one of them has it.
LEMMA StillSetAside ==
    ASSUME KInv, TypeOK', NEW p \in Process, UNCHANGED <<file, corrupt, bak, harm>>,
           \A q \in Process \ {p} : pc'[q] = pc[q] /\ (holder' = q <=> holder = q),
           SetAside(p)'
    PROVE  KInv'
  <1>1. ASSUME NEW q \in Process, q # p PROVE SetAside(q)'
    BY <1>1 DEF KInv, SetAside
  <1> QED
    BY <1>1 DEF KInv, OriginalsKept

\* Where each part of a load leaves its process.
LEMMA LoadedAt ==
    ASSUME TypeOK, NEW p \in Process, NEW d, Loaded(p, d)
    PROVE  /\ \/ pc'[p] = "editing" /\ holder = p
              \/ pc'[p] \in {"queued", "ready"}
           /\ \A q \in Process \ {p} : pc'[q] = pc[q]
  BY DEF Loaded, Goto, TypeOK

LEMMA ReadSetsAside ==
    ASSUME KInv, TypeOK', NEW p \in Process, Exists(p) \/ Read(p)
    PROVE  KInv'
  <1>0. TypeOK /\ file \in File /\ UNCHANGED <<file, corrupt, bak, harm, holder>>
    BY DEF KInv, TypeOK, Exists, Read
  <1>1. CASE Exists(p)
    <2>1. CASE Goto(p, "reading")
      BY <1>0, <2>1, StillSetAside DEF Goto, TypeOK, SetAside
    <2>2. CASE file.kind = "absent" /\ Loaded(p, EmptyDoc)
      <3>1. ~file.foreign
        BY <2>2 DEF KInv
      <3>2. SetAside(p)'
        BY <1>0, <2>2, <3>1, LoadedAt DEF SetAside
      <3> QED
        BY <1>0, <2>2, <3>2, LoadedAt, StillSetAside
    <2> QED
      BY <1>1, <2>1, <2>2 DEF Exists
  <1>2. CASE Read(p)
    <2>1. CASE file.foreign /\ Goto(p, "copying")
      BY <1>0, <2>1, StillSetAside DEF Goto, TypeOK, SetAside
    <2>2. CASE file.kind # "doc" /\ ~file.foreign /\ Goto(p, "quarantining")
      <3>1. file = Unusable \/ file.kind = "absent"
        BY <1>0, <2>2 DEF KInv, File
      <3> QED
        BY <1>0, <2>2, <3>1, StillSetAside DEF Goto, TypeOK, SetAside
    <2>3. CASE file.kind = "doc" /\ ~file.foreign /\ Loaded(p, file.doc)
      <3>1. SetAside(p)'
        BY <1>0, <2>3, LoadedAt DEF SetAside
      <3> QED
        BY <1>0, <2>3, <3>1, LoadedAt, StillSetAside
    <2> QED
      BY <1>2, <2>1, <2>2, <2>3 DEF Read
  <1> QED
    BY <1>1, <1>2

\* A load that holds the lock moves only the original it read, and one that holds
\* none moves a saved document at worst, and never one a newer build left.
LEMMA QuarantineSetsAside ==
    ASSUME KInv, TypeOK', NEW p \in Process, Quarantine(p)
    PROVE  KInv'
  <1>0. /\ TypeOK /\ pc[p] = "quarantining" /\ ~file.foreign /\ UNCHANGED <<bak, holder>>
        /\ Loaded(p, mem[p]) /\ SetAside(p)
        /\ holder = p => file = Unusable \/ file.kind = "absent"
    BY DEF KInv, Quarantine, SetAside
  <1>1. /\ \A q \in Process \ {p} : pc'[q] = pc[q]
        /\ \/ pc'[p] = "editing" /\ holder = p
           \/ pc'[p] \in {"queued", "ready"}
    BY <1>0, LoadedAt
  <1>2. CASE /\ file.kind # "absent" /\ corrupt' = file /\ file' = Absent
             /\ Forgo("unusable", holder # p /\ file # Unusable)
    <2>1. harm'.owed \subseteq harm.owed
      BY <1>0, <1>2 DEF Forgo, TypeOK
    <2>2. \A q \in Process : SetAside(q)'
      <3> SUFFICES ASSUME NEW q \in Process PROVE SetAside(q)'
        OBVIOUS
      <3>1. ~file'.foreign /\ file'.kind = "absent"
        BY <1>2 DEF Absent
      <3>2. pc'[q] \in {"editing", "saving"} => holder' = q
        BY <1>0, <1>1 DEF KInv, SetAside
      <3> QED
        BY <3>1, <3>2 DEF SetAside
    <2>3. "unusable" \in harm'.owed => corrupt' = Unusable
      BY <1>0, <1>2 DEF Forgo, TypeOK
    <2>4. "foreign" \in harm'.owed => bak'.foreign
      BY <1>0, <2>1 DEF KInv, OriginalsKept
    <2> QED
      BY <1>2, <2>2, <2>3, <2>4 DEF KInv, OriginalsKept, Absent
  <1>3. CASE UNCHANGED <<file, corrupt>> /\ Forgo("unusable", file = Unusable)
    <2>1. /\ harm'.owed \subseteq harm.owed
          /\ file = Unusable => "unusable" \notin harm'.owed
      BY <1>0, <1>3 DEF Forgo, TypeOK
    <2>2. SetAside(p)'
      BY <1>0, <1>1, <1>3, <2>1 DEF SetAside, KInv
    <2>3. ASSUME NEW q \in Process, q # p PROVE SetAside(q)'
      BY <1>0, <1>1, <1>3, <2>1, <2>3 DEF SetAside, KInv
    <2> QED
      BY <1>0, <1>3, <2>1, <2>2, <2>3 DEF KInv, OriginalsKept
  <1> QED
    BY <1>2, <1>3 DEF Quarantine

\* ... and a copy is overwritten by another original, or by a load that holds no lock.
LEMMA BackupSetsAside ==
    ASSUME KInv, TypeOK', NEW p \in Process, Backup(p)
    PROVE  KInv'
  <1>0. /\ TypeOK /\ pc[p] = "copying" /\ UNCHANGED <<file, corrupt, holder>>
        /\ file.foreign \in BOOLEAN /\ Loaded(p, mem[p]) /\ SetAside(p)
        /\ holder = p => file.foreign \/ file.kind = "absent"
    BY DEF KInv, Backup, SetAside, TypeOK, File
  <1>1. /\ \A q \in Process \ {p} : pc'[q] = pc[q]
        /\ \/ pc'[p] = "editing" /\ holder = p
           \/ pc'[p] \in {"queued", "ready"}
    BY <1>0, LoadedAt
  <1>2. /\ harm'.owed \subseteq harm.owed
        /\ file.foreign /\ "foreign" \in harm'.owed => bak'.foreign
        /\ bak.foreign /\ "foreign" \in harm'.owed => bak'.foreign
    <2>1. CASE /\ file.kind # "absent" /\ bak' = file
               /\ Forgo("foreign", holder # p /\ ~file.foreign)
      BY <1>0, <2>1 DEF Forgo, TypeOK
    <2>2. CASE UNCHANGED bak /\ Forgo("foreign", file.foreign)
      BY <1>0, <2>2 DEF Forgo, TypeOK
    <2> QED
      BY <2>1, <2>2 DEF Backup
  <1>3. file.kind = "unusable" => ~file.foreign
    BY DEF KInv
  <1>4. SetAside(p)'
    BY <1>0, <1>1, <1>2, <1>3 DEF SetAside
  <1>5. ASSUME NEW q \in Process, q # p PROVE SetAside(q)'
    BY <1>0, <1>1, <1>2, <1>5 DEF SetAside, KInv
  <1> QED
    BY <1>0, <1>2, <1>4, <1>5 DEF KInv, OriginalsKept

\* A save replaces only what is owed nothing or has been set aside.
LEMMA SaveSetsAside ==
    ASSUME KInv, TypeOK', NEW p \in Process, Save(p)
    PROVE  KInv'
  <1>1. /\ pc[p] = "saving" /\ file' = Written(mem[p]) /\ holder = p
        /\ UNCHANGED <<corrupt, bak, harm>> /\ holder' = NoProcess
        /\ pc' = [pc EXCEPT ![p] = "ready"] /\ TypeOK
    BY DEF Save, Finish, Goto, KInv, SetAside
  <1>2. pc'[p] = "ready" /\ \A q \in Process \ {p} : pc'[q] = pc[q]
    BY <1>1 DEF TypeOK
  <1>3. file'.kind = "doc" /\ ~file'.foreign
    BY <1>1 DEF Written
  <1>4. ASSUME NEW q \in Process PROVE SetAside(q)'
    <2>1. pc'[q] \notin {"editing", "saving"}
      BY <1>1, <1>2 DEF KInv, SetAside
    <2>2. holder' # q
      BY <1>1, NoProcessAssumption
    <2> QED
      BY <1>3, <2>1, <2>2 DEF SetAside
  <1>5. /\ "unusable" \in harm.owed => file # Unusable
        /\ file.foreign /\ "foreign" \in harm.owed => bak.foreign
    BY <1>1 DEF KInv, SetAside, Unusable
  <1>6. OriginalsKept'
    BY <1>1, <1>5 DEF KInv, OriginalsKept
  <1> QED
    BY <1>3, <1>4, <1>6 DEF KInv

\* An edit of the file by something else, between loads.
LEMMA DamageSetsAside ==
    ASSUME KInv, TypeOK', NEW kind \in {"unusable", "foreign"}, Damage(kind)
    PROVE  KInv'
  <1>1. /\ \A p \in Process : pc[p] \in {"closed", "loading", "ready", "queued"}
        /\ file \in File /\ file.kind = "doc" /\ ~file.foreign
        /\ harm'.owed = harm.owed \cup {kind}
        /\ file' = IF kind = "unusable" THEN Unusable ELSE [file EXCEPT !.foreign = TRUE]
        /\ UNCHANGED <<corrupt, bak, pc>>
    BY DEF Damage, KInv, TypeOK
  <1>2. \A p \in Process : SetAside(p)'
    BY <1>1 DEF SetAside
  <1>3. file # Unusable
    BY <1>1 DEF Unusable
  <1>4. CASE kind = "unusable"
    BY <1>1, <1>2, <1>3, <1>4 DEF KInv, OriginalsKept, Unusable
  <1>5. CASE kind = "foreign"
    <2>1. file'.foreign /\ file'.kind = "doc"
      BY <1>1, <1>5 DEF File
    <2> QED
      BY <1>1, <1>2, <1>3, <1>5, <2>1 DEF KInv, OriginalsKept
  <1> QED
    BY <1>4, <1>5

\* The steps of a process that leave every file alone.
LEMMA QuietSetsAside ==
    ASSUME KInv, TypeOK', NEW p \in Process,
           \/ Open(p) \/ TakeLock(p) \/ LockRefused(p) \/ EditNothing(p) \/ Edit(p)
           \/ SaveRefused(p) \/ Exit(p) \/ \E o \in Op : Ask(p, o)
    PROVE  KInv'
  <1>0. TypeOK /\ UNCHANGED <<file, corrupt, bak, harm>>
    BY DEF KInv, Open, TakeLock, LockRefused, EditNothing, Edit, SaveRefused, Exit, Ask
  <1>1. \A q \in Process \ {p} : pc'[q] = pc[q]
    BY <1>0 DEF Open, TakeLock, LockRefused, EditNothing, Edit, SaveRefused, Exit, Ask,
                Finish, Close, Goto, TypeOK
  <1>2. pc[p] \in {"editing", "saving"} => holder = p
    BY DEF KInv, SetAside
  <1>3. \/ holder' = holder
        \/ holder = NoProcess /\ holder' = p
        \/ holder = p /\ holder' = NoProcess
    BY <1>2 DEF Open, TakeLock, LockRefused, EditNothing, Edit, SaveRefused, Exit, Ask,
                Finish, Close
  <1>4. \A q \in Process \ {p} : holder' = q <=> holder = q
    BY <1>3, NoProcessAssumption
  <1>5. SetAside(p)'
    <2>1. CASE Edit(p)
      <3>1. pc[p] = "editing" /\ pc'[p] = "saving" /\ holder' = holder
        BY <1>0, <2>1 DEF Edit, Goto, TypeOK
      <3> QED
        BY <1>0, <3>1 DEF KInv, SetAside
    <2>2. CASE ~Edit(p)
      <3>1. pc'[p] \in {"closed", "loading", "ready", "queued"}
        BY <1>0, <2>2 DEF Open, TakeLock, LockRefused, EditNothing, SaveRefused, Exit, Ask,
                          Finish, Close, Goto, TypeOK
      <3> QED
        BY <3>1 DEF SetAside
    <2> QED
      BY <2>1, <2>2
  <1> QED
    BY <1>0, <1>1, <1>4, <1>5, StillSetAside

LEMMA KeepStep == KInv /\ [Next]_vars => KInv'
  <1> SUFFICES ASSUME KInv, [Next]_vars PROVE KInv'
    OBVIOUS
  <1>0. TypeOK'
    BY TypeStep DEF KInv
  <1>1. ASSUME NEW p \in Process, Load(p) PROVE KInv'
    BY <1>0, <1>1, ReadSetsAside, QuarantineSetsAside, BackupSetsAside DEF Load
  <1>2. ASSUME NEW p \in Process, Save(p) PROVE KInv'
    BY <1>0, <1>2, SaveSetsAside
  <1>3. ASSUME NEW p \in Process,
               \/ Open(p) \/ TakeLock(p) \/ LockRefused(p) \/ EditNothing(p) \/ Edit(p)
               \/ SaveRefused(p) \/ Exit(p) \/ \E o \in Op : Ask(p, o)
        PROVE  KInv'
    BY <1>0, <1>3, QuietSetsAside
  <1>4. ASSUME NEW kind \in {"unusable", "foreign"}, Damage(kind) PROVE KInv'
    BY <1>0, <1>4, DamageSetsAside
  <1>5. CASE UNCHANGED vars
    BY <1>0, <1>5 DEF vars, KInv, SetAside, OriginalsKept
  <1> QED
    BY <1>1, <1>2, <1>3, <1>4, <1>5 DEF Next, Mutate

\* Whatever something else writes there, however often, what could not be read or
\* not be written back whole is in the file or in its slot, however loads and
\* mutations overlap and whatever the OS refuses: unless the OS refused to set that
\* one aside, or an `open`, which holds no lock, was overtaken by a save.
THEOREM LossyIsPreserved == Spec => []OriginalsKept
  <1>1. Init => KInv
    <2> SUFFICES ASSUME Init PROVE KInv
      OBVIOUS
    <2>1. /\ harm = [owed |-> {}, times |-> 0]
          /\ pc = [p \in Process |-> "closed"]
          /\ \E d \in FirstDocs : file \in {Absent, Written(d)}
      BY Zenon DEF Init
    <2>2. (\A p \in Process : SetAside(p)) /\ OriginalsKept
      BY <2>1 DEF SetAside, OriginalsKept
    <2> QED
      BY <2>1, <2>2, TypeInit DEF KInv, Absent, Written
  <1>2. KInv => OriginalsKept
    BY DEF KInv
  <1> QED
    BY <1>1, <1>2, KeepStep, PTL DEF Spec
=============================================================================
