----------------------------- MODULE Addressing -----------------------------
(***************************************************************************)
(* Which workspace a name addresses.  A launch or a removal is asked for   *)
(* by an owner/repo@branch triple, and a removal by a bare id too.  The id *)
(* a triple derives is a short hash, so two triples may derive one; an     *)
(* older devlaunch derived others, and metadata.json still says which      *)
(* (flows/launch.rs resolve_triple, colliding_record; lifecycle/state.rs   *)
(* resolve_known_workspace; dl/src/target.rs).  devpod's ids are global, a *)
(* clone directory is the id under its repository.                         *)
(*                                                                         *)
(* A triple stands for its Identity (case is folded before).  The metadata *)
(* lock makes each read and each write of the records one step             *)
(* (Metadata); what an unsaved clone does to an `rm` is in Unsaved, and    *)
(* the launch lock in Launch.                                              *)
(***************************************************************************)
EXTENDS Naturals, FiniteSets

CONSTANTS
    Process,   \* dl processes, each running one command after another
    Triple, Id, Repo,
    RepoOf,    \* the repository of each triple
    Derived,   \* WorkspaceId::value of each triple, not injective
    Old,       \* the triples an older devlaunch may have launched
    Former,    \* the id it gave each of them
    None,
    Verbs,       \* the commands there are in an instance
    MaxCommands  \* bound: commands begun

NamesAssumption ==
    /\ RepoOf \in [Triple -> Repo]
    /\ Derived \in [Triple -> Id] /\ Old \subseteq Triple /\ Former \in [Old -> Id]
    /\ None \notin Triple \cup Id \cup [leaf : Id, devpod : Id]
BoundAssumption ==
    MaxCommands \in Nat /\ Verbs \subseteq {"launch", "rm", "force", "kill", "prune"}

VARIABLES
    records,    \* the worktree record of each triple in metadata.json
    clone,      \* the triple each clone directory has checked out, or None
    standing,   \* the workspaces devpod has
    tenants,    \* history: the triples whose launches opened each workspace
    lapsed,     \* history: the workspaces whose record is excused from being there
    commands,   \* commands begun
    pc, my,     \* where each command is and what it holds
    met         \* history: the commands that ran beside each, by their marks

vars == <<records, clone, standing, tenants, lapsed, commands, pc, my, met>>
disk == <<records, clone, standing, tenants, lapsed>>

Dir == Repo \X Id
DirOf(t, i) == <<RepoOf[t], i>>
Removals == {"rm", "force", "kill"}
Idle == [verb |-> None, asked |-> None, id |-> None, victim |-> None,
         rough |-> FALSE, stale |-> {}]

TypeOK ==
    /\ records \in [Triple -> {None} \cup [leaf : Id, devpod : Id \cup {None}]]
    /\ clone \in [Dir -> Triple \cup {None}]
    /\ standing \subseteq Id
    /\ tenants \in [Id -> SUBSET Triple] /\ lapsed \subseteq Id
    /\ pc \in [Process -> {"idle", "ask", "follow", "prepare", "register", "attach", "up",
                           "look", "delete", "clean", "unrecord", "forget"}]
    /\ my \in [Process -> [verb : Removals \cup {"launch", "prune", None},
                           asked : Triple \cup {None}, id : Id \cup {None},
                           victim : Triple \cup {None}, rough : BOOLEAN,
                           stale : SUBSET Triple]]
    /\ commands \in 0 .. MaxCommands
    /\ met \in [Process -> SUBSET (Triple \cup {None})]

\* What older devlaunches left: some triples have a workspace under their former id,
\* and the migration has moved some of their clones onto the names they derive now,
\* never two onto one (Migration).
Init ==
    /\ \E old \in SUBSET Old : \E moved \in SUBSET old :
          LET leaf(t) == IF t \in moved THEN Derived[t] ELSE Former[t]
          IN  /\ \A t, u \in old :
                    DirOf(t, leaf(t)) = DirOf(u, leaf(u)) => t = u
              /\ records = [t \in Triple |->
                    IF t \in old THEN [leaf |-> leaf(t), devpod |-> Former[t]] ELSE None]
              /\ clone = [d \in Dir |->
                    IF \E t \in old : d = DirOf(t, leaf(t))
                    THEN CHOOSE t \in old : d = DirOf(t, leaf(t)) ELSE None]
              /\ standing = {Former[t] : t \in old}
              /\ tenants = [i \in Id |-> {t \in old : Former[t] = i}]
    /\ lapsed = {}
    /\ pc = [p \in Process |-> "idle"]
    /\ my = [p \in Process |-> Idle]
    /\ met = [p \in Process |-> {}]
    /\ commands = 0

-----------------------------------------------------------------------------
\* Mutant: what devpod was told is not looked at.
HoldsItsName(t, i) ==
    /\ records[t] # None
    /\ records[t].leaf = i \/ Derived[t] = i

\* holds_id: t's record occupies i, by its clone, its container or its derivation.
Holds(t, i) ==
    /\ records[t] # None
    /\ records[t].leaf = i \/ records[t].devpod = i \/ Derived[t] = i

\* The name its record gives the clone of t.
Leaf(t) == IF records[t] = None THEN None ELSE records[t].leaf

\* Who holds the id of t is read from the records as they stand (ColdPath::recorded).
Collides(t) == \E u \in Triple \ {t} : Holds(u, Derived[t])

Launching(p) == my[p].verb = "launch"

\* What a command is to those that run beside it: the triple it launches, or None.
Mark(m) == IF m.verb = "launch" THEN m.asked ELSE None
Busy == {p \in Process : pc[p] # "idle"}

\* p's command begins, knowing `mine`.
Begins(p, mine, at) ==
    /\ p \notin Busy
    /\ mine.verb \in Verbs /\ commands < MaxCommands
    /\ commands' = commands + 1
    /\ pc' = [pc EXCEPT ![p] = at]
    /\ my' = [my EXCEPT ![p] = mine]
    /\ met' = [q \in Process |->
                 IF q = p THEN {Mark(my[o]) : o \in Busy}
                 ELSE IF q \in Busy THEN met[q] \cup {Mark(mine)} ELSE {}]

\* `dl <triple>`: the guard comes before devpod is asked anything.
Launch(p, t) ==
    /\ ~Collides(t)
    /\ Begins(p, [Idle EXCEPT !.verb = "launch", !.asked = t], "ask")
    /\ UNCHANGED disk

\* `dl <triple> rm`, `rm --force` and `kill`: no guard.
Remove(p, t, verb) ==
    /\ Begins(p, [Idle EXCEPT !.verb = verb, !.asked = t], "ask")
    /\ UNCHANGED disk

\* `dl <id> ...` (existing): devpod has the name, but for `kill`, which takes it.
RemoveById(p, i, verb) ==
    /\ verb = "kill" \/ i \in standing
    /\ Begins(p, [Idle EXCEPT !.verb = verb, !.id = i, !.rough = i \notin standing],
              "look")
    /\ UNCHANGED disk

\* p goes on to `at` with what it knows now.
Goes(p, at, mine) ==
    /\ pc' = [pc EXCEPT ![p] = at]
    /\ my' = [my EXCEPT ![p] = mine]
    /\ UNCHANGED <<met, commands>>

\* The command is over.
Ends(p) ==
    /\ pc' = [pc EXCEPT ![p] = "idle"]
    /\ my' = [my EXCEPT ![p] = Idle]
    /\ met' = [met EXCEPT ![p] = {}]
    /\ UNCHANGED commands

\* It acts on id i, which devpod knows.
Known(p, i) ==
    Goes(p, IF Launching(p) THEN "attach" ELSE "look", [my[p] EXCEPT !.id = i])

\* devpod knows neither id: the derived one is what is created or removed.
Unknown(p, rough) ==
    Goes(p, IF Launching(p) THEN "prepare" ELSE "look",
         [my[p] EXCEPT !.id = Derived[my[p].asked], !.rough = @ \/ rough])

\* Mutant: the id is derived and never looked up (devlaunch before #88).
RecordedNever(t) == None

\* The id t is recorded under, if it is another than the derived one.
Recorded(t) ==
    IF records[t] # None /\ records[t].devpod \notin {None, Derived[t]}
    THEN records[t].devpod ELSE None

\* devpod is asked about the derived id.  It may deny a workspace it has, when the
\* provider is broken.
AskDerived(p) ==
    /\ pc[p] = "ask"
    /\ LET i == Derived[my[p].asked]
       IN  \/ i \in standing /\ Known(p, i)
           \/ Goes(p, "follow", [my[p] EXCEPT !.rough = i \in standing])
    /\ UNCHANGED disk

\* Denied: the records are read now, and what they say is asked about too.
AskRecorded(p) ==
    /\ pc[p] = "follow"
    /\ LET i == Recorded(my[p].asked)
       IN  \/ i # None /\ i \in standing /\ Known(p, i)
           \/ Unknown(p, i # None /\ i \in standing)
    /\ UNCHANGED disk

\* devpod cannot be run, or `kill` has waited KILL_MAY_WAIT: `kill` goes on with the
\* derived id, every other verb ends (Stop).
GiveUpAsking(p) ==
    /\ pc[p] \in {"ask", "follow"} /\ my[p].verb = "kill"
    /\ LET t == my[p].asked
       IN  Goes(p, "look", [my[p] EXCEPT !.id = Derived[t], !.rough = TRUE])
    /\ UNCHANGED disk

\* prepare_workspace, on disk: a new clone, or the branch checked out in the one
\* that is there.
Prepare(p) ==
    /\ pc[p] = "prepare"
    /\ clone' = [clone EXCEPT ![DirOf(my[p].asked, my[p].id)] = my[p].asked]
    /\ Goes(p, "register", my[p])
    /\ UNCHANGED <<records, standing, tenants, lapsed>>

\* The workspaces of t.
Of(t) == {i \in Id : t \in tenants[i]}

\* Its record is written, with the id in both fields; a record that cannot be
\* written is a notice.
Register(p) ==
    /\ pc[p] = "register"
    /\ LET t == my[p].asked
           i == my[p].id
       IN  /\ \/ /\ records' = [records EXCEPT ![t] = [leaf |-> i, devpod |-> i]]
                 /\ Goes(p, "up", my[p])
              \/ UNCHANGED records /\ Goes(p, "up", [my[p] EXCEPT !.rough = TRUE])
           /\ lapsed' = IF my[p].rough \/ t \in met[p] THEN lapsed \cup (Of(t) \ {i})
                        ELSE lapsed
    /\ UNCHANGED <<clone, standing, tenants>>

\* What t has elsewhere is excused where its launch comes into what others opened.
Strays(t, i) == IF i \in standing /\ t \notin tenants[i] THEN Of(t) ELSE {}

\* The launch's session is in workspace i.
Enters(p, i) ==
    /\ tenants' = [tenants EXCEPT ![i] = @ \cup {my[p].asked}]
    /\ Ends(p)
    /\ UNCHANGED <<records, clone>>

\* A workspace devpod knows is attached to, where it still is.
Attach(p) ==
    /\ pc[p] = "attach" /\ my[p].id \in standing
    /\ Enters(p, my[p].id)
    /\ lapsed' = lapsed \cup Strays(my[p].asked, my[p].id)
    /\ UNCHANGED standing

\* `devpod up <clone> --id`: a workspace is created over the clone, or found.
Up(p) ==
    /\ pc[p] = "up"
    /\ LET t == my[p].asked
           i == my[p].id
       IN  /\ clone[DirOf(t, i)] # None
           /\ standing' = standing \cup {i}
           /\ lapsed' = IF i \in standing \/ Leaf(t) = i THEN lapsed \cup Strays(t, i)
                        ELSE IF my[p].rough \/ {t, None} \cap met[p] # {}
                             THEN lapsed \cup {i} ELSE lapsed
    /\ Enters(p, my[p].id)

-----------------------------------------------------------------------------
\* The removal opens the records, and finds the one whose clone has the id's name
\* (get_worktree_by_workspace_id).
Look(p) ==
    /\ pc[p] = "look"
    /\ LET named == {t \in Triple : Leaf(t) = my[p].id}
       IN  \E v \in IF named = {} THEN {None} ELSE named :
              Goes(p, "delete", [my[p] EXCEPT !.victim = v])
    /\ UNCHANGED disk

\* `devpod delete`: only `rm --force` and `kill` count an absent one as deleted.
Delete(p) ==
    /\ pc[p] = "delete"
    /\ LET i == my[p].id
       IN  /\ my[p].verb = "rm" => i \in standing
           /\ standing' = standing \ {i}
           /\ tenants' = [tenants EXCEPT ![i] = {}]
           /\ lapsed' = lapsed \ {i}
    /\ IF my[p].victim = None THEN Ends(p)
       ELSE Goes(p, "clean", [my[p] EXCEPT !.rough = @ \/ my[p].victim \notin tenants[my[p].id]])
    /\ UNCHANGED <<records, clone>>

\* p takes away what each v of V is recorded by.  It is excused for a v that was launched
\* beside it, and for one it addressed by another's name, found in another's directory or
\* went for past what devpod said.
Takes(p, V) ==
    lapsed' = lapsed \cup
        UNION {Of(v) : v \in {v \in V : \/ v \in met[p] \/ my[p].rough
                                     \/ {my[p].asked, my[p].victim} \ {v, None} # {}}}

\* The directory of a record of t by name i, or, where there is none, its derived one.
ClonePath(t, i) == IF clone[DirOf(t, i)] # None THEN DirOf(t, i) ELSE DirOf(t, Derived[t])

\* remove_clone: the directory first; where there is none, the record stays.
RemoveClone(p) ==
    /\ pc[p] = "clean"
    /\ LET d == ClonePath(my[p].victim, my[p].id)
       IN  \/ clone[d] = None /\ Ends(p) /\ UNCHANGED <<clone, lapsed>>
           \/ /\ clone[d] # None
              /\ clone' = [clone EXCEPT ![d] = None]
              /\ Takes(p, {clone[d]} \cup {v \in Triple : Leaf(v) # None /\ DirOf(v, Leaf(v)) = d})
              /\ Goes(p, "unrecord", my[p])
    /\ UNCHANGED <<records, standing, tenants>>

\* forget_clone, storage.remove_worktree: by its triple, in the records as they are now.
Forgets(p, v) ==
    /\ records' = [records EXCEPT ![v] = None]
    /\ Takes(p, {v})

\* storage.remove_worktree
Unrecord(p) ==
    /\ pc[p] = "unrecord"
    /\ Forgets(p, my[p].victim)
    /\ Ends(p)
    /\ UNCHANGED <<clone, standing, tenants>>

\* `dl --prune` plans: the records whose directories are not there.
Plan(p) ==
    /\ Begins(p, [Idle EXCEPT !.verb = "prune",
                              !.stale = {t \in Triple :
                                  records[t] # None /\ clone[ClonePath(t, Leaf(t))] = None}],
              "forget")
    /\ my'[p].stale # {}
    /\ UNCHANGED disk

\* It forgets them, without asking again.
Forget(p) ==
    /\ pc[p] = "forget"
    /\ IF my[p].stale = {} THEN Ends(p) /\ UNCHANGED <<records, lapsed>>
       ELSE \E t \in my[p].stale :
              /\ Forgets(p, t)
              /\ Goes(p, "forget", [my[p] EXCEPT !.stale = @ \ {t}])
    /\ UNCHANGED <<clone, standing, tenants>>

\* A command is refused by git, by devpod or by the guard of `rm`, or it is killed.
Stop(p) == pc[p] # "idle" /\ Ends(p) /\ UNCHANGED disk

Next ==
    \E p \in Process :
       \/ \E t \in Triple : Launch(p, t) \/ \E v \in Removals : Remove(p, t, v)
       \/ \E i \in Id, v \in Removals : RemoveById(p, i, v)
       \/ AskDerived(p) \/ AskRecorded(p) \/ GiveUpAsking(p)
       \/ Prepare(p) \/ Register(p) \/ Attach(p) \/ Up(p)
       \/ Look(p) \/ Delete(p) \/ RemoveClone(p) \/ Unrecord(p)
       \/ Plan(p) \/ Forget(p) \/ Stop(p)

Spec == Init /\ [][Next]_vars

-----------------------------------------------------------------------------
\* The record of t names workspace i.
Names(t, i) == records[t] # None /\ i \in {records[t].leaf, records[t].devpod, Derived[t]}

\* A workspace stands with a record that names it, of a triple that has been in it,
\* unless the record was refused, or went in a removal that a launch overlapped, that
\* was asked for by another's name or found another's directory, or that went past what
\* devpod said, or its triple has since come into a workspace that others opened
\* (prepare_workspace, workspace_delete, remove_clone).
VouchedFor ==
    \A i \in standing \ lapsed : \E t \in tenants[i] : Names(t, i)

\* A launch that comes into a workspace its triple has not been in finds no other
\* triple there that was not launched beside it, unless the record had lapsed
\* (colliding_record).
OneTenant ==
    \A p \in Process :
        LET i == my[p].id
        IN  pc[p] \in {"attach", "up"} /\ i \in standing \ lapsed
                => my[p].asked \in tenants[i] \/ tenants[i] \subseteq met[p]

\* A launch makes no second workspace for a triple that has one of its own, by any id,
\* where devpod answers and no other command was beside it (resolve_known_workspace).
OneWorkspace ==
    \A p \in Process :
        pc[p] = "up" /\ ~my[p].rough /\ met[p] = {}
            => \A i \in Id \ {my[p].id} : tenants[i] = {my[p].asked} => i \in lapsed

\* Names lead to workspaces and back: each stands on a record, holds one triple, and is
\* the only one of its triple (flows/launch.rs, lifecycle/state.rs, delete.rs).
NamesSafe == TypeOK /\ VouchedFor /\ OneTenant /\ OneWorkspace
=============================================================================
