------------------------------ MODULE Reconcile ------------------------------
(***************************************************************************)
(* Where devpod's workspaces are among the clones of one repository, and   *)
(* the three commands that go by it: `dl --reconcile` re-points a          *)
(* workspace sourced at something that is no clone (lifecycle/             *)
(* reconcile.rs), `dl --prune` removes a clone nothing opens               *)
(* (locations.rs, prune_status.rs, prune_plan.rs, prune_run.rs), and a     *)
(* launch follows its branch's id, derived or recorded (state.rs).         *)
(*                                                                         *)
(* A clone's directory is named after its workspace id; older builds of dl *)
(* named it after the branch, and devpod's records of then still do.  A    *)
(* place in the repository's tree is a directory of it, or a directory     *)
(* under one.  Records whose clone the migration left under an older name, *)
(* what a clone holds (RepoCache), and other repositories are left out.    *)
(***************************************************************************)
EXTENDS Naturals, Sequences

CONSTANTS
    Process,      \* the dl processes
    Name,         \* names of directories, which are also ids of workspaces
    Branch,       \* the branches a clone may be of
    Derived,      \* the id, and directory, of each branch today
    Spelled,      \* the names a build of dl has given its directory
    Old,          \* the workspaces of another scheme
    Strewn,       \* the places devpod's records may have those at
    Outside,      \* a source that is not in the repository's tree
    Unreadable,   \* a source dl cannot place
    Unlisted,     \* the source of a workspace devpod has not
    NoId, Missing,  \* a record without an id, and no record
    Verbs,        \* the commands run
    MaxCommands,  \* commands begun in all, a kill counted as one
    MaxCrashes    \* commands killed

Verb == {"reconcile", "launch", "rm", "prune"}

\* What the constants have to satisfy: the modules that take instances assume it.
NamesAssumption ==
    /\ Derived \in [Branch -> Name] /\ Spelled \in [Branch -> SUBSET Name]
    /\ \A b \in Branch : Derived[b] \in Spelled[b] \ Old
    /\ \A b, c \in Branch : b # c => Derived[b] \notin Spelled[c]
    /\ Old \subseteq Name /\ Branch # {} /\ {NoId, Missing} \cap Name = {}
PlacesAssumption ==
    /\ \A at \in Strewn : at \in Seq(Name) /\ Len(at) \in {1, 2}
    /\ {Outside, Unreadable, Unlisted} \cap Seq(Name) = {}
BoundsAssumption ==
    Verbs \subseteq Verb /\ MaxCommands \in Nat /\ MaxCrashes \in Nat

VARIABLES
    source,   \* where devpod's record has each workspace
    git,      \* the directories of the tree that hold a checkout
    records,  \* the devpod id in each branch's record
    pc, my,   \* the step each process is at, and what it carries
    calm,     \* history: only itself has changed anything since it began
    steady,   \* history: listed, and where it was, ever since it listed again
    half,     \* history: re-pointed by a run that died before it recorded
    crossed,  \* history: re-pointed from another place than the run had listed
    commands, crashes

world   == <<source, git, records>>
history == <<calm, steady, half, crossed>>
counts  == <<commands, crashes>>
vars    == <<world, pc, my, history, counts>>

Place  == Strewn \cup {<<Derived[b]>> : b \in Branch}
Listed == {w \in Name : source[w] # Unlisted}

-----------------------------------------------------------------------------
\* source_places and site_of: the clone answers for what is in it, and a place
\* whose first directory is no checkout is in the repository only.
InTree(at)         == at \notin {Outside, Unreadable, Unlisted}
InAClone(at, dirs) == InTree(at) /\ at[1] \in dirs
Astray(at, dirs)   == InTree(at) /\ at[1] \notin dirs

Unlocatable(seen) == \E w \in Name : seen[w] = Unreadable

\* WorkspaceLocations::holder, at it or under it.
Holder(seen, dirs, dir) ==
    \E w \in Name : InAClone(seen[w], dirs) /\ seen[w][1] = dir

Misplaced(seen, dirs) == \E w \in Name : Astray(seen[w], dirs)

\* clone_status: referenced, disputed, or an orphan, which alone may go.
Collectable(seen, dirs, recs, dir) ==
    /\ ~Holder(seen, dirs, dir)
    /\ ~Misplaced(seen, dirs)
    /\ \A b \in Branch : Derived[b] = dir /\ recs[b] # Missing => seen[dir] = Unlisted

-----------------------------------------------------------------------------
(***************************************************************************)
(* reconcile_plan: the clones that are free, the orphans, and the pairs    *)
(* neither side of which has another candidate.                            *)
(***************************************************************************)
Candidates(seen, dirs, recs) ==
    {b \in Branch : recs[b] # Missing /\ Derived[b] \in dirs
                                      /\ ~Holder(seen, dirs, Derived[b])}

Orphans(seen, dirs) == {w \in Name : Astray(seen[w], dirs)}

Answers(seen, dirs, recs, w) ==
    {b \in Candidates(seen, dirs, recs) : seen[w][Len(seen[w])] \in Spelled[b]}

Adoptable(seen, dirs, recs) ==
    {pair \in Orphans(seen, dirs) \X Branch :
        /\ Answers(seen, dirs, recs, pair[1]) = {pair[2]}
        /\ \A w \in Orphans(seen, dirs) \ {pair[1]} :
              Answers(seen, dirs, recs, w) # {pair[2]}}

-----------------------------------------------------------------------------
Step == {"idle", "list", "plan", "answer", "repoint", "record", "relist", "weigh",
         "forget", "ask", "prepare", "up", "delete", "remove"}
Told(verb, w, b, recs, owed) ==
    [verb |-> verb, ws |-> w, branch |-> b, seen |-> [x \in Name |-> Unlisted],
     dirs |-> {}, recs |-> recs, adopting |-> {}, going |-> {}, gone |-> {}, owed |-> owed,
     landed |-> TRUE]
Someone   == CHOOSE w \in Name : TRUE
Something == CHOOSE b \in Branch : TRUE
Untold == Told("launch", Someone, Something, [b \in Branch |-> Missing], {})
Mine == [verb : Verb, ws : Name, branch : Branch,
         seen : [Name -> Place \cup {Outside, Unreadable, Unlisted}],
         dirs : SUBSET Name, recs : [Branch -> Name \cup {NoId, Missing}],
         adopting : SUBSET (Name \X Branch), going : SUBSET Name,
         gone : SUBSET Branch, owed : SUBSET (Name \X Branch), landed : BOOLEAN]

TypeOK ==
    /\ source \in [Name -> Place \cup {Outside, Unreadable, Unlisted}]
    /\ git \subseteq {Derived[b] : b \in Branch}
    /\ records \in [Branch -> Name \cup {NoId, Missing}]
    /\ pc \in [Process -> Step] /\ my \in [Process -> Mine]
    /\ calm \in [Process -> BOOLEAN]
    /\ steady \in [Process -> SUBSET Listed]
    /\ half \subseteq Name \X Branch /\ crossed \subseteq Name

\* A branch has no record, a record and its clone, or a workspace there too;
\* the workspaces of the older scheme are wherever devpod's records say.
Init ==
    /\ \E old \in [Old -> Strewn \cup {Outside, Unreadable, Unlisted}],
          known \in SUBSET Branch : \E open \in SUBSET known :
          /\ git = {Derived[b] : b \in known}
          /\ source = [w \in Name |->
                IF w \in Old THEN old[w]
                ELSE IF \E b \in open : Derived[b] = w THEN <<w>> ELSE Unlisted]
          /\ records = [b \in Branch |-> IF b \in open THEN Derived[b]
                                         ELSE IF b \in known THEN NoId ELSE Missing]
    /\ pc = [p \in Process |-> "idle"]
    /\ half = {} /\ crossed = {}
    /\ my = [p \in Process |-> Untold]
    /\ calm = [p \in Process |-> TRUE] /\ steady = [p \in Process |-> {}]
    /\ commands = 0 /\ crashes = 0

Goto(p, step) == pc' = [pc EXCEPT ![p] = step]
Done(p) == Goto(p, "idle") /\ my' = [my EXCEPT ![p] = Untold]

\* What a step of p that changes the world leaves of the others' histories.
Disturb(p) ==
    /\ calm' = [q \in Process |-> calm[q] /\ q = p]
    /\ steady' = [q \in Process |-> {w \in steady[q] : source'[w] = source[w]}]

\* The command opens dl's records first; migration has brought them up to date.
Begin(p) ==
    /\ pc[p] = "idle" /\ commands < MaxCommands
    /\ \/ \E verb \in Verbs \cap {"reconcile", "prune"} :
             /\ my' = [my EXCEPT ![p] = Told(verb, Someone, Something, records, half)]
             /\ Goto(p, "list")
       \/ \E b \in Branch :
             /\ "launch" \in Verbs /\ Goto(p, "ask")
             /\ my' = [my EXCEPT ![p].branch = b]
       \/ \E w \in Listed :
             /\ "rm" \in Verbs /\ Goto(p, "delete")
             /\ my' = [my EXCEPT ![p].ws = w]
    /\ calm' = [calm EXCEPT ![p] = TRUE]
    /\ commands' = commands + 1
    /\ UNCHANGED <<world, steady, half, crossed, crashes>>

List(p) ==
    /\ pc[p] = "list"
    /\ my' = [my EXCEPT ![p].seen = source]
    /\ Goto(p, "plan")
    /\ UNCHANGED <<world, history, counts>>

\* --reconcile: stopped by a workspace that cannot be placed, and not asked
\* when there is nothing to adopt.
PlanAdoptions(p) ==
    /\ pc[p] = "plan" /\ my[p].verb = "reconcile"
    /\ LET pairs == Adoptable(my[p].seen, git, my[p].recs) IN
          IF pairs = {} \/ Unlocatable(my[p].seen)
          THEN Done(p)
          ELSE my' = [my EXCEPT ![p].adopting = pairs] /\ Goto(p, "answer")
    /\ UNCHANGED <<world, history, counts>>

\* --prune: what is in a clone may speak against it too.
PlanRemovals(p) ==
    /\ pc[p] = "plan" /\ my[p].verb = "prune"
    /\ IF Unlocatable(my[p].seen)
       THEN Done(p)
       ELSE /\ \E dirs \in SUBSET {d \in git : Collectable(my[p].seen, git, my[p].recs, d)} :
                  my' = [my EXCEPT ![p].going = dirs]
            /\ Goto(p, "answer")
    /\ UNCHANGED <<world, history, counts>>

Answer(p) ==
    /\ pc[p] = "answer"
    /\ \/ Done(p)
       \/ Goto(p, IF my[p].verb = "prune" THEN "relist" ELSE "repoint") /\ UNCHANGED my
    /\ UNCHANGED <<world, history, counts>>

-----------------------------------------------------------------------------
(***************************************************************************)
(* apply_reconciliation: devpod's record and then dl's own, for one        *)
(* adoption after the other.                                               *)
(***************************************************************************)
\* Mutant: dl's own record is written before devpod's, and stays if that is refused.
RepointLast(p) ==
    /\ pc[p] = "repoint"
    /\ \E pair \in my[p].adopting :
          /\ records' = [records EXCEPT ![pair[2]] = IF @ = Missing THEN @ ELSE pair[1]]
          /\ source' \in {source, [source EXCEPT ![pair[1]] =
                                     IF @ = Unlisted THEN @ ELSE <<Derived[pair[2]]>>]}
          /\ my' = [my EXCEPT ![p].adopting = @ \ {pair}]
          /\ Disturb(p)
    /\ UNCHANGED <<git, pc, half, crossed, counts>>

\* The record is rewritten where it is; one that is not there is refused.
Repoint(p) ==
    /\ pc[p] = "repoint"
    /\ \E pair \in my[p].adopting :
          \/ /\ pair[1] \in Listed
             /\ source' = [source EXCEPT ![pair[1]] = <<Derived[pair[2]]>>]
             /\ my' = [my EXCEPT ![p].adopting = @ \ {pair}, ![p].ws = pair[1],
                                 ![p].branch = pair[2]]
             /\ Goto(p, "record")
             /\ Disturb(p)
             /\ crossed' = IF source[pair[1]] \in {my[p].seen[pair[1]], <<Derived[pair[2]]>>}
                           THEN crossed ELSE crossed \cup {pair[1]}
          \/ /\ my' = [my EXCEPT ![p].adopting = @ \ {pair}, ![p].landed = FALSE]
             /\ UNCHANGED <<source, pc, calm, steady, crossed>>
    /\ UNCHANGED <<git, records, half, counts>>

\* update_worktree, in the record the lock reloaded: Applied, Absent, or refused.
Record(p) ==
    LET leaf == my[p].branch IN
    /\ pc[p] = "record"
    /\ UNCHANGED source
    /\ \/ /\ records[leaf] # Missing
          /\ records' = [records EXCEPT ![leaf] = my[p].ws]
          /\ Disturb(p)
          /\ UNCHANGED my
       \/ /\ my' = [my EXCEPT ![p].landed = FALSE]
          /\ UNCHANGED <<records, calm, steady>>
    /\ Goto(p, "repoint")
    /\ UNCHANGED <<git, half, crossed, counts>>

Finish(p) ==
    /\ pc[p] = "repoint" /\ my[p].adopting = {}
    /\ Done(p)
    /\ UNCHANGED <<world, calm, steady, half, crossed, counts>>

-----------------------------------------------------------------------------
(***************************************************************************)
(* prune_clones: a second listing, a second look under the repo lock at    *)
(* each clone of the plan, its removal, and then the records.              *)
(***************************************************************************)
Relist(p) ==
    /\ pc[p] = "relist"
    /\ IF Unlocatable(source)
       THEN Done(p)
       ELSE my' = [my EXCEPT ![p].seen = source, ![p].dirs = git] /\ Goto(p, "weigh")
    /\ steady' = [steady EXCEPT ![p] = Listed]
    /\ UNCHANGED <<world, calm, half, crossed, counts>>

Weigh(p) ==
    /\ pc[p] = "weigh"
    /\ \E dir \in my[p].going :
          \/ /\ Collectable(my[p].seen, my[p].dirs, my[p].recs, dir)
             /\ git' = git \ {dir}
             /\ my' = [my EXCEPT ![p].going = @ \ {dir},
                    ![p].gone = @ \cup {b \in Branch : Derived[b] = dir /\ my[p].recs[b] # Missing}]
             /\ UNCHANGED <<source, records>>
             /\ Disturb(p)
          \/ /\ my' = [my EXCEPT ![p].going = @ \ {dir}]
             /\ UNCHANGED <<world, calm, steady>>
    /\ UNCHANGED <<pc, half, crossed, counts>>

Forget(p) ==
    /\ pc[p] = "weigh" /\ my[p].going = {}
    /\ records' = [b \in Branch |-> IF b \in my[p].gone THEN Missing ELSE records[b]]
    /\ UNCHANGED <<source, git>>
    /\ Done(p)
    /\ Disturb(p)
    /\ UNCHANGED <<half, crossed, counts>>

-----------------------------------------------------------------------------
\* resolve_known_workspace: the derived id, then the recorded one, and a cold
\* launch when devpod has neither.
Address(b) ==
    IF Derived[b] \in Listed THEN Derived[b]
    ELSE IF records[b] \in Listed THEN records[b] ELSE Missing

Ask(p) ==
    /\ pc[p] = "ask"
    /\ IF Address(my[p].branch) = Missing
       THEN Goto(p, "prepare") /\ UNCHANGED my
       ELSE Done(p)
    /\ UNCHANGED <<world, history, counts>>

Prepare(p) ==
    LET leaf == my[p].branch IN
    /\ pc[p] = "prepare"
    /\ git' = git \cup {Derived[leaf]}
    /\ records' = [records EXCEPT ![leaf] = Derived[leaf]]
    /\ UNCHANGED source
    /\ Goto(p, "up")
    /\ Disturb(p)
    /\ UNCHANGED <<my, half, crossed, counts>>

Up(p) ==
    LET w == Derived[my[p].branch] IN
    /\ pc[p] = "up"
    /\ source' = [source EXCEPT ![w] = IF @ = Unlisted THEN <<w>> ELSE @]
    /\ UNCHANGED <<git, records>>
    /\ Done(p)
    /\ Disturb(p)
    /\ UNCHANGED <<half, crossed, counts>>

\* rm: devpod's workspace, and then the clone of the record with that id, which
\* goes with its record when it was there.
Delete(p) ==
    /\ pc[p] = "delete" /\ my[p].ws \in Listed
    /\ source' = [source EXCEPT ![my[p].ws] = Unlisted]
    /\ UNCHANGED <<git, records>>
    /\ Goto(p, "remove")
    /\ Disturb(p)
    /\ UNCHANGED <<my, half, crossed, counts>>

Remove(p) ==
    /\ pc[p] = "remove"
    /\ LET theirs == {b \in Branch : Derived[b] = my[p].ws /\ records[b] # Missing
                                                          /\ Derived[b] \in git} IN
          /\ git' = git \ {Derived[b] : b \in theirs}
          /\ records' = [b \in Branch |-> IF b \in theirs THEN Missing ELSE records[b]]
    /\ UNCHANGED source
    /\ Done(p)
    /\ Disturb(p)
    /\ UNCHANGED <<half, crossed, counts>>

Crash(p) ==
    /\ pc[p] # "idle" /\ crashes < MaxCrashes /\ commands < MaxCommands
    /\ Done(p)
    /\ half' = IF pc[p] = "record" THEN half \cup {<<my[p].ws, my[p].branch>>} ELSE half
    /\ crashes' = crashes + 1 /\ commands' = commands + 1
    /\ UNCHANGED <<world, calm, steady, crossed>>

Goes(p) ==
    \/ List(p) \/ PlanAdoptions(p) \/ PlanRemovals(p) \/ Answer(p)
    \/ Repoint(p) \/ Record(p) \/ Finish(p)
    \/ Relist(p) \/ Weigh(p) \/ Forget(p)
    \/ Ask(p) \/ Prepare(p) \/ Up(p) \/ Delete(p) \/ Remove(p)

Next == \E p \in Process : Begin(p) \/ Goes(p) \/ Crash(p)
Spec == Init /\ [][Next]_vars

-----------------------------------------------------------------------------
Repoints(p) == pc[p] = "repoint" /\ pc'[p] = "record"
Ends(p) == pc[p] \in {"plan", "repoint"} /\ pc'[p] = "idle" /\ crashes' = crashes

\* An id dl has written down leads to the branch's own clone, whichever of the
\* two writes of an adoption a run stopped at or was refused, and whatever other
\* commands did meanwhile: never to a workspace still sourced at a dead path,
\* the fault --reconcile is there to clear (apply_reconciliation). Nor to another
\* branch's clone, unless a second run, which had listed before, has re-pointed what
\* the first had: devpod's record is rewritten without another look at it.
IdsLeadHome ==
    \A b \in Branch :
        records[b] \in Listed \ crossed => source[records[b]] = <<Derived[b]>>

\* With nobody else at work since it began, an adoption gives a workspace a clone
\* that no other opens, at it or under it; several orphans and several clones may
\* answer to one another (reconcile_plan).
AdoptsTheFree ==
    \A p \in Process : Repoints(p) /\ calm[p] =>
        ~\E w \in Listed \ {my'[p].ws} :
            InTree(source[w]) /\ source[w][1] = Derived[my'[p].branch]

\* A prune removes no clone that a workspace listed ever since it listed again
\* opens, at it or under it, or may have meant, sourced as it was at no clone of
\* the repository, whatever clones come and go meanwhile; but one a reconcile has
\* re-pointed since may lose the clone it was given.
ListedKeepTheirClones ==
    \A p \in Process : my'[p].going # my[p].going /\ pc[p] = "weigh" =>
        \A dir \in git \ git', w \in steady[p] :
            InTree(source[w]) => source[w][1] \in (git \cup my[p].dirs) \ {dir}

\* reconcile.rs: what a run that stopped between the two writes left, the next
\* run repairs.
NextRunRepairs ==
    [][\A p \in Process : Ends(p) /\ my[p].verb = "reconcile" /\ calm[p] /\ my[p].landed =>
          \A pair \in my[p].owed :
              source[pair[1]] = <<Derived[pair[2]]>> => records[pair[2]] # NoId]_vars
=============================================================================
