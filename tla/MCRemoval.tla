------------------------------ MODULE MCRemoval -------------------------------
(***************************************************************************)
(* What takes things away, beside whoever still needs them: the sweep of   *)
(* `kill` (Kill), the volumes of removed workspaces (Volumes: one dl at a  *)
(* time with crashes, and two that race), the agent worktrees (Worktrees), *)
(* reconcile and prune over the clones (Reconcile), the guard that         *)
(* looks for the only copy of somebody's work (Unsaved), and the ids that  *)
(* names lead to (Addressing). Each behaviour is of one of the machines;   *)
(* the variables of the others stand parked. The constants of the machines *)
(* are this module's; the .cfg gives them their values.                    *)
(***************************************************************************)
EXTENDS TLC

CONSTANTS
    Pids, Own, SweepFor, MaxMoves, MaxFaults,                        \* Kill
    History, Anc, Object, Tagging, Branch, Side, Tag, MaxTouches,    \* Unsaved
    Homes, Sources, Racers, SoloVerbs, RaceVerbs,                    \* Volumes
    MaxOrders, MaxKilled, MaxStrangers, MaxShifts,                   \* Volumes
    Spots, Nesting, Listings, Where, Insistence, MaxEdits, MaxSnags, \* Worktrees
    Leaves, Topics, Hashed, Spellings, Ancient, Strewn, CloneVerbs,  \* Reconcile
    MaxRuns, MaxDeaths,                                              \* Reconcile
    Triples, Ids, Repos, RepoOf, IdOf, Older, FormerIdOf,            \* Addressing
    NameVerbs, MaxNamings                                            \* Addressing
CONSTANTS
    solo, p1, p2, w1, w2, f1, f2, nobody, out, in, rOut, rIn, topicA, topicB,
    topicC, ha, hb, raw, flat, sub, o1, Outside, Unreadable, Unlisted,
    NoId, Missing, first, mine, oFirst, oMine

VARIABLES
    part,    \* the machine this behaviour is of
    proc, flock, busy, container, deleted, pc, reading, remaining, endings,
    since, struck, moves, faults, folder, listed, result, volumes, copy, my,
    kept, steady, commands, crashes, strangers, at, reg, plan, todo, fresh,
    names, sinceWeigh, gone, source, git, records, calm, half, made,
    published, forge, bare, clone, pristine, strayed, standing, tenants,
    lapsed, met, crossed

\* A worktree with another in it, and a registration of each.
TwoDeep == {<<out, in>>}
EachOwn == (rOut :> out) @@ (rIn :> in)

\* A history of two commits, and an object for each.
Ancestry == first :> {first} @@ mine :> {first, mine}
Made     == oFirst :> first @@ oMine :> mine

\* Two branches and two directories of another scheme; flattened, the name of one
\* branch is the other's.
TwoHashes   == topicA :> ha @@ topicB :> hb
LeafNames   == topicA :> {ha, raw, flat} @@ topicB :> {hb, flat}
LeafOrUnder == {<<flat>>, <<ha, sub>>}

\* Two triples of one repository whose ids collide, and a third of another repository; an
\* older devlaunch gave the second what the third derives now, and the third what those
\* two do.
TwoRepos     == topicA :> w1 @@ topicB :> w1 @@ topicC :> w2
CollidingIds == topicA :> ha @@ topicB :> ha @@ topicC :> hb
FormerIds    == topicA :> o1 @@ topicB :> hb @@ topicC :> ha

Ki == INSTANCE Kill WITH
    Verb <- SweepFor
Vn == INSTANCE Volumes WITH
    Process <- {solo},
    Workspace <- Homes,
    Folder <- {f1},
    Nobody <- nobody,
    Verbs <- SoloVerbs,
    MaxCommands <- MaxOrders,
    MaxCrashes <- MaxKilled,
    MaxMoves <- 0
Vr == INSTANCE Volumes WITH
    Process <- Racers,
    Workspace <- {w1},
    Folder <- Sources,
    Nobody <- nobody,
    Verbs <- RaceVerbs,
    MaxCommands <- MaxOrders,
    MaxCrashes <- 0,
    MaxMoves <- MaxShifts
Wt == INSTANCE Worktrees WITH
    Sites <- Spots,
    Inner <- Nesting,
    Regs <- Listings,
    Place <- Where,
    Forces <- Insistence,
    MaxMoves <- MaxEdits,
    MaxFaults <- MaxSnags
Rc == INSTANCE Reconcile WITH
    Process <- Racers,
    Name <- Leaves,
    Branch <- Topics,
    Derived <- Hashed,
    Spelled <- Spellings,
    Old <- Ancient,
    Strewn <- Strewn,
    Outside <- Outside,
    Unreadable <- Unreadable,
    Unlisted <- Unlisted,
    NoId <- NoId,
    Missing <- Missing,
    Verbs <- CloneVerbs,
    MaxCommands <- MaxRuns,
    MaxCrashes <- MaxDeaths
Un == INSTANCE Unsaved WITH
    Commit <- History,
    Of <- Tagging,
    MaxMoves <- MaxTouches
Na == INSTANCE Addressing WITH
    Process <- Racers,
    Triple <- Triples,
    Id <- Ids,
    Repo <- Repos,
    RepoOf <- RepoOf,
    Derived <- IdOf,
    Old <- Older,
    Former <- FormerIdOf,
    None <- Missing,
    Verbs <- NameVerbs,
    MaxCommands <- MaxNamings

ASSUME KiVerbAssumption == Ki!VerbAssumption
ASSUME KiBoundsAssumption == Ki!BoundsAssumption
ASSUME KiNobodyAssumption == Ki!NobodyAssumption
ASSUME VnNobodyAssumption == Vn!NobodyAssumption
ASSUME VnWorkspaceAssumption == Vn!WorkspaceAssumption
ASSUME VnVerbsAssumption == Vn!VerbsAssumption
ASSUME VnBoundsAssumption == Vn!BoundsAssumption
ASSUME VrNobodyAssumption == Vr!NobodyAssumption
ASSUME VrWorkspaceAssumption == Vr!WorkspaceAssumption
ASSUME VrVerbsAssumption == Vr!VerbsAssumption
ASSUME VrBoundsAssumption == Vr!BoundsAssumption
ASSUME WtPlacesAssumption == Wt!PlacesAssumption
ASSUME WtBoundsAssumption == Wt!BoundsAssumption
ASSUME RcNamesAssumption == Rc!NamesAssumption
ASSUME RcPlacesAssumption == Rc!PlacesAssumption
ASSUME RcBoundsAssumption == Rc!BoundsAssumption
ASSUME UnHistoryAssumption == Un!HistoryAssumption
ASSUME UnTagsAssumption == Un!TagsAssumption
ASSUME UnNamesAssumption == Un!NamesAssumption
ASSUME UnBoundsAssumption == Un!BoundsAssumption
ASSUME NaNamesAssumption == Na!NamesAssumption
ASSUME NaBoundAssumption == Na!BoundAssumption

ofKill ==
    <<proc, busy, deleted, reading, remaining, endings, since, struck>>
ofKillVolumes ==
    <<flock, container>>
ofKillVolumesWorktreesReconcileUnsavedAddressing ==
    <<pc>>
ofKillVolumesWorktreesUnsaved ==
    <<moves>>
ofKillWorktreesUnsaved ==
    <<faults>>
ofVolumes ==
    <<folder, listed, result, volumes, copy, kept, strangers>>
ofVolumesReconcileUnsavedAddressing ==
    <<my>>
ofVolumesReconcile ==
    <<steady, crashes>>
ofVolumesReconcileAddressing ==
    <<commands>>
ofWorktrees ==
    <<at, reg, plan, todo, fresh, names, sinceWeigh, gone>>
ofReconcile ==
    <<source, git, half, crossed>>
ofReconcileAddressing ==
    <<records>>
ofReconcileUnsaved ==
    <<calm>>
ofUnsaved ==
    <<made, published, forge, bare, pristine, strayed>>
ofUnsavedAddressing ==
    <<clone>>
ofAddressing ==
    <<standing, tenants, lapsed, met>>
vars == <<part, ofKill, ofKillVolumes,
          ofKillVolumesWorktreesReconcileUnsavedAddressing,
          ofKillVolumesWorktreesUnsaved, ofKillWorktreesUnsaved,
          ofVolumes, ofVolumesReconcileUnsavedAddressing,
          ofVolumesReconcile, ofVolumesReconcileAddressing, ofWorktrees,
          ofReconcile, ofReconcileAddressing, ofReconcileUnsaved,
          ofUnsaved, ofUnsavedAddressing, ofAddressing>>

\* The variables of the machines a behaviour is not of.
Parked == "parked"
ParkKill ==
    /\ proc = Parked /\ busy = Parked /\ deleted = Parked /\ reading = Parked
    /\ remaining = Parked /\ endings = Parked /\ since = Parked
    /\ struck = Parked
ParkKillVolumes ==
    /\ flock = Parked /\ container = Parked
ParkKillVolumesWorktreesUnsaved ==
    /\ moves = Parked
ParkKillWorktreesUnsaved ==
    /\ faults = Parked
ParkVolumes ==
    /\ folder = Parked /\ listed = Parked /\ result = Parked
    /\ volumes = Parked /\ copy = Parked /\ kept = Parked
    /\ strangers = Parked
ParkVolumesReconcileUnsavedAddressing ==
    /\ my = Parked
ParkVolumesReconcile ==
    /\ steady = Parked /\ crashes = Parked
ParkVolumesReconcileAddressing ==
    /\ commands = Parked
ParkWorktrees ==
    /\ at = Parked /\ reg = Parked /\ plan = Parked /\ todo = Parked
    /\ fresh = Parked /\ names = Parked /\ sinceWeigh = Parked
    /\ gone = Parked
ParkReconcile ==
    /\ source = Parked /\ git = Parked /\ half = Parked
    /\ crossed = Parked
ParkReconcileAddressing ==
    /\ records = Parked
ParkReconcileUnsaved ==
    /\ calm = Parked
ParkUnsaved ==
    /\ made = Parked /\ published = Parked /\ forge = Parked /\ bare = Parked
    /\ pristine = Parked /\ strayed = Parked
ParkUnsavedAddressing ==
    /\ clone = Parked
ParkAddressing ==
    /\ standing = Parked /\ tenants = Parked /\ lapsed = Parked
    /\ met = Parked

InitKi ==
    /\ part = "kill" /\ Ki!Init
    /\ ParkVolumes /\ ParkVolumesReconcileUnsavedAddressing
    /\ ParkVolumesReconcile /\ ParkVolumesReconcileAddressing
    /\ ParkWorktrees /\ ParkReconcile /\ ParkReconcileAddressing
    /\ ParkReconcileUnsaved /\ ParkUnsaved /\ ParkUnsavedAddressing
    /\ ParkAddressing

InitVn ==
    /\ part = "names" /\ Vn!Init
    /\ ParkKill /\ ParkKillWorktreesUnsaved /\ ParkWorktrees /\ ParkReconcile
    /\ ParkReconcileAddressing /\ ParkReconcileUnsaved /\ ParkUnsaved
    /\ ParkUnsavedAddressing /\ ParkAddressing

InitVr ==
    /\ part = "races" /\ Vr!Init
    /\ ParkKill /\ ParkKillWorktreesUnsaved /\ ParkWorktrees /\ ParkReconcile
    /\ ParkReconcileAddressing /\ ParkReconcileUnsaved /\ ParkUnsaved
    /\ ParkUnsavedAddressing /\ ParkAddressing

InitWt ==
    /\ part = "worktrees" /\ Wt!Init
    /\ ParkKill /\ ParkKillVolumes /\ ParkVolumes
    /\ ParkVolumesReconcileUnsavedAddressing /\ ParkVolumesReconcile
    /\ ParkVolumesReconcileAddressing /\ ParkReconcile
    /\ ParkReconcileAddressing /\ ParkReconcileUnsaved /\ ParkUnsaved
    /\ ParkUnsavedAddressing /\ ParkAddressing

InitRc ==
    /\ part = "clones" /\ Rc!Init
    /\ ParkKill /\ ParkKillVolumes /\ ParkKillVolumesWorktreesUnsaved
    /\ ParkKillWorktreesUnsaved /\ ParkVolumes /\ ParkWorktrees
    /\ ParkUnsaved /\ ParkUnsavedAddressing /\ ParkAddressing

InitUn ==
    /\ part = "unsaved" /\ Un!Init
    /\ ParkKill /\ ParkKillVolumes /\ ParkVolumes /\ ParkVolumesReconcile
    /\ ParkVolumesReconcileAddressing /\ ParkWorktrees /\ ParkReconcile
    /\ ParkReconcileAddressing /\ ParkAddressing

InitNa ==
    /\ part = "addresses" /\ Na!Init
    /\ ParkKill /\ ParkKillVolumes /\ ParkKillVolumesWorktreesUnsaved
    /\ ParkKillWorktreesUnsaved /\ ParkVolumes /\ ParkVolumesReconcile
    /\ ParkWorktrees /\ ParkReconcile /\ ParkReconcileUnsaved /\ ParkUnsaved

StepKi ==
    /\ part = "kill" /\ Ki!Next
    /\ UNCHANGED <<part, ofVolumes, ofVolumesReconcileUnsavedAddressing,
                   ofVolumesReconcile, ofVolumesReconcileAddressing,
                   ofWorktrees, ofReconcile, ofReconcileAddressing,
                   ofReconcileUnsaved, ofUnsaved, ofUnsavedAddressing,
                   ofAddressing>>
StepVn ==
    /\ part = "names" /\ Vn!Next
    /\ UNCHANGED <<part, ofKill, ofKillWorktreesUnsaved, ofWorktrees,
                   ofReconcile, ofReconcileAddressing, ofReconcileUnsaved,
                   ofUnsaved, ofUnsavedAddressing, ofAddressing>>
StepVr ==
    /\ part = "races" /\ Vr!Next
    /\ UNCHANGED <<part, ofKill, ofKillWorktreesUnsaved, ofWorktrees,
                   ofReconcile, ofReconcileAddressing, ofReconcileUnsaved,
                   ofUnsaved, ofUnsavedAddressing, ofAddressing>>
StepWt ==
    /\ part = "worktrees" /\ Wt!Next
    /\ UNCHANGED <<part, ofKill, ofKillVolumes, ofVolumes,
                   ofVolumesReconcileUnsavedAddressing,
                   ofVolumesReconcile, ofVolumesReconcileAddressing,
                   ofReconcile, ofReconcileAddressing, ofReconcileUnsaved,
                   ofUnsaved, ofUnsavedAddressing, ofAddressing>>
StepRc ==
    /\ part = "clones" /\ Rc!Next
    /\ UNCHANGED <<part, ofKill, ofKillVolumes,
                   ofKillVolumesWorktreesUnsaved, ofKillWorktreesUnsaved,
                   ofVolumes, ofWorktrees, ofUnsaved, ofUnsavedAddressing,
                   ofAddressing>>
StepUn ==
    /\ part = "unsaved" /\ Un!Next
    /\ UNCHANGED <<part, ofKill, ofKillVolumes, ofVolumes,
                   ofVolumesReconcile, ofVolumesReconcileAddressing,
                   ofWorktrees, ofReconcile, ofReconcileAddressing,
                   ofAddressing>>
StepNa ==
    /\ part = "addresses" /\ Na!Next
    /\ UNCHANGED <<part, ofKill, ofKillVolumes,
                   ofKillVolumesWorktreesUnsaved, ofKillWorktreesUnsaved,
                   ofVolumes, ofVolumesReconcile, ofWorktrees,
                   ofReconcile, ofReconcileUnsaved, ofUnsaved>>

Init == InitKi \/ InitVn \/ InitVr \/ InitWt \/ InitRc \/ InitUn \/ InitNa
Next == StepKi \/ StepVn \/ StepVr \/ StepWt \/ StepRc \/ StepUn \/ StepNa

Spec ==
    /\ Init /\ [][Next]_vars

-----------------------------------------------------------------------------
\* A sweep strikes nothing that somebody is behind, kills only what it asked first,
\* reports truly, and leaves marker, container and workspace to whatever the last
\* reading found alive (sweep_holders, still_there, Freed, sweep_marker,
\* kill_containers, blocks_a_delete).
KillSafe ==
    [][part = "kill" => Ki!KillSafe]_vars

\* A volume a copy has once named stays named for as long as it stands, and no
\* removal takes a volume of a workspace devpod has listed all along
\* (kept_copies.rs, sweep_volumes, prune's second listing).
VolumesSafe ==
    [][/\ part = "names" => Vn!TypeOK /\ Vn!StaysNamed
       /\ part = "races" => Vr!SweptAfterLetGo]_vars

\* Without --force-worktrees nothing goes that holds work, with it nothing the plan
\* did not name but a stranger's, an environment only where it can be re-derived, and
\* a registration only after its bytes, unless somebody came after the second
\* weighing (weigh, reclaim, act_on, reclaim_derivatives).
WorktreesSafe ==
    [][part = "worktrees" =>
          /\ Wt!TypeOK /\ Wt!NoWorkLost /\ Wt!GrowsByStrangersOnly
          /\ Wt!EnvsAreDerivable /\ Wt!NamesAfterBytes]_vars

\* An id dl has written down leads to its branch's own clone but where two reconciles
\* overlapped, an adoption gives a workspace a clone no other opens, and a prune removes
\* no clone that a workspace listed all along opens or may have meant
\* (apply_reconciliation, reconcile_plan, prune_clones).  Triples whose ids collide, now
\* or with a former one, are kept apart: a workspace stands with a record that names it,
\* no launch comes into another triple's that was not launched beside it, and none makes
\* a second workspace for a triple that has one (colliding_record,
\* resolve_known_workspace, remove_clone).
ReconcileSafe ==
    [][/\ part = "clones" =>
              /\ Rc!TypeOK /\ Rc!IdsLeadHome
              /\ Rc!AdoptsTheFree /\ Rc!ListedKeepTheirClones
       /\ part = "addresses" => Na!NamesSafe']_vars

\* A removal that was not insisted on takes no work that exists nowhere else, by
\* whatever ref it hangs, a tag taken for the remote's among them; nobody's untouched
\* clone stops it but for its tags; and what it says is owed to tags is (read_clone,
\* unsaved, local_tags, guard_removal).
UnsavedSafe == part = "unsaved" => Un!UnsavedSafe

Symmetry == Permutations(Racers)
=============================================================================
