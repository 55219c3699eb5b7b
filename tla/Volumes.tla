------------------------------- MODULE Volumes -------------------------------
(***************************************************************************)
(* The docker volumes of a workspace and what names them: devpod's create  *)
(* result while it has the workspace, and the copy dl keeps of it          *)
(* (flows/kept_copies.rs) once it has not.  The commands that write, read  *)
(* and drop those names run side by side and hold no lock of dl's in       *)
(* common: a launch keeps a copy after its `up`, `rm` and `kill` sweep     *)
(* after their delete (lifecycle/delete.rs), `--prune` sweeps what no      *)
(* workspace devpod lists answers for (lifecycle/prune_plan.rs,            *)
(* prune_run.rs), and `--purge` deletes dl's workspaces and then the cache *)
(* the copies are in (lifecycle/purge.rs).                                 *)
(*                                                                         *)
(* devpod and docker are external.  Two volumes are named from what devpod *)
(* substituted: one from the folder's name, one from the container's id.   *)
(* The clone, its record and the guard against unsaved work are RepoCache. *)
(***************************************************************************)
EXTENDS Naturals

CONSTANTS
    Process,       \* the dl processes
    Workspace,     \* the workspaces
    Folder,        \* the directories one may be sourced at
    Nobody,        \* the holder of a devpod flock that is free
    Verbs,         \* the commands run
    MaxCommands,   \* commands begun in all
    MaxCrashes,    \* commands killed
    MaxStrangers,  \* steps of others: devpod and docker run by hand
    MaxMoves       \* workspaces given another source

Verb == {"up", "rm", "force", "kill", "prune", "purge"}

\* What the constants have to satisfy: the modules that take instances assume it.
NobodyAssumption == Nobody \notin Process
WorkspaceAssumption == Workspace # {}
VerbsAssumption  == Verbs \subseteq Verb
BoundsAssumption ==
    /\ MaxCommands \in Nat /\ MaxCrashes \in Nat
    /\ MaxStrangers \in Nat /\ MaxMoves \in Nat

VARIABLES
    folder,     \* what each workspace is sourced at
    listed,     \* the workspaces devpod has
    result,     \* the names in each one's create result, none without one
    container,  \* the volumes each one's container holds
    flock,      \* who has a devpod running on each
    volumes,    \* the volumes on this machine
    copy,       \* the names in each workspace's kept copy, none without one
    pc, my,     \* the step each process is at, and what it carries
    kept,       \* history: volumes a copy has named since they were made
    steady,     \* history: listed ever since a process began, or was told yes
    commands, crashes, strangers, moves

devpod == <<folder, listed, result, container, flock>>
counts == <<commands, crashes, strangers, moves>>
vars   == <<devpod, volumes, copy, pc, my, kept, steady, counts>>

Volume   == ({"pixi"} \X Folder) \cup ({"dind"} \X Workspace)
Names(w) == {<<"pixi", folder[w]>>, <<"dind", w>>}

Step == {"idle", "up", "create", "complete", "keep", "name", "delete", "sweep",
         "forget", "plan", "answer", "relist", "next", "mine", "empty"}
Mine == [verb : Verb, ws : Workspace, named : SUBSET Volume,
         plan : [Workspace -> SUBSET Volume], left : SUBSET Workspace]

Told(verb, w) == [verb |-> verb, ws |-> w, named |-> {},
                  plan |-> [x \in Workspace |-> {}], left |-> {}]

TypeOK ==
    /\ folder \in [Workspace -> Folder]
    /\ listed \subseteq Workspace
    /\ result \in [Workspace -> SUBSET Volume]
    /\ container \in [Workspace -> SUBSET Volume]
    /\ flock \in [Workspace -> Process \cup {Nobody}]
    /\ volumes \subseteq Volume
    /\ copy \in [Workspace -> SUBSET Volume]
    /\ pc \in [Process -> Step] /\ my \in [Process -> Mine]
    /\ kept \subseteq volumes
    /\ steady \in [Process -> SUBSET listed]
    /\ \A w \in Workspace : w \notin listed => result[w] = {}

Init ==
    /\ \E f \in Folder : folder = [w \in Workspace |-> f]
    /\ listed = {} /\ volumes = {} /\ kept = {}
    /\ result    = [w \in Workspace |-> {}]
    /\ container = [w \in Workspace |-> {}]
    /\ flock     = [w \in Workspace |-> Nobody]
    /\ copy      = [w \in Workspace |-> {}]
    /\ pc = [p \in Process |-> "idle"]
    /\ my \in [Process -> {Told("up", CHOOSE w \in Workspace : TRUE)}]
    /\ steady = [p \in Process |-> {}]
    /\ commands = 0 /\ crashes = 0 /\ strangers = 0 /\ moves = 0

Goto(p, step) == pc' = [pc EXCEPT ![p] = step]
\* What stays listed stays in every history of it.
Listed(now) ==
    /\ listed' = now
    /\ steady' = [p \in Process |-> steady[p] \cap now]

Begin(p) ==
    /\ pc[p] = "idle" /\ commands < MaxCommands
    /\ \E verb \in Verbs, w \in Workspace :
          /\ my' = [my EXCEPT ![p] = Told(verb, w)]
          /\ Goto(p, CASE verb = "up" -> "up" [] verb = "prune" -> "plan"
                       [] verb = "purge" -> "mine" [] OTHER -> "name")
    /\ steady' = [steady EXCEPT ![p] = listed]
    /\ commands' = commands + 1
    /\ UNCHANGED <<devpod, volumes, copy, kept, crashes, strangers, moves>>

-----------------------------------------------------------------------------
(***************************************************************************)
(* A launch's `devpod up`.  devpod has the workspace before it has the     *)
(* container, makes the volumes with the container, and writes the result  *)
(* last; it may fail before either.  Then dl reads the result and keeps a  *)
(* copy, silently not when it cannot.                                      *)
(***************************************************************************)
Up(p) ==
    LET w == my[p].ws IN
    /\ pc[p] = "up" /\ flock[w] = Nobody
    /\ Listed(listed \cup {w})
    /\ flock' = [flock EXCEPT ![w] = p]
    /\ Goto(p, "create")
    /\ UNCHANGED <<folder, result, container, volumes, copy, my, kept, counts>>

Create(p) ==
    LET w == my[p].ws IN
    /\ pc[p] = "create"
    /\ container' = [container EXCEPT ![w] = Names(w)]
    /\ volumes'   = volumes \cup Names(w)
    /\ Goto(p, "complete")
    /\ UNCHANGED <<folder, listed, result, flock, copy, my, kept, steady, counts>>

UpFails(p) ==
    /\ pc[p] \in {"create", "complete"}
    /\ flock' = [flock EXCEPT ![my[p].ws] = Nobody]
    /\ Goto(p, "idle")
    /\ UNCHANGED <<folder, listed, result, container, volumes, copy, my, kept,
                   steady, counts>>

Complete(p) ==
    LET w == my[p].ws IN
    /\ pc[p] = "complete"
    /\ result' = [result EXCEPT ![w] = Names(w)]
    /\ flock'  = [flock EXCEPT ![w] = Nobody]
    /\ Goto(p, "keep")
    /\ UNCHANGED <<folder, listed, container, volumes, copy, my, kept, steady, counts>>

Keep(p) ==
    LET w == my[p].ws IN
    /\ pc[p] = "keep"
    /\ \/ /\ result[w] # {}
          /\ copy' = [copy EXCEPT ![w] = result[w]]
          /\ kept' = kept \cup (result[w] \cap volumes)
       \/ UNCHANGED <<copy, kept>>
    /\ Goto(p, "idle")
    /\ UNCHANGED <<devpod, volumes, my, steady, counts>>

-----------------------------------------------------------------------------
(***************************************************************************)
(* The delete, of `rm`, `rm --force`, `kill` and, one workspace after the  *)
(* other, `--purge`.  The volumes are named before it.                     *)
(***************************************************************************)
Name(p) ==
    /\ pc[p] = "name"
    /\ my' = [my EXCEPT ![p].named = result[my[p].ws]]
    /\ Goto(p, "delete")
    /\ UNCHANGED <<devpod, volumes, copy, kept, steady, counts>>

After(p) == IF my[p].verb \in {"prune", "purge"} THEN "next" ELSE "idle"

\* devpod lets go, or refuses with the container perhaps already down; a
\* workspace it has not is a refusal unless the removal insists.  The limit
\* of a kill may strike before or after devpod has let go.
Delete(p) ==
    LET w == my[p].ws IN
    /\ pc[p] = "delete" /\ flock[w] = Nobody
    /\ \/ /\ w \in listed \/ my[p].verb \in {"force", "kill"}
          /\ Listed(listed \ {w})
          /\ result'    = [result EXCEPT ![w] = {}]
          /\ container' = [container EXCEPT ![w] = {}]
          /\ \/ Goto(p, "sweep")
             \/ my[p].verb = "kill" /\ Goto(p, "idle")
       \/ /\ container' \in {container, [container EXCEPT ![w] = {}]}
          /\ Goto(p, After(p))
          /\ UNCHANGED <<listed, result, steady>>
    /\ UNCHANGED <<folder, flock, volumes, copy, my, kept, counts>>

\* Mutant: the copy dropped whatever docker answered.
SweepForgetting(p) ==
    /\ pc[p] = "sweep"
    /\ \E went \in SUBSET ((my[p].named \cap volumes) \
                              UNION {container[w] : w \in Workspace}) :
          /\ volumes' = volumes \ went
          /\ kept'    = kept \ went
    /\ Goto(p, "forget")
    /\ UNCHANGED <<devpod, copy, my, steady, counts>>

\* `docker volume rm --force`: a volume that is not there counts as removed,
\* one a container holds is refused.  Only a removal that got them all drops
\* the copy, and purge, which takes the copies itself, drops none.
Sweep(p) ==
    LET named == my[p].named
        inUse == UNION {container[w] : w \in Workspace}
    IN
    /\ pc[p] = "sweep"
    /\ \E went \in SUBSET ((named \cap volumes) \ inUse) :
          /\ volumes' = volumes \ went
          /\ kept'    = kept \ went
    /\ Goto(p, IF named # {} /\ named \cap volumes' = {} /\ my[p].verb # "purge"
               THEN "forget" ELSE After(p))
    /\ UNCHANGED <<devpod, copy, my, steady, counts>>

Forget(p) ==
    /\ pc[p] = "forget"
    /\ copy' = [copy EXCEPT ![my[p].ws] = {}]
    /\ Goto(p, After(p))
    /\ UNCHANGED <<devpod, volumes, my, kept, steady, counts>>

-----------------------------------------------------------------------------
(***************************************************************************)
(* Prune: the copies of workspaces no listing names, the user's answer, a  *)
(* second listing, and for each that is still not in it a sweep.           *)
(***************************************************************************)
Plan(p) ==
    /\ pc[p] = "plan"
    /\ my' = [my EXCEPT ![p].plan = [w \in Workspace |->
                                        IF w \in listed THEN {} ELSE copy[w]]]
    /\ Goto(p, "answer")
    /\ UNCHANGED <<devpod, volumes, copy, kept, steady, counts>>

Answer(p) ==
    /\ pc[p] = "answer"
    /\ \E step \in {"idle", "relist"} : Goto(p, step)
    /\ steady' = [steady EXCEPT ![p] = listed]
    /\ UNCHANGED <<devpod, volumes, copy, my, kept, counts>>

Relist(p) ==
    /\ pc[p] = "relist"
    /\ my' = [my EXCEPT ![p].left = {w \in Workspace \ listed : my[p].plan[w] # {}}]
    /\ Goto(p, "next")
    /\ UNCHANGED <<devpod, volumes, copy, kept, steady, counts>>

\* Purge takes every workspace of its plan, listed or not by then.
Ours(p) ==
    /\ pc[p] = "mine"
    /\ my' = [my EXCEPT ![p].left = listed]
    /\ Goto(p, "next")
    /\ UNCHANGED <<devpod, volumes, copy, kept, steady, counts>>

NextOne(p) ==
    /\ pc[p] = "next"
    /\ \E w \in my[p].left :
          IF my[p].verb = "prune"
          THEN /\ my' = [my EXCEPT ![p].ws = w, ![p].named = my[p].plan[w],
                                           ![p].left = @ \ {w}]
               /\ Goto(p, "sweep")
          ELSE /\ my' = [my EXCEPT ![p].ws = w, ![p].left = @ \ {w}]
               /\ Goto(p, "name")
    /\ UNCHANGED <<devpod, volumes, copy, kept, steady, counts>>

Last(p) ==
    /\ pc[p] = "next" /\ my[p].left = {}
    /\ Goto(p, IF my[p].verb = "purge" THEN "empty" ELSE "idle")
    /\ UNCHANGED <<devpod, volumes, copy, my, kept, steady, counts>>

\* The cache goes as far as it will, and the copies in it; kept is about
\* copies, so what purge takes with it is no longer owed a name.
Empty(p) ==
    /\ pc[p] = "empty"
    /\ \E stays \in SUBSET Workspace :
          /\ copy' = [w \in Workspace |-> IF w \in stays THEN copy[w] ELSE {}]
          /\ kept' = kept \cap UNION {copy[w] : w \in stays}
    /\ Goto(p, "idle")
    /\ UNCHANGED <<devpod, volumes, my, steady, counts>>

-----------------------------------------------------------------------------
(***************************************************************************)
(* Everybody else: a bare `devpod delete` or `devpod up`, a container      *)
(* removed by hand, and a workspace given another source (--reconcile, or  *)
(* a directory renamed).                                                   *)
(***************************************************************************)
Stranger ==
    /\ strangers < MaxStrangers
    /\ strangers' = strangers + 1
    /\ UNCHANGED <<folder, flock, copy, pc, my, kept, commands, crashes, moves>>

BareDelete(w) ==
    /\ Stranger /\ flock[w] = Nobody /\ w \in listed
    /\ Listed(listed \ {w})
    /\ result'    = [result EXCEPT ![w] = {}]
    /\ container' = [container EXCEPT ![w] = {}]
    /\ UNCHANGED volumes

BareUp(w) ==
    /\ Stranger /\ flock[w] = Nobody
    /\ Listed(listed \cup {w})
    /\ result'    = [result EXCEPT ![w] = Names(w)]
    /\ container' = [container EXCEPT ![w] = Names(w)]
    /\ volumes'   = volumes \cup Names(w)

DropContainer(w) ==
    /\ Stranger /\ flock[w] = Nobody /\ container[w] # {}
    /\ container' = [container EXCEPT ![w] = {}]
    /\ UNCHANGED <<listed, result, volumes, steady>>

Move(w) ==
    /\ moves < MaxMoves /\ flock[w] = Nobody
    /\ \E f \in Folder \ {folder[w]} : folder' = [folder EXCEPT ![w] = f]
    /\ moves' = moves + 1
    /\ UNCHANGED <<listed, result, container, flock, volumes, copy, pc, my, kept,
                   steady, commands, crashes, strangers>>

Crash(p) ==
    /\ pc[p] # "idle" /\ crashes < MaxCrashes
    /\ flock' = [w \in Workspace |-> IF flock[w] = p THEN Nobody ELSE flock[w]]
    /\ Goto(p, "idle")
    /\ crashes' = crashes + 1
    /\ UNCHANGED <<folder, listed, result, container, volumes, copy, my, kept,
                   steady, commands, strangers, moves>>

-----------------------------------------------------------------------------
Goes(p) ==
    \/ Up(p) \/ Create(p) \/ UpFails(p) \/ Complete(p) \/ Keep(p)
    \/ Name(p) \/ Delete(p) \/ Sweep(p) \/ Forget(p)
    \/ Plan(p) \/ Answer(p) \/ Relist(p) \/ Ours(p) \/ NextOne(p) \/ Last(p) \/ Empty(p)

Next ==
    \/ \E p \in Process : Begin(p) \/ Goes(p) \/ Crash(p)
    \/ \E w \in Workspace :
          BareDelete(w) \/ BareUp(w) \/ DropContainer(w) \/ Move(w)

Spec == Init /\ [][Next]_vars

-----------------------------------------------------------------------------
\* What some document, or a removal under way, still says of a volume.
Named(v) ==
    \/ \E w \in Workspace : v \in result[w] \cup copy[w]
    \/ \E p \in Process : pc[p] \in {"delete", "sweep"} /\ v \in my[p].named

\* A volume a copy has once named is named for as long as it stands, whoever
\* deletes the workspace and whichever step dl dies at or docker refuses: the
\* leftovers of a workspace devpod has forgotten stay reclaimable by reading
\* (kept_copies.rs).
StaysNamed == \A v \in kept : Named(v)

\* A removal takes no volume of a workspace devpod has listed ever since the
\* command began, or, in a prune, since the user said yes: the sweep follows
\* a delete that succeeded, and prune asks again before it acts.
SweptAfterLetGo ==
    \A p \in Process, w \in Workspace :
        pc[p] = "sweep" /\ pc'[p] # "sweep" /\ w \in steady[p]
            => result[w] \cap volumes \subseteq volumes'
=============================================================================
