------------------------------ MODULE Worktrees ------------------------------
(***************************************************************************)
(* `dl --prune` and the git worktrees agents leave inside a workspace clone *)
(* (flows/agent_worktrees.rs, derivatives.rs): a plan is printed, somebody  *)
(* says yes, and under the repository's lock everything is weighed again    *)
(* and then acted on, unit by unit, bytes first and names after.            *)
(*                                                                         *)
(* The agents, another repository's git and people are not participants in *)
(* that lock: they act between any two steps.  A run may be interrupted.    *)
(***************************************************************************)
EXTENDS Naturals, FiniteSets

CONSTANTS
    Sites,      \* places `.claude/worktrees/<leaf>[/.claude/worktrees/<leaf>]`
    Inner,      \* the pairs <<outer, inner>> of a place and one nested in it
    Regs,       \* registrations the clone's listing may print
    Place,      \* the place a registration's recorded path names
    Forces,     \* the values `--force-worktrees` may take: a set of BOOLEANs
    MaxMoves,   \* a bound: what the others do
    MaxFaults   \* a bound: refusals of git and of the disk, and interruptions

\* What the constants have to satisfy: the modules that take instances assume it.
PlacesAssumption ==
    /\ Inner \subseteq Sites \X Sites /\ Place \in [Regs -> Sites]
    /\ \A p, q \in Inner : p[2] # q[1]             \* two levels are enough
    /\ \A p, q \in Inner : p[2] = q[2] => p = q   \* a place is in one directory
BoundsAssumption ==
    /\ Forces \subseteq BOOLEAN /\ MaxMoves \in Nat /\ MaxFaults \in Nat

VARIABLES
    at,         \* what is at each place: kind, uncommitted content, a tagged env
    reg,        \* each registration: listed, locked, its commits elsewhere, its admin
    pc,
    plan,       \* the units and the derivatives the person said yes to
    todo,       \* the units of the plan not yet looked at
    fresh,      \* the second weighing
    names,      \* the registrations a removal that completed has to forget
    sinceWeigh, \* places touched by somebody else since the last weighing
    gone,       \* history: what the runs have destroyed, and on what authority
    moves, faults

world == <<at, reg>>
run   == <<pc, plan, todo, fresh, names>>
vars  == <<world, run, sinceWeigh, gone, moves, faults>>

Kinds == {"absent", "link", "plain", "worktree"}
Envs  == {"none", "derivable", "recipeless"}
Empty == [kind |-> "absent", dirty |-> FALSE, env |-> "none"]
Off   == [on |-> FALSE, lock |-> FALSE, elsewhere |-> TRUE, admin |-> TRUE]
NoPlan == [units |-> {}, envs |-> {}]

Here(s)   == at[s].kind # "absent"
Joined(s) == {r \in Regs : reg[r].on /\ Place[r] = s}
Holder(s) == {p[1] : p \in {q \in Inner : q[2] = s}}

Init ==
    /\ at \in [Sites -> {Empty} \cup [kind : {"plain"}, dirty : {TRUE}, env : {"none"}]
                        \cup [kind : {"worktree"}, dirty : BOOLEAN, env : {"none", "derivable"}]]
    /\ reg \in [Regs -> {Off, [Off EXCEPT !.on = TRUE],
                         [Off EXCEPT !.on = TRUE, !.lock = TRUE],
                         [Off EXCEPT !.on = TRUE, !.elsewhere = FALSE]}]
    /\ \A p \in Inner : Here(p[2]) => Here(p[1])
    /\ pc = "idle" /\ plan = NoPlan /\ todo = {} /\ fresh = NoPlan /\ names = {}
    /\ sinceWeigh = {} /\ gone = {} /\ moves = 0 /\ faults = 0

-----------------------------------------------------------------------------
(* The forest and its verdicts.                                            *)

\* forest_of: what the walk finds, and the registrations with nothing at their place.
Nodes   == {s \in Sites : Here(s) \/ Joined(s) # {}}
Tree(s) == {s} \cup {t \in Sites : Here(s) /\ <<s, t>> \in Inner /\ Here(t)}
Outer(s) == {p \in Holder(s) : Here(s)}
Root(s)  == IF Outer(s) = {} THEN {s} ELSE Outer(s)

Ours(s) == Joined(s) # {} /\ at[s].kind # "link"

\* clean: the site's own content, what is nested in it answering for itself.
Dirty(s) == Here(s) /\ at[s].dirty
\* admin_for: no admin directory is left to ask it through.
Unaskable(s) == Here(s) /\ \A r \in Joined(s) : ~reg[r].admin
\* elsewhere: commits neither the cache nor the clone finds anywhere else.
NowhereElse(s) == \E r \in Joined(s) : ~reg[r].elsewhere
\* unclaimed: git's lock is a third party's claim.
Claimed(s) == \E r \in Joined(s) : reg[r].lock

\* own_verdict: every reason one site stands.  `mute` are the sites git would not
\* answer about.
Reasons(s, mute) ==
    IF ~Ours(s) THEN {"notOurs"}
    ELSE {x \in {"dirty", "unaskable", "commits", "claim", "blank"} :
             \/ x = "dirty"     /\ Dirty(s)
             \/ x = "unaskable" /\ Unaskable(s)
             \/ x = "commits"   /\ NowhereElse(s)
             \/ x = "claim"     /\ Claimed(s)
             \/ x = "blank"     /\ s \in mute}

\* Mutant: a site answers for itself alone.
RemovableAlone(s, mute, insisted) == Reasons(s, mute) = {} \/ s \in insisted

\* weigh: a site goes only when it and every site in it do.  Insistence is a root's.
Removable(s, mute, insisted) ==
    \/ \A t \in Tree(s) : Reasons(t, mute) = {}
    \/ Root(s) \cap insisted # {}

\* Mutant: a registration with nothing at its place is not a site.
UnitsHere(mute, insisted) ==
    {[at |-> s, bytes |-> TRUE, forgets |-> UNION {Joined(t) : t \in Tree(s)},
      insisted |-> \E t \in Tree(s) : Reasons(t, mute) # {}, radius |-> Tree(s)] :
     s \in {x \in Sites : /\ Here(x) /\ Removable(x, mute, insisted)
                          /\ \A o \in Outer(x) : ~Removable(o, mute, insisted)}}

\* materialize: the outermost subtrees that go, each with every registration the one
\* removal accounts for; and the names with no bytes.
Units(mute, insisted) ==
    {[at |-> s, bytes |-> Here(s),
      forgets |-> UNION {{r \in Joined(t) : Ours(t)} : t \in Tree(s)},
      insisted |-> \E t \in Tree(s) : Reasons(t, mute) # {}, radius |-> Tree(s)] :
     s \in {x \in Nodes : /\ Removable(x, mute, insisted)
                          /\ \A o \in Outer(x) : ~Removable(o, mute, insisted)}}

\* claims_over: a claim flows down.
Claims(s, mute) == UNION {Reasons(t, mute) \cap {"claim"} : t \in {s} \cup Outer(s)}

\* tagged_in, classify: the derivable environments of the sites that stay.
Derivable(mute, insisted) ==
    {s \in Sites : /\ at[s].kind \in {"plain", "worktree"} /\ at[s].env = "derivable"
                   /\ Claims(s, mute) = {}
                   /\ \A u \in Units(mute, insisted) : s \notin u.radius}

Weighed(mute, insisted) ==
    [units |-> Units(mute, insisted), envs |-> Derivable(mute, insisted)]

-----------------------------------------------------------------------------
(* The others.                                                             *)

Move(s) == /\ moves < MaxMoves /\ moves' = moves + 1
           /\ sinceWeigh' = sinceWeigh \cup {s}
           /\ UNCHANGED <<run, gone, faults>>

Free(s) == ~Here(s) /\ \A h \in Holder(s) : at[h].kind \in {"plain", "worktree"}

AddWorktree(r) ==
    /\ ~reg[r].on /\ Free(Place[r]) /\ Move(Place[r])
    /\ at' = [at EXCEPT ![Place[r]].kind = "worktree"]
    /\ reg' = [reg EXCEPT ![r] = [Off EXCEPT !.on = TRUE]]

\* Another repository's worktree, a directory of somebody's, a link.
PutThere(s, kind) ==
    /\ Free(s) /\ Move(s)
    /\ at' = [at EXCEPT ![s] = [kind |-> kind, dirty |-> kind = "plain", env |-> "none"]]
    /\ UNCHANGED reg

Edit(s) ==
    /\ at[s].kind = "worktree" /\ ~at[s].dirty /\ Move(s)
    /\ at' = [at EXCEPT ![s].dirty = TRUE] /\ UNCHANGED reg

Commit(r) ==
    /\ reg[r].on /\ at[Place[r]].kind = "worktree" /\ Move(Place[r])
    /\ at' = [at EXCEPT ![Place[r]].dirty = FALSE]
    /\ reg' = [reg EXCEPT ![r].elsewhere = FALSE]

Fetch(r) ==
    /\ reg[r].on /\ ~reg[r].elsewhere /\ Move(Place[r])
    /\ reg' = [reg EXCEPT ![r].elsewhere = TRUE] /\ UNCHANGED at

Lock(r) ==
    /\ reg[r].on /\ ~reg[r].lock /\ Move(Place[r])
    /\ reg' = [reg EXCEPT ![r].lock = TRUE] /\ UNCHANGED at

\* git's own gc, which takes the admin directory and then the name.
Gc(r) ==
    /\ reg[r].on /\ ~reg[r].lock /\ Move(Place[r])
    /\ reg' = [reg EXCEPT ![r] = IF reg[r].admin THEN [@ EXCEPT !.admin = FALSE] ELSE Off]
    /\ UNCHANGED at

Change(s) ==
    /\ at[s].kind \in {"plain", "worktree"} /\ Move(s)
    /\ \E e \in Envs \ {at[s].env} : at' = [at EXCEPT ![s].env = e]
    /\ UNCHANGED reg

-----------------------------------------------------------------------------
(* The run.                                                                *)

Fault == faults < MaxFaults /\ faults' = faults + 1

\* What git will not answer about, this once.
Mute == {{}} \cup {{s} : s \in {x \in Sites : faults < MaxFaults}}
Spend(mute) == faults' = IF mute = {} THEN faults ELSE faults + 1

\* sweep_clone: the plan, with --force-worktrees over all of it or none.
Plan ==
    /\ pc = "idle"
    /\ \E force \in Forces, mute \in Mute :
          /\ plan' = Weighed(mute, IF force THEN Sites ELSE {})
          /\ Spend(mute)
    /\ pc' = IF plan' = NoPlan THEN "idle" ELSE "asked"
    /\ sinceWeigh' = {}
    /\ UNCHANGED <<world, todo, fresh, names, gone, moves>>

\* reclaim: the weighing again, each root with the insistence it was planned with.
Confirm ==
    /\ pc = "asked" /\ pc' = "acting"
    /\ \E mute \in Mute :
          /\ fresh' = Weighed(mute, {u.at : u \in {v \in plan.units : v.insisted}})
          /\ Spend(mute)
    /\ todo' = plan.units /\ sinceWeigh' = {}
    /\ UNCHANGED <<world, plan, names, gone, moves>>

\* git will not list a second time: everything is withheld; or the run is cut short.
Abandon ==
    /\ pc # "idle" /\ Fault
    /\ pc' = "idle" /\ plan' = NoPlan /\ todo' = {} /\ fresh' = NoPlan /\ names' = {}
    /\ UNCHANGED <<world, sinceWeigh, gone, moves>>

Same(u, v) == u.at = v.at /\ u.bytes = v.bytes

\* grew_past: the unit is still one, and names nothing the plan did not.
Confirmed(u) == {v \in fresh.units : Same(u, v) /\ v.forgets \subseteq u.forgets}

Withhold(u) ==
    /\ pc = "acting" /\ names = {} /\ u \in todo /\ Confirmed(u) = {}
    /\ todo' = todo \ {u}
    /\ UNCHANGED <<world, pc, plan, fresh, names, sinceWeigh, gone, moves, faults>>

Truth(s) == Reasons(s, {}) # {}
Destroyed(S, u) ==
    {[what |-> IF ~Ours(t) THEN "notOurs" ELSE IF Truth(t) THEN "work" ELSE "clear",
      listed |-> t \in u.radius, late |-> t \in sinceWeigh, how |-> "bytes",
      insisted |-> u.insisted] : t \in S}

Cleared(S) == [s \in Sites |-> IF s \in S THEN Empty ELSE at[s]]

\* act_on, remove_tree_as_far_as_it_goes: everything under the root, as it is now.
RemoveAll(u) ==
    /\ pc = "acting" /\ names = {} /\ u \in todo /\ u.bytes
    /\ at[u.at].kind # "link"
    /\ \E v \in Confirmed(u) :
          /\ names' = v.forgets
          /\ at' = Cleared(Tree(u.at))
          /\ gone' = gone \cup Destroyed({t \in Tree(u.at) : Here(t)}, u)
    /\ todo' = todo \ {u}
    /\ UNCHANGED <<reg, pc, plan, fresh, sinceWeigh, moves, faults>>

\* Something will not come away: what went is gone, the root stays, and what is
\* missing from it reads as changes.  Nothing is forgotten.
RemoveSome(u) ==
    /\ pc = "acting" /\ names = {} /\ u \in todo /\ u.bytes /\ Here(u.at)
    /\ Confirmed(u) # {}
    /\ at[u.at].kind # "link" /\ Fault
    /\ \/ /\ at' = [Cleared(Tree(u.at) \ {u.at}) EXCEPT ![u.at].dirty = TRUE]
          /\ gone' = gone \cup Destroyed({t \in Tree(u.at) : Here(t)}, u)
       \/ UNCHANGED <<at, gone>>
    /\ todo' = todo \ {u}
    /\ UNCHANGED <<reg, pc, plan, fresh, names, sinceWeigh, moves>>

\* The root is a link: it is refused before anything is attempted.
RefuseLink(u) ==
    /\ pc = "acting" /\ names = {} /\ u \in todo /\ u.bytes /\ at[u.at].kind = "link"
    /\ todo' = todo \ {u}
    /\ UNCHANGED <<world, pc, plan, fresh, names, sinceWeigh, gone, moves, faults>>

\* A registration with nothing at its place: the forget is the whole of the work.
ForgetAlone(u) ==
    /\ pc = "acting" /\ names = {} /\ u \in todo /\ ~u.bytes
    /\ \E v \in Confirmed(u) : names' = v.forgets
    /\ todo' = todo \ {u}
    /\ UNCHANGED <<world, pc, plan, fresh, sinceWeigh, gone, moves, faults>>

ByForce(r) == \E u \in fresh.units : r \in u.forgets /\ u.insisted

\* forget: git worktree remove, by the name a listing printed; git refuses a lock
\* unless told twice, and may refuse for reasons of its own.
Forget(r) ==
    /\ r \in names /\ names' = names \ {r}
    /\ \/ /\ reg[r].on /\ (~reg[r].lock \/ ByForce(r))
          /\ reg' = [reg EXCEPT ![r] = Off]
          /\ gone' = gone \cup
                {[what |-> IF reg[r].lock \/ ~reg[r].elsewhere THEN "work" ELSE "clear",
                  listed |-> \E u \in plan.units : r \in u.forgets,
                  late |-> Place[r] \in sinceWeigh, how |-> "name", insisted |-> ByForce(r)]}
          /\ UNCHANGED faults
       \/ ~reg[r].on /\ UNCHANGED <<reg, gone, faults>>
       \/ reg[r].lock /\ ~ByForce(r) /\ UNCHANGED <<reg, gone, faults>>
       \/ Fault /\ UNCHANGED <<reg, gone>>
    /\ UNCHANGED <<at, pc, plan, todo, fresh, sinceWeigh, moves>>

\* reclaim_derivatives: what the plan named and the second reading names too.
Reclaim ==
    /\ pc = "acting" /\ todo = {} /\ names = {}
    /\ LET going == {s \in plan.envs \cap fresh.envs : at[s].kind \in {"plain", "worktree"}}
       IN  /\ at' = [s \in Sites |-> IF s \in going THEN [at[s] EXCEPT !.env = "none"] ELSE at[s]]
           /\ gone' = gone \cup {[what |-> IF at[s].env # "derivable" THEN "work"
                                           ELSE IF Claims(s, {}) # {} THEN "notOurs" ELSE "clear",
                                  listed |-> s \in plan.envs, late |-> ({s} \cup Outer(s)) \cap sinceWeigh # {},
                                  how |-> "env", insisted |-> FALSE] : s \in going}
    /\ pc' = "idle" /\ plan' = NoPlan /\ fresh' = NoPlan
    /\ UNCHANGED <<reg, todo, names, sinceWeigh, moves, faults>>

Act(u) == Withhold(u) \/ RemoveAll(u) \/ RefuseLink(u) \/ ForgetAlone(u)

Others == \/ \E r \in Regs : AddWorktree(r) \/ Commit(r) \/ Fetch(r) \/ Lock(r) \/ Gc(r)
          \/ \E s \in Sites : Edit(s) \/ Change(s)
                              \/ \E k \in {"plain", "worktree", "link"} : PutThere(s, k)

Go == Plan \/ Confirm \/ Reclaim \/ (\E u \in todo : Act(u)) \/ (\E r \in names : Forget(r))

Next == Others \/ Go \/ Abandon \/ \E u \in todo : RemoveSome(u)

\* Somebody goes on running `dl --prune` and saying yes.
Spec == Init /\ [][Next]_vars /\ WF_vars(Go)

-----------------------------------------------------------------------------
(* Properties.                                                             *)

Unit == [at : Sites, bytes : BOOLEAN, forgets : SUBSET Regs, insisted : BOOLEAN,
         radius : SUBSET Sites]
TypeOK ==
    /\ at \in [Sites -> [kind : Kinds, dirty : BOOLEAN, env : Envs]]
    /\ reg \in [Regs -> [on : BOOLEAN, lock : BOOLEAN, elsewhere : BOOLEAN, admin : BOOLEAN]]
    /\ pc \in {"idle", "asked", "acting"}
    /\ \A p \in {plan, fresh} : p.envs \subseteq Sites /\ \A u \in p.units : u \in Unit
    /\ todo \subseteq plan.units /\ names \subseteq Regs /\ sinceWeigh \subseteq Sites
    /\ \A u, v \in fresh.units : u # v => u.radius \cap v.radius = {}
    /\ moves \in 0..MaxMoves /\ faults \in 0..MaxFaults

\* Without --force-worktrees nothing goes that holds something: no uncommitted content,
\* no commit that is nowhere else, no locked worktree, none of another repository, in
\* the root of a removal or anywhere in it, unless somebody came after the second
\* weighing (weigh, reclaim).
NoWorkLost == \A g \in gone : g.how # "env" /\ ~g.insisted => g.what = "clear" \/ g.late

\* "The approved set can therefore shrink between the report and the act and can never
\* grow, over the bytes as well as over the list" (reclaim), as far as it does: whatever goes that the plan did not name was not the clone's
\* to account for and stood inside a root somebody insisted on; no registration and no
\* worktree of the clone's goes unnamed (grew_past).
GrowsByStrangersOnly ==
    \A g \in gone : g.listed \/ g.late \/ (g.insisted /\ g.what = "notOurs")

\* The directory goes first: a registration is dropped when nothing is at its place, so
\* git is never asked to remove a tree (act_on).
NamesAfterBytes ==
    \A r \in names \ names' :
        reg[r].on /\ ~reg'[r].on => ~Here(Place[r]) \/ Place[r] \in sinceWeigh

\* A tagged environment is reclaimed where both readings could re-derive it and nobody
\* claims the place (reclaim_derivatives, claims_over).
EnvsAreDerivable == \A g \in gone : g.how = "env" => g.what = "clear" \/ g.late

\* Every interruption leaves something the next run reads right: once the others are
\* still, what can be proved safe to go is gone, bytes and names (SiteKind::OursGone).
Collectable(s) == s \in Nodes /\ \A t \in Tree(s) : Reasons(t, {}) = {}
AllCollected == \A s \in Sites : ~Collectable(s)
=============================================================================
