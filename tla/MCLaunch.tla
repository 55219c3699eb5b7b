------------------------------ MODULE MCLaunch ------------------------------
(***************************************************************************)
(* A small instance of Launch: every verb by one dl at a time, and two     *)
(* that overlap.                                                           *)
(***************************************************************************)
EXTENDS Launch, TLC

VARIABLES
    overlap,  \* history: what of two launches has been under way at once
    slipped   \* history: a pass about to close has had done to it what it cannot help

AllVerbs == Verb
Symmetry == Permutations(Process)

Active  == {p \in Process : pc[p] # "idle"}
Passing == {p \in Process : pc[p] \in {"begin", "probe", "note", "lend", "close"}}

Alone(S) == \A p, q \in S : p = q
Overlaps(before) ==
    IF before = "passes" \/ ~Alone(Passing') THEN "passes"
    ELSE IF before = "launches" \/ ~Alone(Active') THEN "launches" ELSE "nothing"

\* The container was started by somebody without the launch lock, or a trip into it
\* while it ran brought nothing.
Unheld   == container # "Running" /\ container' = "Running" /\ devpod' # lock
LostTrip ==
    /\ container = "Running" /\ ~tools'
    /\ \E p \in Process : pc[p] = "lend" /\ pc'[p] = "close"
Slips(before) ==
    (\E p \in Process : pc'[p] = "close") /\ (before \/ Unheld \/ LostTrip)

MCVars == <<vars, overlap, slipped>>
MCInit == Init /\ overlap = "nothing" /\ slipped = FALSE
MCNext == Next /\ overlap' = Overlaps(overlap) /\ slipped' = Slips(slipped)
MCSpec == MCInit /\ [][MCNext]_MCVars

\* Bound: three launches, two of them cut short, while they come one at a time;
\* two, of a plain attach or a rebuild, and one cut, where they overlap.
AloneOrPair ==
    overlap # "nothing" =>
        /\ launches <= 2 /\ crashes <= 1
        /\ \A p \in Active : my[p].verb \in {"attach", "rebuild"} /\ ~my[p].more

\* While no two passes overlap, a pass over the container standing now has its record
\* until it gets through, whatever `up` ran under it: a pass closes the one record
\* there is, whichever pass wrote it (end_pass).
CutShortIsFound == overlap = "passes" \/ CutShortIsRecorded

\* A launch about to let go of the launch lock, after a pass over the container
\* standing now, leaves it with its tools in: whether the launch ran the `up` itself or
\* a sibling it waited for did, and whichever of them was killed, unless the last trip of
\* a pass was lost or an `up` without the lock started what a pass had found stopped.
\* What up_under_stage holds the lock across the pass for.
PassBringsTools == slipped \/ ToolsLand
=============================================================================
