----------------------------- MODULE MCRepoCache ----------------------------
(***************************************************************************)
(* A small instance of RepoCache: one repository with a default branch and *)
(* one other, every command by one dl at a time, and two that overlap.     *)
(***************************************************************************)
EXTENDS RepoCache, TLC

CONSTANTS main, topic

VARIABLE overlapped   \* history: two commands have been under way at once

Symmetry == Permutations(Process)

Active == {p \in Process : pc[p] # "idle"}

MCInit == Init /\ overlapped = FALSE
Alone  == \A p, q \in Active : p = q
MCNext == Next /\ overlapped' = (overlapped \/ ~Alone')
MCSpec == MCInit /\ [][MCNext]_<<vars, overlapped>>

\* Bound: four commands of two workspaces one at a time; three that overlap, of
\* one workspace and a push, none of them a removal, which takes no lock.
AloneOrPair ==
    IF overlapped
    THEN /\ commands <= 3 /\ tree[main].at = "none"
         /\ \A p \in Active : /\ my[p].verb \notin {"from", "rm", "kill"}
                              /\ my[p].verb = "launch" => my[p].ws = topic
    ELSE commands >= 3 => commits = 1

\* While commands come one at a time: no listed workspace without its clone, and
\* no record dropped of a clone that is there.
NothingStranded ==
    [][overlapped' \/ (ListedHasClone' /\ DropsTheDead)]_<<vars, overlapped>>
=============================================================================
