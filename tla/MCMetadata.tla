----------------------------- MODULE MCMetadata -----------------------------
(***************************************************************************)
(* Two dl processes, one repository with two branches, starting from no    *)
(* file or from one an older devlaunch wrote.                              *)
(***************************************************************************)
EXTENDS Metadata, TLC

CONSTANTS r, x, y

MCFirstDocs ==
    {[header |-> "old", repos |-> {r}, listed |-> {<<r, x>>}, trees |-> {<<r, x>>},
      old |-> {<<r, x>>}, noted |-> {}]}

\* Bound: once something else has written the file, its records are of the first
\* branch and none has been updated, and what is asked is of that branch too.
OneBranchOnceDamaged ==
    harm.times > 0 =>
        /\ <<r, y>> \notin file.doc.trees /\ file.doc.noted = {}
        /\ \A p \in Process :
              op[p].kind \in {"add_worktree", "update_worktree", "remove_worktree"}
                  => op[p].key # <<r, y>>

Symmetry == Permutations(Process)
=============================================================================
