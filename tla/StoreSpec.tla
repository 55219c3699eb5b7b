------------------------------ MODULE StoreSpec ------------------------------
(***************************************************************************)
(* What metadata.json promises its users while nobody damages it: every    *)
(* change it ever shows is one operation on one record, applied to         *)
(* everything written before.  Nothing else about the records moves, and   *)
(* the schema header moves only with the last record the migration owes.   *)
(***************************************************************************)
CONSTANTS Repo, Branch

VARIABLE store

Tree == Repo \X Branch

\* Everything the store says about the keys in K.
About(s, K) == <<s.repos \cap K, s.listed \cap K, s.trees \cap K, s.old \cap K,
                 s.noted \cap K>>

Keys == Repo \cup Tree

\* A repository's record is added or moved, with its branch list.
ChangeRepo(r) ==
    /\ About(store', Keys \ ({r} \cup {t \in Tree : t[1] = r}))
          = About(store, Keys \ ({r} \cup {t \in Tree : t[1] = r}))
    /\ store'.trees = store.trees /\ store'.old = store.old
    /\ store'.noted \ {r} = store.noted \ {r}
    /\ store'.header = store.header

\* A worktree's record is added, moved or removed, with its place in the list.
ChangeTree(t) ==
    /\ About(store', Keys \ {t}) = About(store, Keys \ {t})
    /\ store'.header = store.header

\* The migration repoints records, and promotes the header once none is left.
Migrate ==
    /\ store.header = "old"
    /\ store'.old \subseteq store.old
    /\ store'.header = "current" => store'.old = {}
    /\ store'.repos = store.repos /\ store'.listed = store.listed
    /\ store'.trees = store.trees /\ store'.noted = store.noted

\* Something that is not dl has written over the records: nothing is promised
\* from here on.
Ruin == store'.header = "ruined"

Next == (\E r \in Repo : ChangeRepo(r)) \/ (\E t \in Tree : ChangeTree(t))
        \/ Migrate \/ Ruin

Spec == [][Next]_store
=============================================================================
