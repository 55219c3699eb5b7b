---------------------------- MODULE MCMigration ----------------------------
(***************************************************************************)
(* A cache with the layouts the migration's tests name: `a` and `b` derive *)
(* one id; `squat` is a branch named after the id `main` derives; `bad`    *)
(* derives none; `plain` is in nobody's way, but for a clone nobody        *)
(* recorded: any path no record names may hold one.                        *)
(***************************************************************************)
EXTENDS Migration, TLC

CONSTANTS a, b, main, squat, bad, plain

MCPath == {"oldA", "oldB", "oldMain", "oldBad", "oldPlain", "newAB", "newMain",
           "newSquat", "newPlain"}
MCOld == a :> "oldA" @@ b :> "oldB" @@ main :> "oldMain" @@ squat :> "newMain"
         @@ bad :> "oldBad" @@ plain :> "oldPlain"
MCDerived == a :> "newAB" @@ b :> "newAB" @@ main :> "newMain"
             @@ squat :> "newSquat" @@ bad :> NoPath @@ plain :> "newPlain"
MCRank == a :> 1 @@ plain :> 2 @@ main :> 3 @@ b :> 4 @@ squat :> 5 @@ bad :> 6
=============================================================================
