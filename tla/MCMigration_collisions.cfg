\* Colliding ids, a squatting branch name and an illegal ref.
SPECIFICATION FairSpec
CONSTANTS
    a = a
    b = b
    main = main
    squat = squat
    bad = bad
    plain = plain
    NoRecord = NoRecord
    Stray = Stray
    NoPath = NoPath
    Record = {a, b, main, squat, bad, plain}
    Path <- MCPath
    Old <- MCOld
    Derived <- MCDerived
    Rank <- MCRank
    MaxRefusals = 2
    MaxCrashes = 2
INVARIANTS NoSharedClone MigratedIsHome
PROPERTIES NoCloneLost Completes
\* A migrated cache has nothing left to migrate.
CHECK_DEADLOCK FALSE
