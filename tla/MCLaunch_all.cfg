\* Every verb one at a time, and attaches and rebuilds two at a time, with a foreign
\* up, crashes, trips that fail and a lock that may not open.
SPECIFICATION MCSpec
CONSTANTS
    Process = {p1, p2}
    Nobody = Nobody
    Orphan = Orphan
    Foreign = Foreign
    Verbs <- AllVerbs
    MaxLaunches = 3
    MaxForeign = 1
    MaxCrashes = 2
    TripsFail = TRUE
    LockFails = TRUE
SYMMETRY Symmetry
CONSTRAINT AloneOrPair
INVARIANTS TrustIsEarned AttachedIsCompleted CutShortIsFound PassBringsTools
CHECK_DEADLOCK FALSE
