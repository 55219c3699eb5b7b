\* A rebuild whose up is refused after the old container is gone.
SPECIFICATION MCSpec
CONSTANTS
    Process = {p1, p2}
    Nobody = Nobody
    Orphan = Orphan
    Foreign = Foreign
    Verbs = {"attach", "rebuild"}
    MaxLaunches = 2
    MaxForeign = 0
    MaxCrashes = 0
    TripsFail = FALSE
    LockFails = FALSE
INVARIANTS TrustedHasTools
CHECK_DEADLOCK FALSE
