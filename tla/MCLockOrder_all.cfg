\* Two processes, any commands of one repository and its two workspaces.
CONSTANTS
    p1 = p1  p2 = p2   r1 = r1  w1 = w1  w2 = w2
    Process <- Two
    Repo <- OneRepo
    Workspace <- Workspaces
    Jobs <- Everything
    Nobody = Nobody  Orphan = Orphan  Foreign = Foreign
    MaxRuns = 1  MaxWrites = 1  MaxForeign = 1  MaxCrashes = 1
SPECIFICATION FairSpec
INVARIANTS NoCircularWait BuildsHoldUpOnlyTheirOwn
PROPERTIES EveryCommandEnds
CHECK_DEADLOCK FALSE
