\* Every command one at a time, and launches, ensure_repo, the sweep and --prune two
\* at a time, with a push and a crash.
SPECIFICATION MCSpec
CONSTANTS
    main = main
    topic = topic
    Process = {p1, p2}
    Nobody = Nobody
    Branch = {main, topic}
    Ws = {main, topic}
    Default = main
    Base = main
    Verbs = {"launch", "from", "ensure", "sweep", "prune", "rm", "kill"}
    Lfs = TRUE
    MaxPushes = 1
    MaxCommands = 4
    MaxCrashes = 1
SYMMETRY Symmetry
CONSTRAINT AloneOrPair
INVARIANTS HandedOver PushedTip
PROPERTIES CacheStands OldWorkKept NothingStranded
CHECK_DEADLOCK FALSE
