\* Sweeps, removals, prunes and adoptions beside launches, crashes and strangers; names
\* whose ids collide.
SPECIFICATION Spec
CONSTANTS
    Pids = {p1, p2}
    Own = own
    SweepFor = "kill"
    MaxMoves = 3
    MaxFaults = 1
    History = {first, mine}
    Anc <- Ancestry
    Object = {oFirst, oMine}
    Tagging <- Made
    Branch = {main}
    Side = {stash}
    Tag = {tag}
    MaxTouches = 4
    Homes = {w1, w2}
    Sources = {f1, f2}
    Racers = {p1, p2}
    SoloVerbs = {"up", "rm", "force", "kill", "prune"}
    RaceVerbs = {"up", "rm", "force", "kill", "prune", "purge"}
    MaxOrders = 3
    MaxKilled = 1
    MaxStrangers = 2
    MaxShifts = 1
    Spots = {out, in}
    Nesting <- TwoDeep
    Listings = {rOut, rIn}
    Where <- EachOwn
    Insistence = {TRUE, FALSE}
    MaxEdits = 1
    MaxSnags = 1
    Leaves = {ha, hb, raw, flat, sub, o1}
    Topics = {topicA, topicB}
    Hashed <- TwoHashes
    Spellings <- LeafNames
    Ancient = {o1}
    Strewn <- LeafOrUnder
    CloneVerbs = {"reconcile", "launch", "prune", "rm"}
    MaxRuns = 3
    MaxDeaths = 1
    Triples = {topicA, topicB, topicC}
    Ids = {ha, hb, o1}
    Repos = {w1, w2}
    RepoOf <- TwoRepos
    IdOf <- CollidingIds
    Older = {topicA, topicB, topicC}
    FormerIdOf <- FormerIds
    NameVerbs = {"launch", "kill", "prune"}
    MaxNamings = 3
    solo = solo  p1 = p1  p2 = p2
    w1 = w1  w2 = w2  f1 = f1  f2 = f2
    nobody = nobody
    out = out  in = in  rOut = rOut  rIn = rIn
    topicA = topicA  topicB = topicB  topicC = topicC
    ha = ha  hb = hb  raw = raw  flat = flat  sub = sub  o1 = o1
    Outside = Outside  Unreadable = Unreadable  Unlisted = Unlisted
    NoId = NoId  Missing = Missing
    first = first  mine = mine  oFirst = oFirst  oMine = oMine
SYMMETRY Symmetry
INVARIANTS UnsavedSafe
PROPERTIES KillSafe VolumesSafe WorktreesSafe ReconcileSafe
CHECK_DEADLOCK FALSE
