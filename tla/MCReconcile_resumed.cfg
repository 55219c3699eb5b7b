\* A run killed between its two writes, and the run after it.
CONSTANTS
    p1 = p1   a = a  b = b  ha = ha  hb = hb  raw = raw  flat = flat
    o1 = o1
    Process <- One
    Name <- Names
    Branch <- Branches
    Derived <- Hashed
    Spelled <- Leaves
    Old <- OneOld
    Strewn <- Leaf
    Outside = Outside  Unreadable = Unreadable  Unlisted = Unlisted
    NoId = NoId  Missing = Missing
    Verbs <- Alone
    MaxCommands = 3  MaxCrashes = 1
SPECIFICATION Spec
PROPERTIES NextRunRepairs
CHECK_DEADLOCK FALSE
