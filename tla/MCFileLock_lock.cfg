SPECIFICATION FairSpec
CONSTANTS
    Process = {p1, p2}
    Inode = {i1, i2, i3}
    NoInode = NoInode
    NoProcess = NoProcess
    Attempts = 2
INVARIANTS Mutex SupersededNeedsUnlinks
PROPERTIES ImplementsLock CallsEnd
CHECK_DEADLOCK TRUE
