\* Two processes, whose loads and mutations overlap as they may, the file written twice
\* by something else, and renames and copies aside that the OS may refuse.
SPECIFICATION Spec
CONSTANTS
    r = r
    x = x
    y = y
    Process = {p1, p2}
    NoProcess = NoProcess
    Repo = {r}
    Branch = {x, y}
    FirstDocs <- MCFirstDocs
    MaxDamage = 2
    PreserveFails = TRUE
SYMMETRY Symmetry
CONSTRAINT OneBranchOnceDamaged
INVARIANTS HeaderNeverLies ListedAreRecorded OriginalsKept
PROPERTIES ImplementsStore UpdatesNeverResurrect
CHECK_DEADLOCK TRUE
