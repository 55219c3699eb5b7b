\* The same two processes, where every rename and copy aside is granted: two loads that
\* take no lock, one of which is overtaken by the other's mutation.
SPECIFICATION Spec
CONSTANTS
    r = r
    x = x
    y = y
    Process = {p1, p2}
    NoProcess = NoProcess
    Repo = {r}
    Branch = {x, y}
    FirstDocs <- MCFirstDocs
    MaxDamage = 1
    PreserveFails = FALSE
CONSTRAINT OneBranchOnceDamaged
PROPERTY LossyPreservedFirst
CHECK_DEADLOCK TRUE
