\* Calls by every method; one signal at any step; updaters that race and that fail; a
\* new pane beside three; launches that report, alone in a pane and in two panes.
SPECIFICATION Spec
CONSTANTS
    Methods = {"capture", "passthrough", "session", "watched"}
    Capacity = 1
    MaxLines = 2
    FileSlots = 2
    Threads = TRUE
    Verbs = {"launch", "rme"}
    Workspaces = {"w"}
    Slots = {s1, s2}
    TTL = 1
    MaxRuns = 2
    MaxFaults = 0
    Scripts = {"reads", "picks", "changes", "throwaway", "refreshes", "purges"}
    Sibling = {q1, q2, q3}
    Tab = {q1, q2}
    Workspace = {w1, w2}
    Profile = {work}
    Nothing = Nothing
    Within = 3
    Grace = 1
    MaxChanges = 1
    Lone = p1
    Panes = {p1, p2}
    Versions = 2
    Size <- TwoSizes
    Logins = {work}
    Nameless = Nameless
    Absent = Absent
    Hole = Hole
    MaxLaunches = 3
    MaxBeside = 2
    MaxCuts = 1
    MaxReplaced = 2
    MaxSwaps = 0
INVARIANTS RunnerSafe InterruptSafe RefreshSafe PaneSafe
PROPERTIES ReportingSafe CallsReturn CacheCatchesUp
CHECK_DEADLOCK FALSE
