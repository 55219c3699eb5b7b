\* Two launches, one of which may be killed; a release among orphans; prunes that are
\* interrupted twice; a new pane beside two; launches that report
\* from two panes.
SPECIFICATION Spec
CONSTANTS
    p1 = p1  p2 = p2  own = own
    nobody = nobody  orphan = orphan  Foreign = Foreign
    out = out  in = in  rOut = rOut  rIn = rIn
    w1 = w1  w2 = w2  work = work  q1 = q1  q2 = q2  Nothing = Nothing
    Nameless = Nameless  Absent = Absent  Hole = Hole
    MaxReplaced = 0
PROPERTIES LaunchesEnd Converges SessionsEnd
CHECK_DEADLOCK FALSE
