SPECIFICATION Spec
CONSTANTS
    p1 = p1
    p2 = p2
    Procs = {p1, p2}
    Daemons = {d1, d2}
    Version <- MCVersion
INVARIANT
    MutualExclusion
CHECK_DEADLOCK FALSE
