SPECIFICATION Spec
CONSTANTS
    r1 = r1
    r2 = r2
    p1 = p1
    k1 = k1
    scan = scan
    All = All
    Callers = {r1, r2, scan}
    Plugins = {p1}
    WithTTL = {p1}
    MaxLines = 2
    Collectors = {k1}
SYMMETRY Symmetry
INVARIANTS
    RunningIsAccurate
    BatchesInOrder
    OwnRunNotStale
CHECK_DEADLOCK FALSE
