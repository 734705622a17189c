SPECIFICATION FairSpec
CONSTANTS
    r1 = r1
    r2 = r2
    p1 = p1
    k1 = k1
    scan = scan
    All = All
    Callers = {r1, scan}
    Plugins = {p1}
    WithTTL = {p1}
    MaxLines = 2
    Collectors = {k1}
INVARIANTS
    TypeOK
PROPERTIES
    WaitsOnlyForItsOwn
    CancelEndsRuns
CHECK_DEADLOCK FALSE
