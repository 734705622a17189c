SPECIFICATION FairSpec
CONSTANTS
    r1 = r1
    r2 = r2
    Requests = {r1, r2}
    Enabled <- MCEnabled
INVARIANTS
    TypeOK
    Precedence
    NeverStale
    RunningIsTrue
PROPERTIES
    TTLKeepsMetrics
    Recovers
CHECK_DEADLOCK FALSE
