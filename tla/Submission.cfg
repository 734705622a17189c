SPECIFICATION FairSpec
CONSTANTS
    p1 = p1
    p2 = p2
    Posts = {p1, p2}
    Scenes <- MCScenes
    RetryMax = 1
    MaxBreaks = 1
INVARIANTS
    CountedOnceInOrder
PROPERTIES
    KeepsLedger
    Drains
    CancelEndsSubmitter
CHECK_DEADLOCK FALSE
