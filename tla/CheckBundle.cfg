SPECIFICATION FairSpec
CONSTANTS
    a1 = a1
    a2 = a2
    Agents <- MCAgents
    Creating <- MCAgents
    Updating <- MCUpdating
    Users = 2
    MaxBundles = 7
    MaxFaults = 1
    MaxCrashes = 1
    MaxRemovals = 1
INVARIANTS
    TypeOK
    FileNamesBundleInUse
    BundlesHaveCause
PROPERTIES
    ComesUpUnlessStuck
CHECK_DEADLOCK FALSE
