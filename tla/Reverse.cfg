SPECIFICATION FairSpec
CONSTANTS
    b1 = b1
    b2 = b2
    b3 = b3
    Brokers <- MCBrokers
    MaxChanges = 2
    MaxFaults = 2
    ConfigRetryLimit = 3
    MaxConnRetry <- MCUnlimited
INVARIANTS
    TypeOK
    ConnectsToAnOwner
    ConnectionErrorsSurvived
PROPERTIES
    
    CancelEndsStart
