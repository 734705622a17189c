SPECIFICATION FairSpec
CONSTANTS
    MaxSessions = 1
    MaxAsked = 1
    Units <- MCUnits
    MaxCommTimeouts = 1
    ConfigRetryLimit = 3
    MaxConnRetry = 2
    MaxDelay = 2
    MinDelayStep = 1
    MaxDelayStep = 3
INVARIANTS
    TypeOK
    
PROPERTIES
    LivesAsPromised
    CancelStopsAll
    SilenceEndsSession
