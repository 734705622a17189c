SPECIFICATION Spec
CONSTANTS
    MaxSessions = 2
    MaxAsked = 2
    Units = {"CONNECT"}
    MaxCommTimeouts = 1
    ConfigRetryLimit = 2
    MaxConnRetry <- MCUnlimited
    MaxDelay = 1
    MinDelayStep = 1
    MaxDelayStep = 2
INVARIANTS
    OneLiveSession
    
PROPERTIES
    AnswersAsAsked
