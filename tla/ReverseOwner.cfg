SPECIFICATION Spec
CONSTANTS
    b1 = b1
    b2 = b2
    b3 = b3
    Brokers = {b1, b2, b3}
    MaxChanges = 2
    MaxFaults = 0
    ConfigRetryLimit = 3
    MaxConnRetry = 2
INVARIANTS
    UnknownOwnerRefreshes
