SPECIFICATION FairSpec
CONSTANTS
    Listeners = 3
    Sockets = {2, 3}
    Tasks = {"statsd", "reverse"}
    MaxRequests = 2
    MaxRuns = 2
INVARIANTS
    TypeOK
    SocketFiles
    DrainsAllButLast
PROPERTIES
    EndsAsAWhole
CHECK_DEADLOCK FALSE
