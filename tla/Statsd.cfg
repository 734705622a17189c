SPECIFICATION FairSpec
CONSTANTS
    c1 = c1
    c2 = c2
    c3 = c3
    p1 = p1
    p2 = p2
    udp = udp
    Clients = {c1, c2}
    Processors = {p1, p2}
    MaxConnections = 0
    QueueSize = 1
    MaxPackets = 3
INVARIANTS
    TypeOK
    
PROPERTIES
    ShutdownEnds
