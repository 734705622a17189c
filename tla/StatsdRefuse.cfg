SPECIFICATION Spec
CONSTANTS
    c1 = c1
    c2 = c2
    c3 = c3
    p1 = p1
    p2 = p2
    udp = udp
    Clients = {c1, c2, c3}
    Processors = {p1}
    MaxConnections = 1
    QueueSize = 1
    MaxPackets = 0
INVARIANTS
    RefusedOnlyWhenFull
