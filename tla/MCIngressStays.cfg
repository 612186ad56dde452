\* The process without a crash.
CONSTANTS
    c1 = c1
    c2 = c2
    d1 = d1
    d2 = d2
    k1 = k1
    k2 = k2
    Workers = {w1}
    Udp = udp
    TcpClients = {c1}
    UdpClients = {}
    Chain <- Chains
    ChainLength = 1
    RequirePopp = TRUE
    ChannelBound = 1
    BatchSize = 1
    MaxSessions = 2
    MaxSwaps = 1
SPECIFICATION Spec
PROPERTY
    KeepsListening
CHECK_DEADLOCK FALSE
