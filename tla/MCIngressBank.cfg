\* Bank mode: the gateway mints the blocks; a worker and the UDP thread on a channel of one.
CONSTANTS
    c1 = c1
    c2 = c2
    d1 = d1
    d2 = d2
    k1 = k1
    k2 = k2
    Workers = {w1}
    Udp = udp
    TcpClients = {c1}
    UdpClients = {d1}
    Chain <- Chains
    ChainLength = 1
    RequirePopp = FALSE
    ChannelBound = 1
    BatchSize = 1
    MaxSessions = 2
    MaxSwaps = 2
SPECIFICATION FairSpec
PROPERTY
    SenderIsReleased
CHECK_DEADLOCK FALSE
