\* One connection and one UDP socket with the same chain, a channel of one and batches of two, process ends and restarts.
CONSTANTS
    c1 = c1
    c2 = c2
    d1 = d1
    d2 = d2
    k1 = k1
    k2 = k2
    Workers = {w1}
    Udp = udp
    TcpClients = {c1}
    UdpClients = {d1}
    Chain <- Chains
    ChainLength = 2
    RequirePopp = TRUE
    ChannelBound = 1
    BatchSize = 2
    MaxSessions = 2
    MaxSwaps = 2
SPECIFICATION Spec
INVARIANTS
    AcknowledgedIsLogged
    AcknowledgedLossBounded
    SessionIsOneChain
    WalKeepsSessionOrder
    TcpOksMatchSwaps
CHECK_DEADLOCK FALSE
