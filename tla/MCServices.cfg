\* The programs around the gate, one at a time.
SPECIFICATION MCSpec
CONSTANTS
    a1 = a1
    a2 = a2
    a3 = a3
    none = none
    c1 = c1
    c2 = c2
    alice = alice
    bob = bob
    \* PaperTrading
    Missing = none
    Assets = {a1, a2, a3}
    Listings <- MCListings
    Fallback = {a2}
    Batches <- MCBatches
    LiveSeconds = 2
    ReadTimeout = 1
    Wait = 1
    Cooldown = 2
    SnapshotInterval = 2
    MaxTrades = 2
    StartBalance = 500
    Stake = 50
    Profit = 15
    MaxClock = 3
    \* CardSimulation
    Cards = {c1, c2}
    Requests <- MCRequests
    InitialRate = 100
    Rates = {100, 150}
    Deposits <- MCDeposits
    DepositAmount = 15
    StartMicro = 20
    FeeBps = 1000
    TargetUpdates = 1
    Latencies = {1, 2}
    PoolSize = 4
    \* KycWebhook
    Events <- MCEvents
    Malformed <- MCMalformed
    Unsigned <- MCUnsigned
    Hooks = {h1, h2}
    SecretSet = TRUE
    MaxFaults = 2
    \* ProviderForwarding
    Clients <- MCClients
    KindOf <- MCKindOf
    Authorized = {"p", "s"}
    TokenSet = TRUE
    MaxAttempts = 2
INVARIANTS
    PaperTradingIsSound
    SimulationIsExact
    AcknowledgedIsDecided
    AnswersMatchEffects
PROPERTY
    PaperSessionEnds
    KycOutcomeReachesGate
CHECK_DEADLOCK FALSE
