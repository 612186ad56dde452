\* Every part on its small instance: see the module for what is what.
SPECIFICATION PartsSpec
CONSTANTS
    \* AccountTable: four accounts, three slots, three handlers at a time
    x1 = x1
    x2 = x2
    x3 = x3
    x4 = x4
    Accounts = {x1, x2, x3, x4}
    Handlers = {h1, h2, h3}
    SlotCount = 3
    Home <- CrowdedHome
    Free = Free
    \* RamanRuntime and RamanCore
    s1 = s1
    s2 = s2
    calm = calm
    jammed = jammed
    fast = fast
    robust = robust
    slow = slow
    critical = critical
    bulk = bulk
    guard = guard
    none = none
    None = none
    NoAction = none
    Streams <- MCStreams
    Situations <- MCSituations
    Phys <- MCPhys
    Names <- MCNames
    Priorities <- MCPriorities
    RisModes = {"assisted"}
    Contracts = {"relay"}
    BasePhy <- MCBasePhy
    BaseName = "derived"
    GuardPriority <- MCGuardPriority
    TrafficPriority <- MCTrafficPriority
    Artifacts <- MCArtifacts
    MaxCalls = 5
    Program <- MCProgram
    MaxFrames = 8
    \* ReplayWindow: six nonces, a window of two frames beyond the expected one
    NonceLimit = 6
    Skew = 2
    First = 0
    MaxRewinds = 2
    \* Anomalizer
    NonceWord = 32
    DrillSkew = 4
    Sessions = {1, 2}
    Bases = {0, 5, 24}
    Counts = {1, 3}
    Jams = {0, 16, 28}
    NodeLists <- MCNodeLists
    GuardBase = 8
    MaxDrills = 3
    \* Sx1276
    Lengths <- MCLengths
    FifoSize = 4
    Ring = 2
    Carriers <- MCCarriers
    Frequencies = {1, 2}
    MaxSpiFaults = 1
    MaxRadioCalls = 4
    \* TelemetryFrame: eight bytes of three bits
    Bits = 3
    Blank <- MCBlank
    SourceAt = 1
    SequenceAt = 3
    ChecksumAt = 6
    Sources <- MCSources
    SequenceNumbers <- MCSequenceNumbers
    Seed = {0, 2}
    MaxOverwrites = 3
    \* ChannelEnsemble
    Bands <- MCBands
    Measurements <- MCMeasurements
    MaxLoss = 4
    EnoughBits = 2
    MaxHops = 6
    MaxMeasurements = 3
    \* AnomalyWindow
    Window = 5
    MinHistory = 4
    Samples = {10, 11, 14, 30}
    MaxSamples = 7
    \* GplToolchain
    Policies <- MCPolicies
    GplFiles = {"evolved", "autonomous"}
    Metrics <- MCMetrics
    GplContexts <- MCGplContexts
    PowerScale = 1
    Offset = 2
    MaxGplSteps = 4
    \* CooperLearning
    Queries = {"who are you", "who  are you", "fix bug", "  "}
    Normal <- MCNormal
    TagOf <- MCTagOf
    Logs = {1, 2}
    Profiles <- MCProfiles
    Chars <- MCChars
    Priority <- MCPriority
    Rank <- MCRank
    AllowedTags = {"identity", "programming", "communication"}
    MaxCards = 2
    MaxChars = 4
    BankRoom = 3
    MaxCooperSteps = 4
    \* RamanArtifact
    Encodables <- MCEncodables
    Leftovers <- MCLeftovers
    \* ChipPortability
    ChipArtifacts <- MCChipArtifacts
    Capabilities <- MCCapabilities
    ChipDecisions <- MCChipDecisions
    Mappings <- MCMappings
    \* SpinSolver
    Spins = {1, 2, 3}
    Reference <- MCReference
    Bias <- MCBias
    Alpha = 2
    Draws <- MCDraws
    MaxSteps = 3
    PlateauLimit = 2
    Baselines = {TRUE, FALSE}
INVARIANTS
    OneSlotPerAccount
    SearchIsRight
    SnapshotFollowsTheRules
    WindowIsServedExactly
    ReportedMeansApplied
    CoreWindowsAreExact
    ReplayNeedsRewind
    SenderIsHeard
    DrillVerdictsAreSound
    PeripheralLabIsExact
    EnsembleIsFair
    AnomaliesAreRare
    ToolsKeepTheirWord
    ArtifactIsWhole
    PipelineIsHonest
    SolverIsConsistent
PROPERTY
    EveryCallReturns
    WindowsEndServed
CHECK_DEADLOCK FALSE
