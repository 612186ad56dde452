\* Kernel, SX1262 driver and SPI bus with failing pins.
SPECIFICATION FairSpec
CONSTANTS
    Contexts <- MCContexts
    Custom <- MCCustom
    LogSize = 8
    PollLimit = 2
    Word = 65536
    MaxCalls = 3
INVARIANTS
    CleanRegistersMatch
    ChipIsDeselected
PROPERTIES
    EveryCallReturns
CHECK_DEADLOCK FALSE
