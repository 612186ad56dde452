\* Two threads on words of three bits, against the promised ledger.
CONSTANTS
    Ids = {a, b, c}
    Accounts = {a, b}
    Threads = {t1, t2}
    Amounts = {1, 2}
    Rates = {7}
    Word = 8
    Scale = 4
    InitUsdt = 3
    InitEurc = 6
    MaxSwaps = 3
SPECIFICATION FairSpec
INVARIANTS
    EurcIsBought
PROPERTY
    ImplementsPromise
    EverySwapEnds
CHECK_DEADLOCK FALSE
