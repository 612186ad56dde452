\* A large swap at a rate of 1.25, in the proportions of the gateway's ledger.
CONSTANTS
    Ids = {a, b}
    Accounts = {a, b}
    Threads = {t1}
    Amounts = {1, 16}
    Rates = {5}
    Word = 64
    Scale = 4
    InitUsdt = 16
    InitEurc = 0
    MaxSwaps = 2
SPECIFICATION Spec
INVARIANT
    CreditIsEquivalent
CHECK_DEADLOCK FALSE
