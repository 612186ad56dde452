\* Two accounts with Supabase, any call of which may fail or be dropped, against the promised ledger.
CONSTANTS
    Accounts = {a1, a2}
    Users = {u1}
    Requests = {r1, r2}
    Totals <- EdgeTotals
    Half = 2
    Limit = 1
    PoolSize = 2
    UseDb = TRUE
    MaxCalls = 3
SPECIFICATION Spec
INVARIANTS
    MoneyConserved
    ApprovalIsRecorded
PROPERTY
    ImplementsLedger
CHECK_DEADLOCK FALSE
