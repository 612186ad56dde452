\* Without Supabase: three requests at a time on one account, the limit at 1.
CONSTANTS
    Accounts = {a1}
    Users = {u1}
    Requests = {r1, r2, r3}
    Totals = {0, 1}
    Half = 8
    Limit = 1
    PoolSize = 2
    UseDb = FALSE
    MaxCalls = 5
SPECIFICATION Spec
SYMMETRY RequestSymmetry
INVARIANTS
    LimitOvershootBounded
CHECK_DEADLOCK FALSE
