\* A KYC upgrade stored in Supabase against the upsert of the next request.
CONSTANTS
    Accounts = {a1}
    Users = {u1}
    Requests = {r1}
    Totals = {0}
    Half = 8
    Limit = 1
    PoolSize = 2
    UseDb = TRUE
    MaxCalls = 3
SPECIFICATION Spec
PROPERTY
    UpgradeIsKept
CHECK_DEADLOCK FALSE
