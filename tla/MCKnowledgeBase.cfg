SPECIFICATION Spec
CONSTANTS
    night = night
    again = again
    other = other
    db = db
    oom = oom
    payments = payments
    checkout = checkout
    Runs = {night, again, other}
    Titles = {db, oom}
    Tenants = {payments, checkout}
    Editions = 2
    Files <- MCFiles
    TenantOf <- MCTenantOf
    Bypasses <- MCBypasses
    ChunksOf <- MCChunksOf
INVARIANTS
    TypeOK
    ReportedWhole
    ScopedSearch
    PartialsAccounted
    FreshWhenDone
CHECK_DEADLOCK FALSE
