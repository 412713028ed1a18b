SPECIFICATION GatewaySpec
CONSTANTS
    p1 = p1
    p2 = p2
    r1 = r1
    r2 = r2
    Principals = {p1, p2}
    Replicas = {r1, r2}
    Offset <- MCOffset
    Requests <- MCRequests
    Required = {"sre"}
    Rate = 1
    Burst = 1
    Cost = 1
    Lag = 0
    Lead = 0
    TicksPerSec = 1
    MaxTime = 2
    MaxRequests = 4
INVARIANTS
    GatewayTypeOK
    Accounting
    ChargedOnce
    EndToEndLimit
