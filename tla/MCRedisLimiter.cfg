SPECIFICATION RedisSpec
CONSTANTS
    p1 = p1
    r1 = r1
    r2 = r2
    Principals = {p1}
    Replicas = {r1, r2}
    Offset <- MCOffset
    Rate = 1
    Burst = 3
    Cost = 1
    Lag = 1
    Lead = 1
    TicksPerSec = 5
    MaxTime = 6
INVARIANTS
    RedisTypeOK
    WindowBound
PROPERTIES
    BucketSpec
    DenialJustified
