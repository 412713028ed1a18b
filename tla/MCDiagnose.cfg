CONSTANTS
    Subject <- Api
    Worlds <- Labelled
    OtherPod <- Payments
    OtherState <- Leaking
    MaxDenied = 3
SPECIFICATION Spec
INVARIANTS
    TypeOK
    ScopedPods
    ScopedEvents
    DenialsNeverAbort
    UnsupportedIsNoted
    DenialsOnlyRemove
    DnsBeforeDatabase
CHECK_DEADLOCK FALSE
