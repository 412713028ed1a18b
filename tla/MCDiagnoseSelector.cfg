CONSTANTS
    Subject <- Api
    Worlds <- Expressions
    OtherPod <- Payments
    OtherState <- Leaking
    MaxDenied = 0
SPECIFICATION Spec
INVARIANT SelectedPodsOnly
CHECK_DEADLOCK FALSE
