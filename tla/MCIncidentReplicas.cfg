CONSTANTS
    v1 = v1
    v2 = v2
    db = db
    w1 = w1
    Secrets = {db}
    Revisions = {v1, v2}
    MaxPods = 2
    Reasons = {w1}
    Retention = 1
    MaxTime = 2
    MaxBusy = 2
SPECIFICATION Spec
SYMMETRY Symmetry
INVARIANTS BlamePrecedesEveryFailure
