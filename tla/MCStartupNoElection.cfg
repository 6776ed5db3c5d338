CONSTANTS
    p1 = p1
    p2 = p2
    NoLeader = NoLeader
    Procs <- MCProcs
    LeaderElect = FALSE
    WebhookEnabled = TRUE
    MayFail = {}
SYMMETRY MCSymmetry
SPECIFICATION Spec
INVARIANTS
    SingleActiveReconciler
