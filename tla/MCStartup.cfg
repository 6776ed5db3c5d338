CONSTANTS
    p1 = p1
    p2 = p2
    NoLeader = NoLeader
    Procs <- MCProcs
    LeaderElect = TRUE
    WebhookEnabled = TRUE
    MayFail <- MCMayFailAll
SPECIFICATION LiveSpec
INVARIANTS
    SingleActiveReconciler
PROPERTIES
    ReconcilerKeepsRunning
