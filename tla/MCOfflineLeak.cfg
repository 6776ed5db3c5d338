CONSTANTS
    k1 = k1
    k2 = k2
    v1 = v1
    v2 = v2
    None = None
    Keys <- MCKeys
    Vals <- MCVals
    InitMeta <- MCInitMeta
    RegisterMetas <- MCRegisterMetas
    RetryLimits = {1, 2}
    MaxRetry = 2
    StrategyType = "Reboot"
    HostBoots = TRUE
    MachineHasNodeRef = TRUE
    NodeUpdateMayFail = TRUE
SPECIFICATION Spec
INVARIANTS
    PowerOffOnlyWhileRemediating
CHECK_DEADLOCK FALSE
