CONSTANTS
    Nil = Nil
    NoObject = NoObject
    StrategyTypes <- MCStrategyTypes
    TimeoutSeconds <- MCTimeoutSeconds
    RetryLimitValues <- MCRetryLimitValues
SPECIFICATION Spec
INVARIANTS
    AdmittedRemediationsRunnable
