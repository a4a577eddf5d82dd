CONSTANTS
    t1 = t1
    t2 = t2
    Tasks <- TwoTasks
    Kinds <- SuccessAndFailure
    Forms <- Contrasting
    Endings <- OpenOrFailed
    Retries = TRUE
    MaxSwitches = 1
    MaxAttempts = 2
    Lease = 2
    Retry = 1
    MaxAge = 1
    MaxFaults = 1
SPECIFICATION Spec
SYMMETRY TaskSymmetry
INVARIANTS
    DeliveriesOverlapOnlyByRequeue
    RetryIsScheduled
    DeliveredIsCurrent
