CONSTANTS
    t1 = t1
    t2 = t2
    Tasks <- TwoTasks
    Kinds <- SuccessAndFailure
    Forms <- Reachable
    Endings <- OpenOrFailed
    Retries = FALSE
    MaxSwitches = 0
    MaxAttempts = 2
    Lease = 2
    Retry = 1
    MaxAge = 1
    MaxFaults = 1
SPECIFICATION FairSpec
PROPERTIES
    MerchantLearnsOfSuccess
