CONSTANTS
    o1 = o1
    t1 = t1
    t2 = t2
    t3 = t3
    NoOrder = NoOrder
    Orders <- OneOrder
    Tasks <- TwoTasks
    Roles <- LiveRoles
    Channels <- AllChannels
    UpstreamCloses <- NoUpstreamCloses
    MaxFaults = 1
SPECIFICATION FairSpec
CHECK_DEADLOCK FALSE
PROPERTIES
    PaidBecomesSucceeded
    ExpiredIsSettled
    SuccessIsBooked
    MissedNotificationIsReconciled
