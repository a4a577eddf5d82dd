CONSTANTS
    o1 = o1
    t1 = t1
    t2 = t2
    t3 = t3
    NoOrder = NoOrder
    Orders <- OneOrder
    Tasks <- ThreeTasks
    Roles <- WorkerRoles
    Channels <- AllChannels
    UpstreamCloses <- OneOrder
    MaxFaults = 1
SPECIFICATION Spec
CHECK_DEADLOCK FALSE
INVARIANTS
    TerminalIsStamped
PROPERTIES
    OnlyStaleWritesUndo
    PaymentsKept
