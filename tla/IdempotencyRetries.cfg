CONSTANTS
    t1 = t1
    t2 = t2
    t3 = t3
    p1 = p1
    p2 = p2
    Tasks <- ThreeTasks
    Payloads <- TwoPayloads
    Lease = 3
    MaxAge = 2
    MaxRuns = 3
    MaxFaults = 1
SPECIFICATION FairSpec
INVARIANTS
    OnePayloadRuns
PROPERTIES
    SingleResultKept
    KeyIsResolved
