CONSTANTS
    r1 = r1
    r2 = r2
    t1 = t1
    t2 = t2
    None = None
    Refunds <- OneRefund
    Tasks <- TwoTasks
    Requests <- Three
    UnknownAnswers <- Processing
    Amount = 3
    MaxFaults = 1
SPECIFICATION FairSpec
PROPERTIES
    RefundIsBooked
