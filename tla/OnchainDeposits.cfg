CONSTANTS
    d = d
    e = e
    None = None
    Orders <- TheOrders
    Slots = 2
    Start <- SameStart
    Lifetime = 1
    Deposits <- TheDeposits
    For <- OrderOf
    Confirmations = 2
    Overlap = 1
    Horizon = 4
    MaxFaults = 1
SPECIFICATION FairSpec
CHECK_DEADLOCK FALSE
INVARIANTS
    NoDepositIsMissed
    RightOrderIsCredited
    MatchedIsCredited
PROPERTIES
    PaidIsCredited
