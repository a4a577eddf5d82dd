CONSTANTS
    b1 = b1
    b2 = b2
    None = None
    Orders <- TheOrders
    Base <- BaseOf
    Slots = 2
    Tolerance <- NoTail
    Lifetime = 0
    Window = 1
    Bills <- TwoBills
    For <- OrderOf
    Remark <- RemarkOf
    Listener <- TheListener
    MaxAttempts = 2
    Tasks <- TwoTasks
    Horizon = 2
    MaxFaults = 1
SPECIFICATION FairSpec
CHECK_DEADLOCK FALSE
INVARIANTS
    AmountsDiffer
    RightOrderIsCredited
    OneOrderPerBill
    MatchedIsCredited
PROPERTIES
    PaidIsCredited
    BillsAreSettled
    AmountsAreReleased
