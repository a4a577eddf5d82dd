CONSTANTS
    g = g
    a = a
    s = s
    t = t
    None = None
    Orders <- TwoOrders
    AutoPaid <- OneAuto
    Share <- Shares
    Tasks <- TwoTasks
    MaxLicences = 6
    MaxFaults = 1
SPECIFICATION FairOrderSpec
CHECK_DEADLOCK FALSE
INVARIANTS
    DeliveredIsPaid
    PaidIsFulfilled
PROPERTIES
    PaidIsKept
    HandedOutIsStored
    PaymentIsDelivered
