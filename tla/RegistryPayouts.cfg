CONSTANTS
    a = a
    b = b
    p = p
    q = q
    s = s
    t = t
    None = None
    Orders <- TheOrders
    AutoPaid <- TheOrders
    Payouts <- TwoPayouts
    Share <- Shares
    Amount <- Amounts
    Tasks <- TwoTasks
    MaxLicences = 4
    MaxFaults = 1
SPECIFICATION Spec
CHECK_DEADLOCK FALSE
INVARIANTS
    BalanceCovers
    LedgerFollowsDecisions
