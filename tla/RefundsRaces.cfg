CONSTANTS
    r1 = r1
    r2 = r2
    t1 = t1
    t2 = t2
    None = None
    Refunds <- TwoRefunds
    Tasks <- TwoTasks
    Requests <- TwoOrThree
    UnknownAnswers <- AnError
    Amount = 3
    MaxFaults = 1
SPECIFICATION Spec
SYMMETRY RefundSymmetry
INVARIANTS
    RefundedUnlessReturned
    SuccessIsReal
