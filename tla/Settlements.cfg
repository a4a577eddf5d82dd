CONSTANTS
    c = c
    r = r
    worker = worker
    admin = admin
    Entries <- PaymentAndRefund
    Amount <- Signed
    Follows <- AfterPayment
    Workers <- OneWorker
    Admins <- OneAdmin
    Hold = 1
    MaxDay = 3
    MaxFaults = 1
SPECIFICATION FairSpec
INVARIANTS
    PaidOutAsShown
PROPERTIES
    PaidIsFrozen
    EntriesAreSettled
    SnapshotsConverge
