SPECIFICATION Spec
CONSTANTS
    I = {1, 2}
    T = {t1, t2}
    t1 = t1
    t2 = t2
    To <- Receiver
    Amount <- Value
    Workers = {w1}
    Admins = {r1}
    MaxRequests = 3
    None = None
    MaxFailures = 1
CHECK_DEADLOCK FALSE
INVARIANTS
    CreditedOnce
    ConfirmedWasRefused
PROPERTIES
    UntouchedDepositsLive
    PaidIsDecided
