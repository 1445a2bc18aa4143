SPECIFICATION Spec
CONSTANTS
    Sessions = {p1, d}
    p1 = p1
    Daily = d
    B = {b1}
    None = None
    Row = o1
    Other = o2
    Win = 2
    Opening = 1
    LiveMode = TRUE
    Referred = TRUE
    MaxRequests = 2
    MaxPayments = 1
    MaxFailures = 1
CHECK_DEADLOCK FALSE
INVARIANTS
    ProviderIsBooked
    BooksBalance
PROPERTIES
    UncontestedBetsLive
    FinishedIsSettled
