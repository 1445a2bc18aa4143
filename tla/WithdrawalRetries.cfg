SPECIFICATION FairSpec
CONSTANTS
    W = {w1}
    Sessions = {s1, s2}
    w1 = w1
    w2 = w2
    s1 = s1
    s2 = s2
    Monitor = Monitor
    None = None
    Amounts = {1}
    Amount <- OneEach
    Funds <- AllFunds
    MaxSends = 2
    MaxRetries = 1
INVARIANTS
    RefundsFollowDebits
    CompletedWasPaid
PROPERTIES
    ProcessingEnds
