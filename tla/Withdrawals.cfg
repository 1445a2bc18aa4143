SPECIFICATION Spec
CONSTANTS
    W = {w1, w2}
    Sessions = {s1, s2}
    w1 = w1
    w2 = w2
    s1 = s1
    s2 = s2
    Monitor = Monitor
    None = None
    Amounts = {1}
    Amount <- OneEach
    Funds <- AllFunds
    MaxSends = 2
    MaxRetries = 0
SYMMETRY Symmetric
INVARIANTS
    FundsFollowStatus
    SentOnceUnlessInDoubt
PROPERTIES
    KeepsPromise
