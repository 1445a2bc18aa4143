SPECIFICATION FairSpec
CONSTANTS
    B = {b1, b2}
    Sessions = {s1, s2, s3}
    b1 = b1
    b2 = b2
    s1 = s1
    s2 = s2
    s3 = s3
    None = None
    Amounts = {1, 2, 3}
    Stake <- Stakes
    Payout <- Payouts
    Funds = 3
INVARIANTS
    EntriesFollowStatus
    UnracedFundsAddUp
PROPERTIES
    UnracedStepsAreBooked
    EveryTransactionEnds
