SPECIFICATION Spec
CONSTANTS
    Window = 2
    Ids = {r1, r2}
    Amount <- Wish
    Sessions = {s1, s2}
    Balances = {3, 4}
    MaxDaily = 3
    InitiateLimit = 1
    ReadLimit = 2
    Days = 2
    MaxOthers = 1
    MaxFailures = 1
    None = None
CHECK_DEADLOCK FALSE
INVARIANTS
    OneWithdrawalPerId
    FundsFollowWithdrawals
    LimitKept
PROPERTIES
    Answered
