SPECIFICATION Spec
CONSTANTS
    P = {p1, p2}
    Sessions = {s1, s2}
    MaxName = 1
    MaxFailures = 1
    None = None
CHECK_DEADLOCK FALSE
INVARIANTS
    OneAccount
    ReferralsCounted
PROPERTIES
    AccountsGetVerified
