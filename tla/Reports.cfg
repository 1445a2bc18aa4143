SPECIFICATION ReportSpec
CONSTANTS
    B = {b1, b2}
    Sessions = {s1}
    b1 = b1
    b2 = b2
    s1 = s1
    s2 = s2
    s3 = s3
    r1 = r1
    r2 = r2
    None = None
    Amounts = {1, 2, 3}
    Stake <- Stakes
    Payout <- Payouts
    Funds = 3
    LastDay = 2
    Reporters = {r1, r2}
    Asked = {1}
    MaxReports = 3
SYMMETRY Alike
INVARIANT UnracedRevenueIsTheirLoss
PROPERTY CompleteDaysReported
CHECK_DEADLOCK FALSE
