SPECIFICATION Spec
CONSTANTS
    Users = {u1}
    Sessions = {s1, s2}
    u1 = u1
    s1 = s1
    s2 = s2
    None = None
    Amounts = {1}
    MaxEntries = 4
INVARIANT
    StoredMatchesLedger
