SPECIFICATION RecoverySpec
CONSTANTS
    Users = {u1}
    Sessions = {}
    Passwords = {p1}
    Requests = {}
    Recoveries = {k1, k2}
    Codes = {c1, c2}
    MaxAttempts = 2
    None = None
SYMMETRY Symmetry
INVARIANTS RecTypeOK RequestRetiresCodes AttemptsBounded SpentOnlyTogether
PROPERTY UsedStaysUsed
