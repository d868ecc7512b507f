SPECIFICATION RecoverySpec
CONSTANTS
    Users = {u1}
    Sessions = {s1, s2}
    Passwords = {p1, p2}
    Requests = {r1, r2}
    Recoveries = {k1}
    Codes = {c1}
    MaxAttempts = 2
    None = None
SYMMETRY Symmetry
INVARIANT ResetIsFinal
PROPERTY ClosedStaysClosed
