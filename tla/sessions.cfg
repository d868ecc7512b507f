SPECIFICATION FairSpec
CONSTANTS
    Users = {u1}
    Sessions = {s1, s2}
    Passwords = {p1, p2}
    Requests = {r1, r2}
    Recoveries = {}
    None = None
INVARIANTS TypeOK SweepsAreFinal ChangeEndsOwnSession DeliveredTokensMatch
PROPERTIES ClosedStaysClosed RequestsEnd
