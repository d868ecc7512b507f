SPECIFICATION PremiumSpec
CONSTANTS
    Members = {m1, m2, m3}
    Keys = {k1, k2}
    Cycles = {1, 2}
    Calls = {c1, c2}
    MaxTime = 2
    None = None
SYMMETRY Symmetry
INVARIANTS PremiumTypeOK AtMostOneActive OneMembershipPerKey RetryIsReplayed EndedInThePast
PROPERTY ImplementsLedger
