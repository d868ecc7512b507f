SPECIFICATION PremiumSpec
CONSTANTS
    Members = {m1, m2, m3}
    Keys = {k1, k2}
    Cycles = {2}
    Calls = {c1, c2}
    MaxTime = 3
    None = None
SYMMETRY Symmetry
INVARIANT ReportedPremiumIsActive
