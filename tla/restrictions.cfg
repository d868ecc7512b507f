SPECIFICATION RestrictionSpec
SYMMETRY Symmetry
CONSTANTS
  Rows = {m1, m2}
  Calls = {c1, c2}
  MaxTime = 2
  None = None
INVARIANTS RestrictionTypeOK OffIsOverOrLifted SecondOnlyUnseen PeriodsHaveLength
PROPERTY OffStaysOff
CHECK_DEADLOCK FALSE
