SPECIFICATION AvatarSpec
SYMMETRY Symmetry
CONSTANTS
  Keys = {k1, k2}
  Validations = {v1}
  Requests = {r1}
  Workers = 2
  MaxAttempts = 2
  MaxDeaths = 1
  Callbacks = FALSE
  None = None
INVARIANTS AvatarTypeOK QuietStatusIsFinal AttemptsAgree ResultMailedOnce
CHECK_DEADLOCK FALSE
