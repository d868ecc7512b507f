SPECIFICATION AvatarSpec
CONSTANTS
  Keys = {k1, k2}
  Validations = {v1}
  Requests = {r1}
  Workers = 1
  MaxAttempts = 2
  MaxDeaths = 0
  Callbacks = FALSE
  None = None
INVARIANT VectorIsOfAvatar
CHECK_DEADLOCK FALSE
