SPECIFICATION AvatarFairSpec
ACTION_CONSTRAINT CallsWhileAsked
CONSTANTS
  Keys = {k1}
  Validations = {v1}
  Requests = {r1}
  Workers = 1
  MaxAttempts = 2
  MaxDeaths = 2
  Callbacks = TRUE
  None = None
PROPERTIES JobsEnd ImplementsLifecycle
CHECK_DEADLOCK FALSE
