SPECIFICATION AFairSpec
CONSTANTS
  n1 = n1
  a1 = a1
  Webhooks = {1, 2, 3}
  Instances = {n1}
  Admins = {a1}
  MaxRetries = 2
  BatchSize = 2
  MaxEvents = 3
  Threshold = 2
  Window = 3
  Spacing = 1
  MaxTime = 3
INVARIANTS
  ATypeOK
  BurstsAreAlerted
PROPERTIES
  AlertsAreSpaced
  FailedIsDeadLettered
CHECK_DEADLOCK FALSE
