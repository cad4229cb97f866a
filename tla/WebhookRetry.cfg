SPECIFICATION RSpec
CONSTANTS
  n1 = n1
  n2 = n2
  a1 = a1
  Webhooks = {1, 2}
  Instances = {n1, n2}
  Admins = {a1}
  MaxRetries = 2
  BatchSize = 1
  MaxEvents = 2
SYMMETRY InstanceSymmetry
INVARIANTS
  DeadLettersAreQueued
  RetriesBounded
CHECK_DEADLOCK FALSE
