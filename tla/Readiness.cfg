SPECIFICATION RdSpec
CONSTANTS
  new = new
  bare = bare
  push = push
  hand = hand
  jwt = jwt
  paystack = paystack
  backup = backup
  Instances = {new, bare, push, hand}
  ImageOf <- MCImageOf
  StartOf <- MCStartOf
  Secrets = {jwt, paystack}
  Safeguards = {backup}
  StartSecrets = {jwt}
  ReadySecrets = {jwt}
  suspiciousKeys = {jwt}
  WarningDays = 0
  BackupDays = 0
  Configurations <- MCConfigurations
  ConnectRetries = 2
  MaxDay = 1
  MaxEvents = 1
INVARIANTS
  RdTypeOK
  RunsOnItsSchema
  AnswersAreOfTheirTime
PROPERTY
  ConnectingEnds
