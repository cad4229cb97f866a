SPECIFICATION LSpec
CONSTANTS
  w1 = w1
  w2 = w2
  alice = alice
  bob = bob
  r1 = r1
  r2 = r2
  j1 = j1
  g1 = g1
  evt = evt
  k1 = k1
  Wallets = {w1, w2}
  Created = {w1, w2}
  Users = {alice, bob}
  Requests = {r1}
  References = {evt}
  OwnerOf <- BothOwners
  Calls <- CreditCalls
  NoRef = NoRef
  NoKey = NoKey
  NoOne = NoOne
  HasFrozenAt = TRUE
  Jobs = {j1}
  Tasks <- AuditTasks
  TxKeys = {k1}
  NoTxKey = NoTxKey
  Alerts = {}
  Readers = {g1}
  AskedFor <- AsksW1
  AuditLimit = 1
INVARIANTS
  QuietVerdictIsExact
  QuietReadIsExact
