SPECIFICATION WSpec
CONSTANTS
  w1 = w1
  alice = alice
  bob = bob
  r1 = r1
  r2 = r2
  j1 = j1
  j2 = j2
  evt = evt
  tx = tx
  k1 = k1
  a1 = a1
  Wallets = {w1}
  Created = {w1}
  Users = {alice, bob}
  Requests = {r1, r2}
  References = {evt, tx}
  OwnerOf <- OneOwner
  Calls <- WriterCalls
  NoRef = NoRef
  NoKey = NoKey
  NoOne = NoOne
  HasFrozenAt = TRUE
  Jobs = {j1, j2}
  Tasks <- AllTasks
  TxKeys = {k1}
  NoTxKey = NoTxKey
  Alerts = {a1}
SYMMETRY WriterSymmetry
INVARIANTS
  FundsNeverNegative
  JobAnswersMatchRecords
  ClosedAlertsAreCredited
  IncrementsKeepStep
PROPERTY
  QuietFixIsExact
