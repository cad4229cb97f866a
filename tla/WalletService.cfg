SPECIFICATION Spec
CONSTANTS
  w1 = w1
  w2 = w2
  w3 = w3
  alice = alice
  bob = bob
  r1 = r1
  r2 = r2
  r3 = r3
  r4 = r4
  evt = evt
  tx = tx
  Wallets = {w1, w2, w3}
  Created = {w1, w2}
  Users = {alice, bob}
  Requests = {r1, r2, r3, r4}
  References = {evt, tx}
  OwnerOf <- MCOwnerOf
  Calls <- MCCalls
  NoRef = NoRef
  NoKey = NoKey
  NoOne = NoOne
  HasFrozenAt = TRUE
SYMMETRY Symmetry
INVARIANTS
  TypeOK
  LockedReadIsCurrent
  LedgerChains
  NeverNegative
  CreditedOncePerKey
  AnswersMatchLedger
  OnlyPermittedMoves
  BalanceIsLedgerTotal
PROPERTIES
  EveryChangeRecorded
  ImplementsAccount
