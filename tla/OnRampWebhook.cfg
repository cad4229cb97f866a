SPECIFICATION OFairSpec
CONSTANTS
  w1 = w1
  alice = alice
  bob = bob
  d1 = d1
  d2 = d2
  evt = evt
  evt2 = evt2
  Wallets = {w1}
  Created = {w1}
  Users = {alice, bob}
  Requests = {d1, d2}
  References = {evt, evt2}
  OwnerOf <- OneOwner
  Calls <- MCCalls
  NoRef = NoRef
  NoKey = NoKey
  NoOne = NoOne
  HasFrozenAt = TRUE
  Events <- MCEvents
  PoolSize = 2
INVARIANTS
  PaymentCreditedOnce
  AcknowledgedIsCredited
  RecordedIsCredited
PROPERTIES
  EveryDeliveryEnds
  EveryRequestAnswered
  Spec
