SPECIFICATION CalmSpec
CONSTANTS
  w1 = w1
  w2 = w2
  w3 = w3
  alice = alice
  bob = bob
  r1 = r1
  r2 = r2
  r3 = r3
  r4 = r4
  evt = evt
  tx = tx
  Wallets = {w1}
  Created = {w1}
  Users = {alice, bob}
  Requests = {r1, r2, r3}
  References = {evt, tx}
  OwnerOf <- OneOwner
  Calls <- LiveCalls
  NoRef = NoRef
  NoKey = NoKey
  NoOne = NoOne
  HasFrozenAt = FALSE
PROPERTY
  PermittedCreditsLand
