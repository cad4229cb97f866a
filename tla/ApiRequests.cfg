SPECIFICATION QSpec
CONSTANTS
  alice = alice
  bob = bob
  carol = carol
  office = office
  r1 = r1
  r2 = r2
  r3 = r3
  Users = {alice, bob, carol}
  Addresses = {office}
  AddressOf <- OneAddress
  Tiers = {"AUTH", "WALLET_READ", "WALLET_WRITE", "TRANSACTION", "ONRAMP", "ADMIN_EMERGENCY"}
  MaxRequests <- MCMaxRequests
  Window = 2
  MaxAge = 3
  MaxTime = 4
  Requests = {r1, r2, r3}
  Anonymous = {carol}
  RoleOf <- TokenRoles
  AllowedIPs = {}
  Called <- OneOfEachKind
  MaxCrashes = 1
SYMMETRY RequestSymmetry
INVARIANTS
  WindowRespected
  RowsTellTheTruth
  ChangesAreAccounted
PROPERTY
  DenialsAreExact
CHECK_DEADLOCK FALSE
