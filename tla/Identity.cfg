SPECIFICATION Spec
CONSTANTS
  axebom = axebom  acme = acme  alice = alice  bob = bob
  o1 = o1  o2 = o2  v = v  q = q  None = none
  Orgs = {axebom, acme}
  AdminOrg = axebom
  Emails = {alice, bob}
  Tenants <- MCTenants
  CrossOrg <- MCCrossOrg
  TrustedDomain = FALSE
  BrandName = FALSE
  Operators = {o1, o2}
  Visitors = {v}
  Wish <- MCWish
  Requests = {q}
  MaxRuns = 2
  MaxFaults = 1
  MaxEdits = 1
  MaxRequests = 2
SYMMETRY OperatorSymmetry
INVARIANTS
  AccessIsEarned 
CHECK_DEADLOCK FALSE
