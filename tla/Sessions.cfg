SPECIFICATION Spec
CONSTANTS
  ann = ann
  bob = bob
  q1 = q1
  q2 = q2
  Emails = {ann, bob}
  GitHubIds = {g1, g2}
  Tenants = {1}
  Invites <- MCInvites
  Keys = {k1}
  KeyScopes <- MCKeyScopes
  Asked <- MCAsked
  Requests = {q1, q2}
  None = none
  MaxSessions = 3
  MaxRequests = 4
SYMMETRY RequestSymmetry
INVARIANTS
  ChainIsSound InviteIsSpentOnce KeyStaysNarrow
PROPERTIES
  LinkIsPermanent
CHECK_DEADLOCK FALSE
