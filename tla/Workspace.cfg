\* Two requests about members and three about a service and its key.
SPECIFICATION Spec
CONSTANTS
  ann = ann  bob = bob  eve = eve  dan = dan  acme = acme  beta = beta  a = a  b = b  e = e
  q1 = q1  q2 = q2   j1 = j1  j2 = j2  j3 = j3  s1 = s1  k1 = k1
  None = None
  Users = {ann, bob, eve, dan}
  Organizations = {acme, beta}
  Requests = {q1, q2}
  Seats = {a, b, e}
  Seated <- MCSeated
  Founded <- MCFounded
  Offered <- MCOffered
  Jobs = {j1, j2, j3}
  Services0 = {s1}
  Keys0 = {k1}
  Deployed <- MCDeployed
  Issued <- MCIssued
  Ordered <- MCOrdered
  ShortLived = {k1}
  Load = 3
SYMMETRY WorkspaceSymmetry
INVARIANTS
  TypeOK
  OneOwner
  AdminsComeFromOwner
  AuditAccountsForRoles
  RevocationIsFinal
  KeysComeFromOwner
  AuditAccountsForKeys
  NothingOutlivesService
