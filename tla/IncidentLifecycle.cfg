\* One kind of failure under two keys; two users acknowledge and resolve.
SPECIFICATION Spec
CONSTANTS
  r1 = r1  r2 = r2  r3 = r3  r4 = r4  k1 = k1  k2 = k2  k3 = k3
  svc1 = svc1  svc2 = svc2  c1 = c1  c2 = c2
  Requests = {r1, r2, r3}
  Clicks = {c1, c2}
  Keys = {k1, k2}
  KeyService <- OneService
  Services = {svc1}
  Payloads <- BoardPayloads
  strip <- MCStrip
  normalize <- MCNormalize
  EventIds = {"x", "y", "z"}
  EventTypes = {"TIMEOUT", "DISK"}
  Times = {1}
  Threshold = 1
  Window = 1
  None = None
SYMMETRY BoardSymmetry
INVARIANTS
  TypeOK
  OneActivePerFingerprint
  CriticalEscalates
  AuditAccountsForIncidents
PROPERTY BoardSpec
