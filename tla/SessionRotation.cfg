\* Two devices; tokens that rotate while bulk updates wait for one another. No
\* symmetry, for liveness.
SPECIFICATION Spec
CONSTANTS
  q1 = q1  q2 = q2  q3 = q3  d1 = d1  d2 = d2  m1 = m1  p1 = p1  p2 = p2
  Requests = {q1, q2, q3}
  Devices = {d1, d2}
  Mails = {}
  Passwords = {p1}
  ShortLived = {}
  None = None
  Offered = {"refresh", "logout", "logout_all"}
INVARIANTS
  OneLivePerLogin
  ReplayEndsSuccessor
  BulkUpdatesReach
PROPERTIES
  BookSpec
  EveryRequestEnds
