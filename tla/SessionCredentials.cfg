\* One device, one mail, two passwords; every operation.
SPECIFICATION Spec
CONSTANTS
  q1 = q1  q2 = q2  q3 = q3  d1 = d1  d2 = d2  m1 = m1  p1 = p1  p2 = p2
  Requests = {q1, q2, q3}
  Devices = {d1}
  Mails = {m1}
  Passwords = {p1, p2}
  ShortLived = {m1, d1}
  None = None
  Offered = {"register", "login", "refresh", "logout", "revoke_session", "logout_all",
             "change_password", "forgot_password", "reset_password"}
SYMMETRY SessionSymmetry
INVARIANTS
  TypeOK
  ResetTokenSingleUse
  AuditAccountsForPasswords
