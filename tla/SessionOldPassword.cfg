\* A login while the password is changed.
SPECIFICATION Spec
CONSTANTS
  q1 = q1  q2 = q2  q3 = q3  d1 = d1  d2 = d2  m1 = m1  p1 = p1  p2 = p2
  Requests = {q1, q2}
  Devices = {d1}
  Mails = {}
  Passwords = {p1, p2}
  ShortLived = {}
  None = None
  Offered = {"login", "change_password"}
INVARIANT SessionsHavePassword
