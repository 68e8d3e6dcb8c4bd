\* A refresh while another device logs out of all sessions.
SPECIFICATION Spec
CONSTANTS
  q1 = q1  q2 = q2  q3 = q3  d1 = d1  d2 = d2  m1 = m1  p1 = p1  p2 = p2
  Requests = {q1, q2}
  Devices = {d1}
  Mails = {}
  Passwords = {p1}
  ShortLived = {}
  None = None
  Offered = {"refresh", "logout_all"}
INVARIANT LogoutAllRevokesEverySession
