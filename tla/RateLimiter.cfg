\* Two threads, two keys of different policies, every second check removes idle buckets.
SPECIFICATION Spec
CONSTANTS
  login = login  register = register  t1 = t1  t2 = t2
  None = None
  Threads = {t1, t2}
  Keys = {login, register}
  limit <- MCLimit
  window <- MCWindow
  MaxWindow = 3
  Period = 2
  Patience = 1
  Horizon = 4
SYMMETRY ThreadSymmetry
INVARIANTS
  TypeOK
  LimitUpToStall
  NoSpuriousRejection
  RetryIsHonest
