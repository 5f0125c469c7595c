SPECIFICATION Spec
CONSTANTS
  User = {u1}
  Token = {t1, t2}
  Replica = {r1}
  Request = {p1, p2}
  None = None
  MaxSessions = 2
  TokenCacheTTL = 1
  SessionTTL = 1
  MaxLatency = 1
  MaxTime = 1
  MaxPasswords = 2
SYMMETRY Symmetry
INVARIANT OldPasswordSessionsGone
