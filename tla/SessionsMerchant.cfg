SPECIFICATION Spec
CONSTANTS
  Admins = {a1}
  Merchants = {m1}
  Sessions = {s1, s2}
  Workers = {w1, w2}
  None = None
  TTL = 1
  MaxHash = 1
  MaxTime = 2
SYMMETRY Symmetry
INVARIANTS
  MerchantSessionsProvePassword
CHECK_DEADLOCK FALSE
