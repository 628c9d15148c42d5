SPECIFICATION Spec
CONSTANTS
  Admins = {a1}
  Merchants = {m1}
  Sessions = {s1, s2, s3}
  Workers = {w1, w2}
  None = None
  TTL = 1
  MaxHash = 2
  MaxTime = 2
SYMMETRY Symmetry
INVARIANTS
  TypeOK
  AdminSessionsProvePassword
PROPERTIES
  NoUsableSessionOutlivesPassword
  RevokedStaysRevoked
  ResetStands
CHECK_DEADLOCK FALSE
