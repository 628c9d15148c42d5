SPECIFICATION SafetySpec
CONSTANTS
  r1 = r1
  r2 = r2
  r3 = r3
  k1 = k1
  k2 = k2
  body1 = body1
  body2 = body2
  None = None
  Requests = {r3}
  KeyOf <- OneOrder
  BodyOf <- OneOrderBody
  Creates = {r3}
  Tries <- OneOrderTwice
  MaxStock = 2
INVARIANTS
  ExecutedOncePerKey
CHECK_DEADLOCK FALSE
