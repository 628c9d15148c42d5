SPECIFICATION Spec
CONSTANTS
  r1 = r1
  r2 = r2
  r3 = r3
  k1 = k1
  k2 = k2
  body1 = body1
  body2 = body2
  None = None
  Requests = {r1, r2, r3}
  KeyOf <- TwoBodies
  BodyOf <- Hashes
  Creates = {r3}
  Tries <- Twice
  MaxStock = 2
INVARIANTS
  TypeOK
  EffectsRecorded
  ConflictFindsResult
PROPERTIES
  KeepsThePromise
  EveryAttemptEnds
CHECK_DEADLOCK FALSE
