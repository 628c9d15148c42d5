SPECIFICATION Spec
CONSTANTS
  MaxRequests = 3
  MaxLogins = 2
  MaxGen = 2
INVARIANTS
  TypeOK
  OwnIdentity
  SessionKept
PROPERTIES
  EveryRequestEnds
CHECK_DEADLOCK FALSE
