SPECIFICATION Spec
CONSTANTS
  Files = {1}
  Runs = {r1, r2}
  Commands = {c1, c2}
  None = None
  MaxFaults = 2
  MaxEdits = 1
INVARIANTS
  TypeOK
  KeepsACopy
  LedgerIsTrue
  OneRunPerFile
PROPERTIES
  LeftoversSettle
  CleanupConverges
