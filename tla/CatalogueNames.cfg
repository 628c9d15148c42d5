SPECIFICATION Spec
CONSTANTS
  Rows = {1, 2}
  Names = {A, B}
  Products = {p1}
  Files = {f1}
  Uploads = {u1}
  None = None
INVARIANTS
  NamesUnique
CHECK_DEADLOCK FALSE
