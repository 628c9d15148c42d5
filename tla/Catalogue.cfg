SPECIFICATION Spec
CONSTANTS
  Rows = {1, 2, 3}
  Names = {A, B}
  Products = {p1, p2}
  Files = {f1, f2}
  Uploads = {u1, u2}
  None = None
SYMMETRY Symmetry
INVARIANTS
  TypeOK
  PassedIsWhole
  ImagesKept
  CategoriesKept
PROPERTIES
  PassedIsImmutable
CHECK_DEADLOCK FALSE
