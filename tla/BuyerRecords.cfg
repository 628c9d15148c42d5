SPECIFICATION Spec
CONSTANTS
  Devices = {d1}
  Buyers = {b1, b2}
  Products = {p1}
  Workers = {w1, w2}
  None = None
  MaxTime = 2
  MaxViews = 2
SYMMETRY Symmetry
INVARIANTS
  TypeOK
  CountedOnce
  NoFavouriteLost
PROPERTIES
  GivenOnce
