SPECIFICATION SafetySpec
CONSTANTS
  Merchants = {m1}
  Products = {p1}
  Orders = {o1, o2}
  Buyers = {b1, b2}
  Intents = {i1, i2}
  None = None
  MaxStock = 2
  Workers = {w1, w2}
SYMMETRY Symmetry
INVARIANTS
  ReadsStayCurrent
PROPERTIES
  Serializable
