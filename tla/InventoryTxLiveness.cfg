SPECIFICATION Spec
CONSTANTS
  Merchants = {m1}
  Products = {p1}
  Orders = {o1}
  Buyers = {b1}
  Intents = {i1, i2}
  None = None
  MaxStock = 1
  Workers = {w1, w2}
PROPERTIES
  EveryTransactionEnds
