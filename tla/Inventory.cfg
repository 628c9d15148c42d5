SPECIFICATION Spec
CONSTANTS
  Merchants = {m1, m2}
  Products = {p1, p2}
  Orders = {o1, o2, o3}
  Buyers = {b1, b2}
  Intents = {i1, i2}
  None = None
  MaxStock = 2
SYMMETRY Symmetry
INVARIANTS
  TypeOK
  ActiveOrderExact
  StatusMatchesStock
  StockConserved
  ReferencesLive
  OneOpenIntent
PROPERTIES
  FinishedStaysFinished
  RestockDoesNotSell
CHECK_DEADLOCK FALSE
