--------------------------- MODULE InventoryProofs ---------------------------
(***************************************************************************)
(* What Inventory promises, for every number of merchants, products,       *)
(* orders, buyers and intents and every bound on the stock.                *)
(***************************************************************************)
EXTENDS Inventory, FiniteSetTheorems, TLAPS

\* The inductive invariant: the safety properties support one another. The ledger needs the
\* reservation to know that a completed order's unit was there, the reservation needs the
\* references to know whose order is finished.
IInv ==
  TypeOK /\ ActiveOrderExact /\ StatusMatchesStock /\ StockConserved /\ ReferencesLive /\ OneOpenIntent

-----------------------------------------------------------------------------
(* The row operators. *)

\* A live row of a product stays one when an order books a unit of it (createOrder).
LEMMA OrderedRow ==
  ASSUME NEW row \in ProductRow, NEW o \in Orders
  PROVE  /\ Ordered(row, o) \in ProductRow
         /\ Ordered(row, o).status = "LOCKED" /\ Ordered(row, o).active = o
         /\ Ordered(row, o).stock = row.stock /\ Ordered(row, o).reserved = row.reserved + 1
         /\ Ordered(row, o).row = row.row
<1>1. row.reserved + OrderQuantity \in Nat
  BY DEF ProductRow, OrderQuantity
<1>2. Ordered(row, o) \in ProductRow
  BY <1>1 DEF ProductRow, ProductStatus, Ordered
<1>3. QED
  BY <1>2 DEF ProductRow, Ordered, OrderQuantity

\* Completing an order takes its unit out of the stock and of the reservation, and the last
\* unit sold makes the product SOLD (transitionOrder).
LEMMA CompletedRow ==
  ASSUME NEW row \in ProductRow, row.reserved >= 1, row.stock >= 1
  PROVE  /\ Completed(row) \in ProductRow
         /\ Completed(row).active = None /\ Completed(row).row = row.row
         /\ Completed(row).stock = row.stock - 1 /\ Completed(row).reserved = row.reserved - 1
         /\ row.stock = 1 => Completed(row).status = "SOLD"
         /\ row.stock # 1 => Completed(row).status = "ON_SHELF"
<1>1. row.stock - OrderQuantity \in Nat /\ row.reserved - OrderQuantity \in Nat
  BY DEF ProductRow, OrderQuantity
<1>2. Completed(row) \in ProductRow
  BY <1>1 DEF ProductRow, ProductStatus, Completed
<1>3. QED
  BY <1>2 DEF ProductRow, Completed, OrderQuantity

\* Closing an order only frees its unit, and takes the product off the shelf (transitionOrder).
LEMMA ClosedRow ==
  ASSUME NEW row \in ProductRow, row.reserved >= 1
  PROVE  /\ Closed(row) \in ProductRow
         /\ Closed(row).active = None /\ Closed(row).row = row.row
         /\ Closed(row).stock = row.stock /\ Closed(row).reserved = row.reserved - 1
         /\ Closed(row).status = "OFF_SHELF"
<1>1. row.reserved - OrderQuantity \in Nat
  BY DEF ProductRow, OrderQuantity
<1>2. Closed(row) \in ProductRow
  BY <1>1 DEF ProductRow, ProductStatus, Closed
<1>3. QED
  BY <1>2 DEF ProductRow, Closed, OrderQuantity

\* An adjustment never makes the stock negative, never touches the reservation, and leaves
\* a status that the new stock allows (calculateStockAdjustment).
LEMMA AdjustedRow ==
  ASSUME NEW row \in ProductRow, NEW type \in AdjustmentTypes, NEW qty \in Nat,
         NEW all \in BOOLEAN, CanAdjust(row, type, qty, all),
         row.status = "SOLD" => row.stock = 0,
         row.status = "ON_SHELF" => row.stock > 0
  PROVE  LET new == Adjusted(row, type, qty, all)
         IN /\ new \in ProductRow
            /\ new.active = None /\ new.row = row.row /\ new.reserved = row.reserved
            /\ new.status # "LOCKED"
            /\ new.status = "ON_SHELF" => new.stock > 0
            /\ new.status = "SOLD" => new.stock = 0
            /\ row.status = "SOLD" => new.status = "OFF_SHELF" /\ new.stock > 0
<1> DEFINE left == StockAfter(row, type, qty, all)
           new  == Adjusted(row, type, qty, all)
<1>1. row.stock \in Nat /\ row.status \in ProductStatus \ {"LOCKED"} /\ row.active = None
  BY DEF ProductRow, CanAdjust
<1>2. left \in Nat
  BY <1>1 DEF CanAdjust, AppliedQuantity, StockAfter, AdjustmentTypes
<1>3. /\ StatusAfter(row.status, type, left) \in ProductStatus \ {"LOCKED"}
      /\ StatusAfter(row.status, type, left) = "ON_SHELF" => left > 0
      /\ StatusAfter(row.status, type, left) = "SOLD" => left = 0
      /\ row.status = "SOLD" => StatusAfter(row.status, type, left) = "OFF_SHELF" /\ left > 0
  <2>1. CASE type = "INCREASE"
    BY <1>1, <2>1 DEF CanAdjust, StockAfter, StatusAfter, ProductStatus
  <2>2. CASE type = "DECREASE"
    BY <1>1, <1>2, <2>2 DEF CanAdjust, StatusAfter, ProductStatus
  <2>3. CASE type = "MARK_SOLD"
    BY <1>1, <1>2, <2>3 DEF CanAdjust, StatusAfter, ProductStatus
  <2>4. QED
    BY <2>1, <2>2, <2>3 DEF AdjustmentTypes
<1>4. /\ new = [row EXCEPT !.stock = left, !.status = StatusAfter(row.status, type, left)]
  BY DEF Adjusted
<1>5. QED
  BY <1>1, <1>2, <1>3, <1>4 DEF ProductRow, ProductStatus

-----------------------------------------------------------------------------
(* The inductive invariant. *)

\* No row exists in the empty database the program starts with.
LEMMA InitInv == Init => IInv
<1> SUFFICES ASSUME Init PROVE IInv
  OBVIOUS
<1>1. TypeOK
  BY DEF Init, TypeOK, ProductRow, OrderRow, IntentRow, AbsentProduct, AbsentOrder,
         AbsentIntent, ProductStatus, OrderStatus, IntentStatus
<1>2. ActiveOrderExact /\ StatusMatchesStock /\ ReferencesLive /\ OneOpenIntent
  BY InventoryAssumption
  DEF Init, ActiveOrderExact, StatusMatchesStock, ReferencesLive, OneOpenIntent, OrdersOf,
      IntentsOf, AbsentProduct, AbsentOrder, AbsentIntent
<1>3. StockConserved
  <2>1. ASSUME NEW p \in Products PROVE Cardinality(CompletedOf(p)) = 0
    <3>1. CompletedOf(p) = {}
      BY InventoryAssumption DEF Init, CompletedOf, AbsentOrder
    <3>2. QED
      BY <3>1, FS_EmptySet
  <2>2. QED
    BY <2>1 DEF Init, StockConserved, AbsentProduct, OrderQuantity
<1>4. QED
  BY <1>1, <1>2, <1>3 DEF IInv

\* The orders of a product are finitely many, so counting the completed ones makes sense.
LEMMA CompletedFinite ==
  ASSUME NEW p \in Products
  PROVE  IsFiniteSet(CompletedOf(p)) /\ Cardinality(CompletedOf(p)) \in Nat
<1>1. CompletedOf(p) \subseteq Orders
  BY DEF CompletedOf
<1>2. QED
  BY <1>1, InventoryAssumption, FS_Subset, FS_CardinalityType

\* A product nobody ever inserted, or one that was deleted, carries no reservation.
LEMMA UnlockedWithoutOrders ==
  ASSUME IInv, NEW p \in Products, product[p].row # "live"
  PROVE  /\ product[p].active = None /\ product[p].reserved = 0 /\ product[p].status # "LOCKED"
         /\ product[p].stock = supplied[p]
<1>1. \A o \in Orders : order[o].product # p
  BY DEF IInv, ReferencesLive, OrdersOf
<1>2. product[p].active = None
  BY <1>1, InventoryAssumption DEF IInv, TypeOK, ProductRow, ActiveOrderExact
<1>3. Cardinality(CompletedOf(p)) = 0
  <2>1. CompletedOf(p) = {}
    BY <1>1 DEF CompletedOf
  <2>2. QED
    BY <2>1, FS_EmptySet
<1>4. product[p].stock = supplied[p]
  BY <1>3 DEF IInv, TypeOK, StockConserved, OrderQuantity
<1>5. QED
  BY <1>2, <1>4 DEF IInv, ActiveOrderExact

\* A transaction that writes one product row and no order or intent keeps the invariant if
\* it leaves the reservation alone, accounts for the stock it changes and leaves a status
\* the stock allows (creation, edit, deletion, shelf change, stock adjustment).
AccountedWrite(p, new) ==
  /\ product' = [product EXCEPT ![p] = new] /\ UNCHANGED <<order, intent>>
  /\ supplied' \in [Products -> Int]
  /\ \A q \in Products : supplied'[q] = IF q = p THEN supplied[p] + new.stock - product[p].stock
                                                 ELSE supplied[q]
  /\ new.active = product[p].active /\ new.reserved = product[p].reserved
  /\ new.status = "LOCKED" <=> product[p].status = "LOCKED"
  /\ new.status = "ON_SHELF" => new.stock > new.reserved
  /\ new.status = "SOLD" => new.stock = 0
  /\ new.reserved <= new.stock
  /\ new.row # "live" => OrdersOf(p) = {} /\ IntentsOf(p) = {}

\* One product's row is written, the others stay.
LEMMA ProductWrite ==
  ASSUME IInv, NEW p \in Products, NEW new \in ProductRow, AccountedWrite(p, new)
  PROVE  IInv'
<1> USE DEF AccountedWrite
<1>1. TypeOK'
  BY DEF IInv, TypeOK
<1>2. \A q \in Products : product'[q] = IF q = p THEN new ELSE product[q]
  BY DEF IInv, TypeOK
<1>3. \A q \in Products : /\ OrdersOf(q)' = OrdersOf(q) /\ IntentsOf(q)' = IntentsOf(q)
                          /\ CompletedOf(q)' = CompletedOf(q)
  BY DEF OrdersOf, IntentsOf, CompletedOf
<1>4. ActiveOrderExact'
  BY <1>2 DEF IInv, ActiveOrderExact
<1>5. StatusMatchesStock'
  BY <1>2 DEF IInv, StatusMatchesStock
<1>6. StockConserved'
  <2> SUFFICES ASSUME NEW q \in Products
               PROVE  product'[q].stock
                        = supplied'[q] - OrderQuantity * Cardinality(CompletedOf(q))
    BY <1>3 DEF StockConserved
  <2>1. product[q].stock = supplied[q] - Cardinality(CompletedOf(q))
    BY CompletedFinite DEF IInv, StockConserved, OrderQuantity
  <2>2. /\ product[q].stock \in Nat /\ supplied[q] \in Int /\ new.stock \in Nat
        /\ Cardinality(CompletedOf(q)) \in Nat
    BY CompletedFinite DEF IInv, TypeOK, ProductRow
  <2>3. QED
    BY <1>2, <2>1, <2>2 DEF OrderQuantity
<1>7. ReferencesLive'
  BY <1>2, <1>3 DEF IInv, ReferencesLive
<1>8. OneOpenIntent'
  BY DEF IInv, OneOpenIntent
<1>9. QED
  BY <1>1, <1>4, <1>5, <1>6, <1>7, <1>8 DEF IInv

\* A product is created under an id nobody knows (handleCreateProduct).
LEMMA CreateProductInv ==
  ASSUME IInv, NEW m \in Merchants, NEW p \in Products, NEW stock \in 1..MaxStock,
         CreateProduct(m, p, stock)
  PROVE  IInv'
<1> DEFINE new == [AbsentProduct EXCEPT !.row = "live", !.merchant = m, !.stock = stock]
<1>1. new \in ProductRow
  <2>1. stock \in Nat
    BY InventoryAssumption
  <2>2. QED
    BY <2>1 DEF AbsentProduct, ProductRow, ProductStatus
<1>2. /\ new.active = None /\ new.reserved = 0 /\ new.status = "DRAFT" /\ new.stock = stock
      /\ new.row = "live"
  BY DEF AbsentProduct
<1>3. /\ product[p].active = None /\ product[p].reserved = 0 /\ product[p].status # "LOCKED"
      /\ product[p].stock = supplied[p]
  BY UnlockedWithoutOrders DEF CreateProduct
<1>4. /\ supplied \in [Products -> Int] /\ product[p].stock \in Nat
      /\ supplied' = [supplied EXCEPT ![p] = stock] /\ stock \in Nat /\ stock > 0
  BY InventoryAssumption DEF CreateProduct, IInv, TypeOK, ProductRow
<1>5. supplied' \in [Products -> Int]
  BY <1>4
<1>6. \A q \in Products : supplied'[q] = IF q = p THEN supplied[p] + new.stock - product[p].stock
                                                  ELSE supplied[q]
  BY <1>2, <1>3, <1>4
<1>7. product' = [product EXCEPT ![p] = new] /\ UNCHANGED <<order, intent>>
  BY DEF CreateProduct
<1> HIDE DEF new
<1>8. AccountedWrite(p, new)
  BY <1>1, <1>2, <1>3, <1>4, <1>5, <1>6, <1>7 DEF AccountedWrite
<1>9. QED
  BY <1>1, <1>8, ProductWrite

\* A product is edited (handleUpdateProduct).
LEMMA UpdateProductInv ==
  ASSUME IInv, NEW m \in Merchants, NEW p \in Products, NEW stock \in 1..MaxStock,
         UpdateProduct(m, p, stock)
  PROVE  IInv'
<1> DEFINE new == [product[p] EXCEPT !.stock = stock]
<1>1. product[p] \in ProductRow /\ stock \in Nat /\ stock > 0 /\ supplied \in [Products -> Int]
  BY InventoryAssumption DEF IInv, TypeOK
<1>2. /\ new \in ProductRow /\ new.active = product[p].active /\ new.stock = stock
      /\ new.reserved = product[p].reserved /\ new.status = product[p].status
      /\ new.row = product[p].row
  BY <1>1 DEF ProductRow
<1>3. new.row = "live" /\ new.status \in {"DRAFT", "OFF_SHELF"}
  BY <1>2 DEF UpdateProduct, Owned, StockEditable
<1>4. new.reserved = 0
  BY <1>2, <1>3 DEF IInv, ActiveOrderExact
<1>5. \A q \in Products : supplied'[q] = IF q = p THEN supplied[p] + new.stock - product[p].stock
                                                  ELSE supplied[q]
  BY <1>1, <1>2 DEF UpdateProduct
<1>6. supplied' \in [Products -> Int]
  BY <1>1 DEF UpdateProduct, ProductRow
<1>7. product' = [product EXCEPT ![p] = new] /\ UNCHANGED <<order, intent>>
  BY <1>1 DEF UpdateProduct, IInv, TypeOK
<1> HIDE DEF new
<1>8. AccountedWrite(p, new)
  BY <1>1, <1>2, <1>3, <1>4, <1>5, <1>6, <1>7 DEF AccountedWrite
<1>9. QED
  BY <1>2, <1>8, ProductWrite

\* A product nobody asks for is deleted (handleDeleteProduct).
LEMMA DeleteProductInv ==
  ASSUME IInv, NEW m \in Merchants, NEW p \in Products, DeleteProduct(m, p)
  PROVE  IInv'
<1> DEFINE new == [product[p] EXCEPT !.row = "deleted"]
<1>1. product[p] \in ProductRow /\ supplied \in [Products -> Int]
  BY DEF IInv, TypeOK
<1>2. /\ new \in ProductRow /\ new.active = product[p].active /\ new.stock = product[p].stock
      /\ new.reserved = product[p].reserved /\ new.status = product[p].status
      /\ product[p].stock \in Nat
  BY <1>1 DEF ProductRow
<1>3. OrdersOf(p) = {} /\ IntentsOf(p) = {} /\ new.status \in {"DRAFT", "OFF_SHELF"}
  BY <1>2 DEF DeleteProduct, CanDelete
<1>4. new.reserved <= new.stock
  BY <1>2 DEF IInv, StatusMatchesStock
<1>5. \A q \in Products : supplied'[q] = IF q = p THEN supplied[p] + new.stock - product[p].stock
                                                  ELSE supplied[q]
  BY <1>1, <1>2 DEF DeleteProduct
<1>6. supplied' \in [Products -> Int]
  BY <1>1 DEF DeleteProduct
<1>7. product' = [product EXCEPT ![p] = new] /\ UNCHANGED <<order, intent>>
  BY <1>1 DEF DeleteProduct, IInv, TypeOK
<1> HIDE DEF new
<1>8. AccountedWrite(p, new)
  BY <1>2, <1>3, <1>4, <1>5, <1>6, <1>7 DEF AccountedWrite
<1>9. QED
  BY <1>2, <1>8, ProductWrite

\* A product goes on the shelf or off it (handleProductOnShelf, handleProductOffShelf).
LEMMA ChangeShelfInv ==
  ASSUME IInv, NEW m \in Merchants, NEW p \in Products, NEW to \in {"ON_SHELF", "OFF_SHELF"},
         ChangeShelf(m, p, to)
  PROVE  IInv'
<1> DEFINE new == [product[p] EXCEPT !.status = to]
<1>1. product[p] \in ProductRow /\ supplied \in [Products -> Int]
  BY DEF IInv, TypeOK
<1>2. /\ new \in ProductRow /\ new.active = product[p].active /\ new.stock = product[p].stock
      /\ new.reserved = product[p].reserved /\ new.status = to /\ new.row = product[p].row
      /\ product[p].stock \in Nat /\ product[p].reserved \in Nat
  BY <1>1 DEF ProductRow, ProductStatus
<1>3. new.row = "live" /\ product[p].status # "LOCKED"
  BY <1>2 DEF ChangeShelf, Owned, CanShelve, CanTransitionProduct
<1>4. to = "ON_SHELF" => new.stock > new.reserved
  BY <1>2 DEF ChangeShelf, CanShelve
<1>5. new.reserved <= new.stock
  BY <1>2 DEF IInv, StatusMatchesStock
<1>6. \A q \in Products : supplied'[q] = IF q = p THEN supplied[p] + new.stock - product[p].stock
                                                  ELSE supplied[q]
  BY <1>1, <1>2 DEF ChangeShelf
<1>7. supplied' \in [Products -> Int]
  BY <1>1 DEF ChangeShelf
<1>8. product' = [product EXCEPT ![p] = new] /\ UNCHANGED <<order, intent>>
  BY <1>1 DEF ChangeShelf, IInv, TypeOK
<1> HIDE DEF new
<1>9. AccountedWrite(p, new)
  BY <1>2, <1>3, <1>4, <1>5, <1>6, <1>7, <1>8 DEF AccountedWrite
<1>10. QED
  BY <1>2, <1>9, ProductWrite

\* A product's stock is adjusted (adjustStock).
LEMMA AdjustStockInv ==
  ASSUME IInv, NEW m \in Merchants, NEW p \in Products, NEW type \in AdjustmentTypes,
         NEW qty \in 0..MaxStock, NEW all \in BOOLEAN, AdjustStock(m, p, type, qty, all)
  PROVE  IInv'
<1> DEFINE new == Adjusted(product[p], type, qty, all)
<1>1. /\ product[p] \in ProductRow /\ supplied \in [Products -> Int] /\ qty \in Nat
      /\ product[p].stock \in Nat
  BY InventoryAssumption DEF IInv, TypeOK, ProductRow
<1>2. /\ product[p].status = "SOLD" => product[p].stock = 0
      /\ product[p].status = "ON_SHELF" => product[p].stock > 0
  BY <1>1 DEF IInv, StatusMatchesStock, ProductRow, TypeOK
<1>3. CanAdjust(product[p], type, qty, all)
  BY DEF AdjustStock
<1>4. /\ new \in ProductRow
      /\ new.active = None /\ new.row = product[p].row /\ new.reserved = product[p].reserved
      /\ new.status # "LOCKED"
      /\ new.status = "ON_SHELF" => new.stock > 0
      /\ new.status = "SOLD" => new.stock = 0
  BY <1>1, <1>2, <1>3, AdjustedRow
<1>5. /\ product' = [product EXCEPT ![p] = new] /\ UNCHANGED <<order, intent>>
      /\ supplied' = [supplied EXCEPT ![p] = @ + new.stock - product[p].stock]
      /\ new.row = "live"
  BY <1>4 DEF AdjustStock, Owned
<1> HIDE DEF new
<1>6. product[p].active = None /\ product[p].status # "LOCKED"
  BY <1>3 DEF CanAdjust
<1>7. product[p].reserved = 0
  BY <1>6 DEF IInv, ActiveOrderExact
<1>8. new.stock \in Nat
  BY <1>4 DEF ProductRow
<1>9. supplied' \in [Products -> Int]
  BY <1>1, <1>5, <1>8
<1>10. \A q \in Products : supplied'[q] = IF q = p THEN supplied[p] + new.stock - product[p].stock
                                                   ELSE supplied[q]
  BY <1>1, <1>5
<1>11. AccountedWrite(p, new)
  BY <1>4, <1>5, <1>6, <1>7, <1>8, <1>9, <1>10 DEF AccountedWrite
<1>12. QED
  BY <1>4, <1>11, ProductWrite

\* Booking a unit locks the product with the new order (createOrder).
LEMMA CreateOrderInv ==
  ASSUME IInv, NEW m \in Merchants, NEW p \in Products, NEW o \in Orders, CreateOrder(m, p, o)
  PROVE  IInv'
<1> DEFINE new == Ordered(product[p], o)
           booked == [status |-> "CREATED", product |-> p, merchant |-> m]
<1>1. product[p] \in ProductRow /\ product[p].stock \in Nat /\ product[p].reserved \in Nat
  BY DEF IInv, TypeOK, ProductRow
<1>2. /\ new \in ProductRow /\ new.status = "LOCKED" /\ new.active = o
      /\ new.stock = product[p].stock /\ new.reserved = product[p].reserved + 1
      /\ new.row = product[p].row
  BY <1>1, OrderedRow
<1>3. /\ product[p].row = "live" /\ product[p].status = "ON_SHELF"
      /\ product[p].stock - product[p].reserved >= 1 /\ order[o].status = "absent"
  BY DEF CreateOrder, Owned, CanOrder, CanTransitionProduct, OrderQuantity
<1>4. product[p].active = None /\ product[p].reserved = 0
  BY <1>3 DEF IInv, ActiveOrderExact
<1>5. order[o].product = None
  BY <1>3 DEF IInv, ReferencesLive
<1>6. /\ product' = [product EXCEPT ![p] = new] /\ order' = [order EXCEPT ![o] = booked]
      /\ UNCHANGED <<intent, supplied>>
  BY DEF CreateOrder
<1> HIDE DEF new
<1>7. /\ \A q \in Products : product'[q] = IF q = p THEN new ELSE product[q]
      /\ \A x \in Orders : order'[x] = IF x = o THEN booked ELSE order[x]
  BY <1>6 DEF IInv, TypeOK
<1>8. TypeOK'
  <2>1. booked \in OrderRow
    BY DEF OrderRow, OrderStatus
  <2>2. QED
    BY <1>2, <1>6, <2>1 DEF IInv, TypeOK
<1>9. ActiveOrderExact'
  <2>1. \A q \in Products : \A x \in Orders :
          product'[q].active = x <=> order'[x].status = "CREATED" /\ order'[x].product = q
    BY <1>2, <1>3, <1>4, <1>7, InventoryAssumption DEF IInv, ActiveOrderExact
  <2>2. o # None
    BY InventoryAssumption
  <2>3. \A q \in Products :
          /\ product'[q].status = "LOCKED" <=> product'[q].active # None
          /\ product'[q].reserved = IF product'[q].active = None THEN 0 ELSE OrderQuantity
    BY <1>2, <1>4, <1>7, <2>2 DEF IInv, ActiveOrderExact, OrderQuantity
  <2>4. QED
    BY <2>1, <2>3 DEF ActiveOrderExact
<1>10. StatusMatchesStock'
  BY <1>1, <1>2, <1>3, <1>4, <1>7 DEF IInv, StatusMatchesStock
<1>11. StockConserved'
  <2>1. \A q \in Products : CompletedOf(q)' = CompletedOf(q)
    BY <1>3, <1>7 DEF CompletedOf
  <2>2. \A q \in Products : product'[q].stock = product[q].stock
    BY <1>2, <1>7
  <2>3. QED
    BY <1>6, <2>1, <2>2 DEF IInv, StockConserved
<1>12. ReferencesLive'
  <2>1. \A q \in Products : q # p => OrdersOf(q)' = OrdersOf(q)
    BY <1>5, <1>7, InventoryAssumption DEF OrdersOf
  <2>2. \A q \in Products : IntentsOf(q)' = IntentsOf(q)
    BY <1>6 DEF IntentsOf
  <2>3. \A q \in Products : product'[q].row # "live" => q # p /\ product[q].row # "live"
    BY <1>2, <1>3, <1>7
  <2>4. \A x \in Orders : order'[x].status = "absent" <=> order'[x].product = None
    BY <1>7, InventoryAssumption DEF IInv, ReferencesLive
  <2>5. QED
    BY <2>1, <2>2, <2>3, <2>4 DEF IInv, ReferencesLive
<1>13. OneOpenIntent'
  BY <1>6 DEF IInv, OneOpenIntent
<1>14. QED
  BY <1>8, <1>9, <1>10, <1>11, <1>12, <1>13 DEF IInv

\* Finishing an order frees the product it locks: the reservation goes back to zero, and the
\* unit leaves the stock exactly when the order is completed (transitionOrder).
LEMMA FinishOrderInv ==
  ASSUME IInv, NEW m \in Merchants, NEW o \in Orders, NEW to \in {"COMPLETED", "CLOSED"},
         FinishOrder(m, o, to)
  PROVE  IInv'
<1> DEFINE p == order[o].product
           new == Finished(product[p], to)
           done == [order[o] EXCEPT !.status = to]
<1>1. p \in Products
  BY DEF FinishOrder, IInv, TypeOK, OrderRow, ReferencesLive
<1>2. /\ product[p] \in ProductRow /\ product[p].stock \in Nat /\ product[p].reserved \in Nat
      /\ order[o] \in OrderRow
  BY <1>1 DEF IInv, TypeOK, ProductRow
<1>3. /\ product[p].row = "live" /\ product[p].status = "LOCKED" /\ product[p].active = o
      /\ product[p].reserved >= 1 /\ product[p].stock >= 1 /\ order[o].status = "CREATED"
  BY DEF FinishOrder, Owned, CanFinish, CanTransitionOrder, OrderQuantity
<1>4. o # None /\ p # None
  BY <1>1, InventoryAssumption
<1>5. product[p].reserved = 1
  BY <1>1, <1>3, <1>4 DEF IInv, ActiveOrderExact, OrderQuantity
<1>6. /\ new \in ProductRow /\ new.active = None /\ new.row = "live" /\ new.reserved = 0
      /\ new.stock = product[p].stock - (IF to = "COMPLETED" THEN 1 ELSE 0)
      /\ new.status # "LOCKED"
      /\ new.status = "ON_SHELF" => new.stock > 0
      /\ new.status = "SOLD" => new.stock = 0
  <2>1. CASE to = "COMPLETED"
    BY <1>2, <1>3, <1>5, <2>1, CompletedRow DEF Finished
  <2>2. CASE to = "CLOSED"
    BY <1>2, <1>3, <1>5, <2>2, ClosedRow DEF Finished
  <2>3. QED
    BY <2>1, <2>2
<1>7. /\ product' = [product EXCEPT ![p] = new] /\ order' = [order EXCEPT ![o] = done]
      /\ UNCHANGED <<intent, supplied>>
  BY <1>2 DEF FinishOrder, IInv, TypeOK, OrderRow
<1>8. done \in OrderRow /\ done.status = to /\ done.product = p
  BY <1>2 DEF OrderRow, OrderStatus
<1> HIDE DEF new, done
<1>9. /\ \A q \in Products : product'[q] = IF q = p THEN new ELSE product[q]
      /\ \A x \in Orders : order'[x] = IF x = o THEN done ELSE order[x]
  BY <1>1, <1>7 DEF IInv, TypeOK
<1>10. \A x \in Orders : order'[x].product = order[x].product
  BY <1>8, <1>9
<1>11. TypeOK'
  BY <1>1, <1>6, <1>7, <1>8 DEF IInv, TypeOK
<1>12. ActiveOrderExact'
  <2>1. \A q \in Products, x \in Orders :
          product[q].active = x <=> order[x].status = "CREATED" /\ order[x].product = q
    BY DEF IInv, ActiveOrderExact
  <2>2. \A q \in Products, x \in Orders :
          product'[q].active = x <=> order'[x].status = "CREATED" /\ order'[x].product = q
    <3> SUFFICES ASSUME NEW q \in Products, NEW x \in Orders
                 PROVE  product'[q].active = x
                          <=> order'[x].status = "CREATED" /\ order'[x].product = q
      OBVIOUS
    <3>1. x # None
      BY InventoryAssumption
    <3>2. CASE x = o
      BY <1>1, <1>3, <1>4, <1>6, <1>8, <1>9, <2>1, <3>1, <3>2
    <3>3. CASE x # o
      BY <1>1, <1>3, <1>6, <1>9, <2>1, <3>1, <3>3
    <3>4. QED
      BY <3>2, <3>3
  <2>3. \A q \in Products :
          /\ product'[q].status = "LOCKED" <=> product'[q].active # None
          /\ product'[q].reserved = IF product'[q].active = None THEN 0 ELSE OrderQuantity
    BY <1>6, <1>9 DEF IInv, ActiveOrderExact
  <2>4. QED
    BY <2>2, <2>3 DEF ActiveOrderExact
<1>13. StatusMatchesStock'
  <2>1. new.reserved <= new.stock /\ (new.status = "ON_SHELF" => new.stock > new.reserved)
    BY <1>6 DEF ProductRow
  <2>2. QED
    BY <1>6, <1>9, <2>1 DEF IInv, StatusMatchesStock
<1>14. StockConserved'
  <2> SUFFICES ASSUME NEW q \in Products
               PROVE  product'[q].stock
                        = supplied[q] - OrderQuantity * Cardinality(CompletedOf(q)')
    BY <1>7 DEF StockConserved
  <2>1. product[q].stock = supplied[q] - Cardinality(CompletedOf(q))
    BY CompletedFinite DEF IInv, StockConserved, OrderQuantity
  <2>2. CASE q = p /\ to = "COMPLETED"
    <3>1. CompletedOf(q)' = CompletedOf(q) \cup {o}
      BY <1>8, <1>9, <1>10, <2>2 DEF CompletedOf
    <3>2. o \notin CompletedOf(q)
      BY <1>3 DEF CompletedOf
    <3>3. Cardinality(CompletedOf(q) \cup {o}) = Cardinality(CompletedOf(q)) + 1
      BY <3>2, CompletedFinite, FS_AddElement
    <3>4. product'[q].stock = product[q].stock - 1 /\ supplied[q] \in Int
          /\ Cardinality(CompletedOf(q)) \in Nat
      BY <1>6, <1>9, <2>2, CompletedFinite DEF IInv, TypeOK
    <3>5. QED
      BY <2>1, <3>1, <3>3, <3>4 DEF OrderQuantity
  <2>3. CASE ~(q = p /\ to = "COMPLETED")
    <3>1. CompletedOf(q)' = CompletedOf(q)
      BY <1>3, <1>8, <1>9, <1>10, <2>3 DEF CompletedOf
    <3>2. product'[q].stock = product[q].stock
      BY <1>2, <1>6, <1>9, <2>3
    <3>3. QED
      BY <2>1, <3>1, <3>2, CompletedFinite DEF OrderQuantity
  <2>4. QED
    BY <2>2, <2>3
<1>15. ReferencesLive'
  <2>1. \A q \in Products : OrdersOf(q)' = OrdersOf(q) /\ IntentsOf(q)' = IntentsOf(q)
    BY <1>7, <1>10 DEF OrdersOf, IntentsOf
  <2>2. \A q \in Products : product'[q].row = product[q].row
    BY <1>3, <1>6, <1>9
  <2>3. \A x \in Orders : order'[x].status = "absent" <=> order'[x].product = None
    BY <1>4, <1>8, <1>9 DEF IInv, ReferencesLive
  <2>4. QED
    BY <2>1, <2>2, <2>3 DEF IInv, ReferencesLive
<1>16. OneOpenIntent'
  BY <1>7 DEF IInv, OneOpenIntent
<1>17. QED
  BY <1>11, <1>12, <1>13, <1>14, <1>15, <1>16 DEF IInv

\* An intent is only created where the buyer has none open, for a product on the shelf
\* (createBuyerIntent).
LEMMA CreateIntentInv ==
  ASSUME IInv, NEW b \in Buyers, NEW p \in Products, NEW i \in Intents, CreateIntent(b, p, i)
  PROVE  IInv'
<1> DEFINE new == [status |-> "NEW", open |-> TRUE, buyer |-> b, product |-> p,
                   merchant |-> product[p].merchant]
<1>1. new \in IntentRow
  BY DEF IInv, TypeOK, ProductRow, IntentRow, IntentStatus
<1>2. /\ intent' = [intent EXCEPT ![i] = new] /\ UNCHANGED <<product, order, supplied>>
      /\ product[p].row = "live" /\ ~HasOpenIntent(b, p)
  BY DEF CreateIntent
<1>3. \A x \in Intents : intent'[x] = IF x = i THEN new ELSE intent[x]
  BY <1>2 DEF IInv, TypeOK
<1>4. TypeOK'
  BY <1>1, <1>2 DEF IInv, TypeOK
<1>5. ActiveOrderExact' /\ StatusMatchesStock'
  BY <1>2 DEF IInv, ActiveOrderExact, StatusMatchesStock
<1>6. StockConserved'
  BY <1>2 DEF IInv, StockConserved, CompletedOf
<1>7. ReferencesLive'
  <2>1. \A q \in Products : q # p => IntentsOf(q)' \subseteq IntentsOf(q)
    BY <1>3 DEF IntentsOf
  <2>2. \A q \in Products : OrdersOf(q)' = OrdersOf(q)
    BY <1>2 DEF OrdersOf
  <2>3. QED
    BY <1>2, <2>1, <2>2 DEF IInv, ReferencesLive
<1>8. OneOpenIntent'
  BY <1>2, <1>3 DEF IInv, OneOpenIntent, HasOpenIntent
<1>9. QED
  BY <1>4, <1>5, <1>6, <1>7, <1>8 DEF IInv

\* Answering or closing an intent changes nothing but its status, and never opens it
\* (the merchant's intent handlers).
LEMMA IntentWrite ==
  ASSUME IInv, NEW i \in Intents, NEW new \in IntentRow, UNCHANGED <<product, order, supplied>>,
         intent' = [intent EXCEPT ![i] = new], new.product = intent[i].product,
         new.buyer = intent[i].buyer, new.open => intent[i].open,
         new.open <=> new.status \in {"NEW", "CONTACTED"}
  PROVE  IInv'
<1>1. \A x \in Intents : intent'[x] = IF x = i THEN new ELSE intent[x]
  BY DEF IInv, TypeOK
<1>2. TypeOK' /\ ActiveOrderExact' /\ StatusMatchesStock'
  BY DEF IInv, TypeOK, ActiveOrderExact, StatusMatchesStock
<1>3. StockConserved'
  BY DEF IInv, StockConserved, CompletedOf
<1>4. ReferencesLive'
  <2>1. \A q \in Products : IntentsOf(q)' = IntentsOf(q) /\ OrdersOf(q)' = OrdersOf(q)
    BY <1>1 DEF IntentsOf, OrdersOf
  <2>2. QED
    BY <2>1 DEF IInv, ReferencesLive
<1>5. OneOpenIntent'
  BY <1>1 DEF IInv, OneOpenIntent
<1>6. QED
  BY <1>2, <1>3, <1>4, <1>5 DEF IInv

\* A buyer was contacted (handleMerchantIntentContacted).
LEMMA ContactIntentInv ==
  ASSUME IInv, NEW m \in Merchants, NEW i \in Intents, ContactIntent(m, i)
  PROVE  IInv'
<1> DEFINE new == [intent[i] EXCEPT !.status = "CONTACTED"]
<1>1. intent[i] \in IntentRow
  BY DEF IInv, TypeOK
<1>2. /\ new \in IntentRow /\ new.status = "CONTACTED" /\ new.open = intent[i].open
      /\ new.product = intent[i].product /\ new.buyer = intent[i].buyer
  BY <1>1 DEF IntentRow, IntentStatus
<1>3. /\ intent' = [intent EXCEPT ![i] = new] /\ UNCHANGED <<product, order, supplied>>
      /\ intent[i].open
  BY DEF ContactIntent, CanContact, IInv, TypeOK
<1> HIDE DEF new
<1>4. QED
  BY <1>2, <1>3, IntentWrite

\* An intent is closed (handleMerchantIntentClose).
LEMMA CloseIntentInv ==
  ASSUME IInv, NEW m \in Merchants, NEW i \in Intents, CloseIntent(m, i)
  PROVE  IInv'
<1> DEFINE new == [intent[i] EXCEPT !.status = "CLOSED", !.open = FALSE]
<1>1. intent[i] \in IntentRow
  BY DEF IInv, TypeOK
<1>2. /\ new \in IntentRow /\ new.status = "CLOSED" /\ new.open = FALSE
      /\ new.product = intent[i].product /\ new.buyer = intent[i].buyer
  BY <1>1 DEF IntentRow, IntentStatus
<1>3. /\ intent' = [intent EXCEPT ![i] = new] /\ UNCHANGED <<product, order, supplied>>
  BY DEF CloseIntent, IInv, TypeOK
<1> HIDE DEF new
<1>4. QED
  BY <1>2, <1>3, IntentWrite

\* Every committed transaction keeps the invariant.
LEMMA NextInv == IInv /\ [Next]_vars => IInv'
<1> SUFFICES ASSUME IInv, [Next]_vars PROVE IInv'
  OBVIOUS
<1>1. ASSUME NEW m \in Merchants, NEW p \in Products, ProductStep(m, p) PROVE IInv'
  BY <1>1, CreateProductInv, UpdateProductInv, DeleteProductInv, ChangeShelfInv, AdjustStockInv,
     CreateOrderInv DEF ProductStep
<1>2. ASSUME NEW m \in Merchants, NEW o \in Orders, NEW to \in {"COMPLETED", "CLOSED"},
             FinishOrder(m, o, to)
      PROVE  IInv'
  BY <1>2, FinishOrderInv
<1>3. ASSUME NEW b \in Buyers, NEW p \in Products, NEW i \in Intents, CreateIntent(b, p, i)
      PROVE  IInv'
  BY <1>3, CreateIntentInv
<1>4. ASSUME NEW m \in Merchants, NEW i \in Intents, ContactIntent(m, i) \/ CloseIntent(m, i)
      PROVE  IInv'
  BY <1>4, ContactIntentInv, CloseIntentInv
<1>5. CASE UNCHANGED vars
  BY <1>5 DEF vars, IInv, TypeOK, ActiveOrderExact, StatusMatchesStock, StockConserved,
              ReferencesLive, OneOpenIntent, OrdersOf, IntentsOf, CompletedOf
<1>6. QED
  BY <1>1, <1>2, <1>3, <1>4, <1>5 DEF Next

-----------------------------------------------------------------------------
(* The theorems. *)

\* The invariant holds in every state the program can reach.
THEOREM Invariance == Spec => []IInv
<1>1. QED
  BY InitInv, NextInv, PTL DEF Spec

\* Every column keeps its type: in particular no stock and no reservation is ever negative.
THEOREM TypeCorrect == Spec => []TypeOK
<1>1. IInv => TypeOK
  BY DEF IInv
<1>2. QED
  BY <1>1, Invariance, PTL

\* A product is locked by exactly the one unfinished order on it (createOrder,
\* transitionOrder).
THEOREM ActiveOrderTheorem == Spec => []ActiveOrderExact
<1>1. IInv => ActiveOrderExact
  BY DEF IInv
<1>2. QED
  BY <1>1, Invariance, PTL

\* A product on the shelf can be sold and a sold out one has nothing left
\* (calculateStockAdjustment, transitionOrder).
THEOREM StatusTheorem == Spec => []StatusMatchesStock
<1>1. IInv => StatusMatchesStock
  BY DEF IInv
<1>2. QED
  BY <1>1, Invariance, PTL

\* Every unit is accounted for: supplied less sold is what is in stock (adjustStock,
\* transitionOrder).
THEOREM StockTheorem == Spec => []StockConserved
<1>1. IInv => StockConserved
  BY DEF IInv
<1>2. QED
  BY <1>1, Invariance, PTL

\* Deleting a product never leaves an order or an intent behind (handleDeleteProduct).
THEOREM ReferencesTheorem == Spec => []ReferencesLive
<1>1. IInv => ReferencesLive
  BY DEF IInv
<1>2. QED
  BY <1>1, Invariance, PTL

\* A buyer never has two open intents for a product (createBuyerIntent).
THEOREM IntentTheorem == Spec => []OneOpenIntent
<1>1. IInv => OneOpenIntent
  BY DEF IInv
<1>2. QED
  BY <1>1, Invariance, PTL

-----------------------------------------------------------------------------
(* What a step may never do. *)

\* No transaction writes a finished order or a closed intent (transitionOrder, the intent
\* handlers).
THEOREM FinishedTheorem == Spec => FinishedStaysFinished
<1> DEFINE Kept ==
      /\ \A o \in Orders : order[o].status \in {"COMPLETED", "CLOSED"} => order'[o] = order[o]
      /\ \A i \in Intents : intent[i].status = "CLOSED" => intent'[i] = intent[i]
<1>1. ASSUME TypeOK, Next PROVE Kept
  <2>1. ASSUME NEW m \in Merchants, NEW p \in Products, ProductStep(m, p) PROVE Kept
    BY <1>1, <2>1
    DEF ProductStep, TypeOK, CreateProduct, UpdateProduct, DeleteProduct, ChangeShelf,
        AdjustStock, CreateOrder
  <2>2. ASSUME NEW m \in Merchants, NEW o \in Orders, NEW to \in {"COMPLETED", "CLOSED"},
               FinishOrder(m, o, to)
        PROVE  Kept
    BY <1>1, <2>2 DEF TypeOK, FinishOrder, CanFinish, CanTransitionOrder
  <2>3. ASSUME NEW b \in Buyers, NEW p \in Products, NEW i \in Intents, CreateIntent(b, p, i)
        PROVE  Kept
    BY <1>1, <2>3 DEF TypeOK, CreateIntent
  <2>4. ASSUME NEW m \in Merchants, NEW i \in Intents, ContactIntent(m, i) PROVE Kept
    BY <1>1, <2>4 DEF TypeOK, ContactIntent, CanContact
  <2>5. ASSUME NEW m \in Merchants, NEW i \in Intents, CloseIntent(m, i) PROVE Kept
    BY <1>1, <2>5 DEF TypeOK, CloseIntent, CanCloseIntent
  <2>6. QED
    BY <1>1, <2>1, <2>2, <2>3, <2>4, <2>5 DEF Next
<1>2. TypeOK /\ [Next]_vars => [Kept]_vars
  BY <1>1
<1>3. QED
  BY <1>2, TypeCorrect, PTL DEF Spec, FinishedStaysFinished

\* A product that was never inserted has the status it will be inserted with.
BlankUntilInserted ==
  \A p \in Products : product[p].row = "absent" => product[p].status = "DRAFT"

\* A row that changes exists afterwards; a sold out one comes back off the shelf and with stock.
LEMMA ProductStatusStep ==
  ASSUME IInv, Next, NEW q \in Products, product'[q] # product[q]
  PROVE  /\ product'[q].row # "absent"
         /\ product[q].row # "absent" /\ product[q].status = "SOLD" =>
              product'[q].status = "OFF_SHELF" /\ product'[q].stock > 0
<1>1. product \in [Products -> ProductRow] /\ product[q] \in ProductRow
  BY DEF IInv, TypeOK
<1>2. ASSUME NEW m \in Merchants, NEW p \in Products, NEW stock \in 1..MaxStock,
             CreateProduct(m, p, stock)
      PROVE  p = q /\ product[q].row = "absent" /\ product'[q].row = "live"
  <2>1. product' = [product EXCEPT ![p] = [AbsentProduct EXCEPT !.row = "live", !.merchant = m,
                                                                  !.stock = stock]]
    BY <1>2 DEF CreateProduct
  <2>2. p = q
    BY <1>1, <2>1
  <2>3. QED
    BY <1>1, <1>2, <2>1, <2>2 DEF CreateProduct, AbsentProduct
<1>3. ASSUME NEW m \in Merchants, NEW p \in Products,
             \/ \E stock \in 1..MaxStock : UpdateProduct(m, p, stock)
             \/ DeleteProduct(m, p)
             \/ \E to \in {"ON_SHELF", "OFF_SHELF"} : ChangeShelf(m, p, to)
      PROVE  p = q /\ product[q].status # "SOLD" /\ product'[q].row # "absent"
  BY <1>1, <1>3 DEF UpdateProduct, DeleteProduct, ChangeShelf, Owned, StockEditable, CanDelete,
                    CanShelve, CanTransitionProduct, ProductRow
<1>4. ASSUME NEW m \in Merchants, NEW p \in Products, NEW type \in AdjustmentTypes,
             NEW qty \in 0..MaxStock, NEW all \in BOOLEAN, AdjustStock(m, p, type, qty, all)
      PROVE  /\ product'[q].row = "live"
             /\ product[q].status = "SOLD" =>
                  product'[q].status = "OFF_SHELF" /\ product'[q].stock > 0
  <2> DEFINE new == Adjusted(product[p], type, qty, all)
  <2>1. product' = [product EXCEPT ![p] = new] /\ product[p].row = "live"
        /\ CanAdjust(product[p], type, qty, all)
    BY <1>4 DEF AdjustStock, Owned
  <2>2. p = q
    BY <1>1, <2>1
  <2>3. /\ product[p].status = "SOLD" => product[p].stock = 0
        /\ product[p].status = "ON_SHELF" => product[p].stock > 0
    BY <1>1 DEF IInv, StatusMatchesStock, ProductRow, TypeOK
  <2>4. qty \in Nat
    BY InventoryAssumption
  <2>5. /\ new.row = product[p].row
        /\ product[p].status = "SOLD" => new.status = "OFF_SHELF" /\ new.stock > 0
    BY <1>1, <2>1, <2>2, <2>3, <2>4, AdjustedRow
  <2> HIDE DEF new
  <2>6. QED
    BY <1>1, <2>1, <2>2, <2>5
<1>5. ASSUME NEW m \in Merchants, NEW p \in Products, NEW o \in Orders, CreateOrder(m, p, o)
      PROVE  p = q /\ product[q].status # "SOLD" /\ product'[q].row # "absent"
  BY <1>1, <1>5 DEF CreateOrder, Owned, CanOrder, CanTransitionProduct, Ordered, ProductRow
<1>6. ASSUME NEW m \in Merchants, NEW o \in Orders, NEW to \in {"COMPLETED", "CLOSED"},
             FinishOrder(m, o, to)
      PROVE  product[q].status # "SOLD" /\ product'[q].row # "absent"
  <2> DEFINE p == order[o].product
             new == Finished(product[p], to)
  <2>1. product' = [product EXCEPT ![p] = new]
        /\ product[p].row = "live" /\ product[p].status = "LOCKED"
    BY <1>6, <1>1 DEF FinishOrder, Owned, CanFinish
  <2>2. p = q
    BY <1>1, <2>1
  <2>3. new.row = "live"
    BY <1>1, <2>1, <2>2 DEF Finished, Completed, Closed, ProductRow
  <2> HIDE DEF new
  <2>4. QED
    BY <1>1, <2>1, <2>2, <2>3
<1>7. QED
  BY <1>2, <1>3, <1>4, <1>5, <1>6
  DEF Next, ProductStep, CreateIntent, ContactIntent, CloseIntent

\* Restocking a sold out product is the only way it changes, and leaves it off the shelf
\* (calculateStockAdjustment).
THEOREM RestockTheorem == Spec => RestockDoesNotSell
<1> DEFINE Restocked ==
      \A p \in Products :
        product[p].status = "SOLD" /\ product'[p] # product[p] =>
          product'[p].status = "OFF_SHELF" /\ product'[p].stock > 0
<1>1. Init => BlankUntilInserted
  BY DEF Init, BlankUntilInserted, AbsentProduct
<1>2. IInv /\ BlankUntilInserted /\ [Next]_vars => BlankUntilInserted'
  BY ProductStatusStep DEF BlankUntilInserted, vars
<1>3. IInv /\ BlankUntilInserted /\ [Next]_vars => [Restocked]_vars
  BY ProductStatusStep DEF BlankUntilInserted, vars
<1>4. QED
  BY <1>1, <1>2, <1>3, Invariance, PTL DEF Spec, RestockDoesNotSell

=============================================================================
