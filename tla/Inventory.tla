------------------------------ MODULE Inventory ------------------------------
(***************************************************************************)
(* Products, their stock, the orders that reserve it and the purchase      *)
(* intents of buyers: inventory_service.go, product_handlers.go,           *)
(* buyer_intent_state.go and merchant_intent_handlers.go, with the         *)
(* transition tables of stateflow.go.                                      *)
(*                                                                         *)
(* One action per committed database transaction. The row operators        *)
(* (CanOrder, Ordered, ...) say what a handler reads and writes, and       *)
(* InventoryTx reuses them to show that the handlers' lock protocol really *)
(* makes each transaction atomic. A request that ends in an error changes  *)
(* nothing and is no step here.                                            *)
(***************************************************************************)
EXTENDS Integers, FiniteSets

CONSTANTS
  Merchants,  \* merchant ids
  Products,   \* product ids that can ever be inserted
  Orders,     \* order ids that can ever be inserted
  Buyers,     \* buyer ids
  Intents,    \* intent ids that can ever be inserted
  None,       \* the NULL of an id column
  MaxStock    \* bound on a product's stock and on the quantity of a request

ASSUME InventoryAssumption ==
  /\ IsFiniteSet(Orders)
  /\ None \notin Merchants \cup Products \cup Orders \cup Buyers
  /\ MaxStock \in Nat

VARIABLES
  product,  \* the products table
  order,    \* the orders table
  intent,   \* the buyer_intents table
  supplied  \* history: per product, the net units its creation, its stock edits and its
            \* product_stock_adjustments rows (after - before) brought in

vars == <<product, order, intent, supplied>>

-----------------------------------------------------------------------------
(* Rows. "absent" is a row not inserted yet; deletion only sets deleted_at. *)

ProductStatus == {"DRAFT", "ON_SHELF", "LOCKED", "OFF_SHELF", "SOLD"}
OrderStatus   == {"absent", "CREATED", "COMPLETED", "CLOSED"}
IntentStatus  == {"absent", "NEW", "CONTACTED", "CLOSED"}

ProductRow == [row : {"absent", "live", "deleted"}, merchant : Merchants \cup {None},
               status : ProductStatus, stock : Nat, reserved : Nat, active : Orders \cup {None}]
OrderRow   == [status : OrderStatus, product : Products \cup {None},
               merchant : Merchants \cup {None}]
IntentRow  == [status : IntentStatus, open : BOOLEAN, buyer : Buyers \cup {None},
               product : Products \cup {None}, merchant : Merchants \cup {None}]

AbsentProduct == [row |-> "absent", merchant |-> None, status |-> "DRAFT",
                  stock |-> 0, reserved |-> 0, active |-> None]
AbsentOrder   == [status |-> "absent", product |-> None, merchant |-> None]
AbsentIntent  == [status |-> "absent", open |-> FALSE, buyer |-> None,
                  product |-> None, merchant |-> None]

OrdersOf(p)    == {o \in Orders : order[o].product = p}
CompletedOf(p) == {o \in Orders : order[o].product = p /\ order[o].status = "COMPLETED"}
IntentsOf(p)   == {i \in Intents : intent[i].product = p}

-----------------------------------------------------------------------------
(* Transition tables. *)

CanTransitionProduct(from, to) ==
  \/ from \in {"DRAFT", "OFF_SHELF"} /\ to = "ON_SHELF"
  \/ from = "ON_SHELF" /\ to \in {"OFF_SHELF", "LOCKED"}

CanTransitionOrder(from, to) == from = "CREATED" /\ to \in {"COMPLETED", "CLOSED"}

StockEditable(status) == status \in {"DRAFT", "OFF_SHELF"}

-----------------------------------------------------------------------------
(* Row operators: the checks and the writes of one handler on the rows it  *)
(* has locked.                                                             *)

\* createOrder always books one unit.
OrderQuantity == 1

Owned(row, m) == row.row = "live" /\ row.merchant = m

CanOrder(row) ==
  /\ CanTransitionProduct(row.status, "LOCKED")
  /\ row.stock - row.reserved >= OrderQuantity

Ordered(row, o) ==
  [row EXCEPT !.status = "LOCKED", !.reserved = @ + OrderQuantity, !.active = o]

CanFinish(row, ord, o, to) ==
  /\ CanTransitionOrder(ord.status, to)
  /\ row.status = "LOCKED" /\ row.active = o
  /\ row.reserved >= OrderQuantity /\ row.stock >= OrderQuantity

\* A defect: the unit that was sold stays in stock.
CompletedKeepingStock(row) ==
  [row EXCEPT !.reserved = @ - OrderQuantity, !.active = None,
              !.status = IF row.stock = OrderQuantity THEN "SOLD" ELSE "ON_SHELF"]

Completed(row) ==
  [row EXCEPT !.stock = @ - OrderQuantity, !.reserved = @ - OrderQuantity, !.active = None,
              !.status = IF row.stock = OrderQuantity THEN "SOLD" ELSE "ON_SHELF"]

\* A defect: a closed order leaves its reservation on the product.
ClosedKeepingReservation(row) == [row EXCEPT !.status = "OFF_SHELF", !.active = None]

Closed(row) ==
  [row EXCEPT !.reserved = @ - OrderQuantity, !.status = "OFF_SHELF", !.active = None]

Finished(row, to) == IF to = "COMPLETED" THEN Completed(row) ELSE Closed(row)

CanShelve(row, to) ==
  /\ CanTransitionProduct(row.status, to)
  /\ to = "ON_SHELF" => row.stock - row.reserved > 0 /\ row.active = None

AdjustmentTypes == {"INCREASE", "DECREASE", "MARK_SOLD"}

\* The quantity that is applied: "all remaining" stands for the whole stock.
AppliedQuantity(row, qty, all) == IF all THEN row.stock ELSE qty

\* A defect: nobody compares the quantity with the stock.
CanAdjustUnbounded(row, type, qty, all) ==
  /\ row.status # "LOCKED" /\ row.active = None
  /\ all => type = "MARK_SOLD"
  /\ all \/ qty > 0
  /\ \/ type = "INCREASE"
     \/ type = "DECREASE" /\ row.status # "SOLD"
     \/ type = "MARK_SOLD" /\ row.status \in {"ON_SHELF", "OFF_SHELF"} /\ row.stock > 0

CanAdjust(row, type, qty, all) ==
  /\ row.status # "LOCKED" /\ row.active = None
  /\ all => type = "MARK_SOLD"
  /\ all \/ qty > 0
  /\ \/ type = "INCREASE"
     \/ type = "DECREASE" /\ row.status # "SOLD" /\ qty <= row.stock
     \/ /\ type = "MARK_SOLD" /\ row.status \in {"ON_SHELF", "OFF_SHELF"}
        /\ row.stock > 0 /\ row.reserved = 0
        /\ AppliedQuantity(row, qty, all) <= row.stock

StockAfter(row, type, qty, all) ==
  IF type = "INCREASE" THEN row.stock + qty ELSE row.stock - AppliedQuantity(row, qty, all)

\* A defect: a decrease that empties a product on the shelf leaves it there.
StatusAfterIgnoringDecrease(status, type, left) ==
  CASE status = "SOLD" -> "OFF_SHELF"
    [] type = "MARK_SOLD" /\ left = 0 -> "SOLD"
    [] OTHER -> status

\* A defect: restocking a sold out product puts it straight back on the shelf.
StatusAfterSellingAgain(status, type, left) ==
  CASE status = "SOLD" -> "ON_SHELF"
    [] type = "MARK_SOLD" /\ left = 0 -> "SOLD"
    [] type = "DECREASE" /\ left = 0 /\ status = "ON_SHELF" -> "OFF_SHELF"
    [] OTHER -> status

StatusAfter(status, type, left) ==
  CASE status = "SOLD" -> "OFF_SHELF"
    [] type = "MARK_SOLD" /\ left = 0 -> "SOLD"
    [] type = "DECREASE" /\ left = 0 /\ status = "ON_SHELF" -> "OFF_SHELF"
    [] OTHER -> status

Adjusted(row, type, qty, all) ==
  LET left == StockAfter(row, type, qty, all)
  IN [row EXCEPT !.stock = left, !.status = StatusAfter(row.status, type, left)]

\* A defect: a deletion that forgets to look for purchase intents.
CanDeleteIgnoringIntents(row, hasOrders, hasIntents) ==
  row.status \in {"DRAFT", "OFF_SHELF"} /\ row.active = None /\ ~hasOrders

CanDelete(row, hasOrders, hasIntents) ==
  row.status \in {"DRAFT", "OFF_SHELF"} /\ row.active = None /\ ~hasOrders /\ ~hasIntents

-----------------------------------------------------------------------------
Init ==
  /\ product = [p \in Products |-> AbsentProduct]
  /\ order = [o \in Orders |-> AbsentOrder]
  /\ intent = [i \in Intents |-> AbsentIntent]
  /\ supplied = [p \in Products |-> 0]

CreateProduct(m, p, stock) ==
  /\ product[p].row = "absent" /\ stock > 0
  /\ product' = [product EXCEPT ![p] =
                   [AbsentProduct EXCEPT !.row = "live", !.merchant = m, !.stock = stock]]
  /\ supplied' = [supplied EXCEPT ![p] = stock]
  /\ UNCHANGED <<order, intent>>

\* Only the stock matters here: the other fields of an edit change no column of this module.
UpdateProduct(m, p, stock) ==
  /\ Owned(product[p], m) /\ StockEditable(product[p].status) /\ stock > 0
  /\ product' = [product EXCEPT ![p].stock = stock]
  /\ supplied' = [supplied EXCEPT ![p] = @ + stock - product[p].stock]
  /\ UNCHANGED <<order, intent>>

DeleteProduct(m, p) ==
  /\ Owned(product[p], m)
  /\ CanDelete(product[p], OrdersOf(p) # {}, IntentsOf(p) # {})
  /\ product' = [product EXCEPT ![p].row = "deleted"]
  /\ UNCHANGED <<order, intent, supplied>>

ChangeShelf(m, p, to) ==
  /\ Owned(product[p], m) /\ CanShelve(product[p], to)
  /\ product' = [product EXCEPT ![p].status = to]
  /\ UNCHANGED <<order, intent, supplied>>

AdjustStock(m, p, type, qty, all) ==
  /\ Owned(product[p], m) /\ CanAdjust(product[p], type, qty, all)
  /\ type = "INCREASE" => product[p].stock + qty <= MaxStock
  /\ LET adjusted == Adjusted(product[p], type, qty, all)
     IN /\ product' = [product EXCEPT ![p] = adjusted]
        /\ supplied' = [supplied EXCEPT ![p] = @ + adjusted.stock - product[p].stock]
  /\ UNCHANGED <<order, intent>>

CreateOrder(m, p, o) ==
  /\ Owned(product[p], m) /\ CanOrder(product[p])
  /\ order[o].status = "absent"
  /\ order' = [order EXCEPT ![o] = [status |-> "CREATED", product |-> p, merchant |-> m]]
  /\ product' = [product EXCEPT ![p] = Ordered(@, o)]
  /\ UNCHANGED <<intent, supplied>>

\* transitionOrder. Finding the order already in the target status is the idempotent
\* answer, which writes nothing.
FinishOrder(m, o, to) ==
  LET p == order[o].product
  IN /\ order[o].status # "absent" /\ order[o].merchant = m
     /\ Owned(product[p], m) /\ CanFinish(product[p], order[o], o, to)
     /\ order' = [order EXCEPT ![o].status = to]
     /\ product' = [product EXCEPT ![p] = Finished(@, to)]
     /\ UNCHANGED <<intent, supplied>>

-----------------------------------------------------------------------------
\* A defect: only intents nobody has answered yet count as open.
HasNewIntent(b, p) ==
  \E i \in Intents : intent[i].buyer = b /\ intent[i].product = p /\ intent[i].status = "NEW"

HasOpenIntent(b, p) ==
  \E i \in Intents : intent[i].buyer = b /\ intent[i].product = p /\ intent[i].open

CreateIntent(b, p, i) ==
  /\ product[p].row = "live" /\ product[p].status = "ON_SHELF"
  /\ ~HasOpenIntent(b, p)
  /\ intent[i].status = "absent"
  /\ intent' = [intent EXCEPT ![i] = [status |-> "NEW", open |-> TRUE, buyer |-> b,
                                      product |-> p, merchant |-> product[p].merchant]]
  /\ UNCHANGED <<product, order, supplied>>

\* A defect: marking an intent contacted does not look at whether it was closed.
CanContactLax(row) == row.status \in {"NEW", "CLOSED"}

CanContact(row) == row.status = "NEW" /\ row.open

ContactIntent(m, i) ==
  /\ intent[i].merchant = m /\ CanContact(intent[i])
  /\ intent' = [intent EXCEPT ![i].status = "CONTACTED"]
  /\ UNCHANGED <<product, order, supplied>>

CanCloseIntent(row) == row.status \in {"NEW", "CONTACTED"} /\ row.open

CloseIntent(m, i) ==
  /\ intent[i].merchant = m /\ CanCloseIntent(intent[i])
  /\ intent' = [intent EXCEPT ![i].status = "CLOSED", ![i].open = FALSE]
  /\ UNCHANGED <<product, order, supplied>>

-----------------------------------------------------------------------------
ProductStep(m, p) ==
  \/ \E stock \in 1..MaxStock : CreateProduct(m, p, stock)
  \/ \E stock \in 1..MaxStock : UpdateProduct(m, p, stock)
  \/ DeleteProduct(m, p)
  \/ \E to \in {"ON_SHELF", "OFF_SHELF"} : ChangeShelf(m, p, to)
  \/ \E type \in AdjustmentTypes, qty \in 0..MaxStock, all \in BOOLEAN :
       AdjustStock(m, p, type, qty, all)
  \/ \E o \in Orders : CreateOrder(m, p, o)

Next ==
  \/ \E m \in Merchants, p \in Products : ProductStep(m, p)
  \/ \E m \in Merchants, o \in Orders, to \in {"COMPLETED", "CLOSED"} : FinishOrder(m, o, to)
  \/ \E b \in Buyers, p \in Products, i \in Intents : CreateIntent(b, p, i)
  \/ \E m \in Merchants, i \in Intents : ContactIntent(m, i)
  \/ \E m \in Merchants, i \in Intents : CloseIntent(m, i)

Spec == Init /\ [][Next]_vars

-----------------------------------------------------------------------------
(* Properties. *)

TypeOK ==
  /\ product \in [Products -> ProductRow]
  /\ order \in [Orders -> OrderRow]
  /\ intent \in [Intents -> IntentRow]
  /\ supplied \in [Products -> Int]

\* A product is LOCKED exactly while one order on it is unfinished: active_order_id names
\* that order, no other order on the product is unfinished, and what is reserved is what
\* that order booked (transitionOrder, createOrder).
ActiveOrderExact ==
  \A p \in Products :
    /\ product[p].status = "LOCKED" <=> product[p].active # None
    /\ \A o \in Orders :
         product[p].active = o <=> order[o].status = "CREATED" /\ order[o].product = p
    /\ product[p].reserved = IF product[p].active = None THEN 0 ELSE OrderQuantity

\* A product on the shelf can be sold, a sold out product has nothing left, and what is
\* reserved is in stock, whatever mix of orders, adjustments and edits led there
\* (calculateStockAdjustment, transitionOrder, checkProductReadyForOnShelf).
StatusMatchesStock ==
  \A p \in Products :
    /\ product[p].status = "ON_SHELF" => product[p].stock > product[p].reserved
    /\ product[p].status = "SOLD" => product[p].stock = 0
    /\ product[p].reserved <= product[p].stock

\* No unit appears or vanishes: the stock is what creation, edits and adjustment
\* movements brought in, less one unit per completed order (adjustStock, transitionOrder).
StockConserved ==
  \A p \in Products :
    product[p].stock = supplied[p] - OrderQuantity * Cardinality(CompletedOf(p))

\* An order or an intent always names a live product: deleting a product leaves none behind,
\* whatever was created and finished before, and none appears later (handleDeleteProduct,
\* createOrder, createBuyerIntent).
ReferencesLive ==
  /\ \A p \in Products : product[p].row # "live" => OrdersOf(p) = {} /\ IntentsOf(p) = {}
  /\ \A o \in Orders : order[o].status = "absent" <=> order[o].product = None

\* A buyer has at most one open intent for a product, and is_open always agrees with the
\* status, so validateBuyerIntentState never fails (createBuyerIntent, the intent handlers).
OneOpenIntent ==
  /\ \A i \in Intents : intent[i].open <=> intent[i].status \in {"NEW", "CONTACTED"}
  /\ \A i, j \in Intents :
       /\ intent[i].open /\ intent[j].open
       /\ intent[i].buyer = intent[j].buyer /\ intent[i].product = intent[j].product
       => i = j

\* A finished order and a closed intent are never touched again (transitionOrder,
\* handleMerchantIntentContacted).
FinishedStaysFinished ==
  [][ /\ \A o \in Orders : order[o].status \in {"COMPLETED", "CLOSED"} => order'[o] = order[o]
      /\ \A i \in Intents : intent[i].status = "CLOSED" => intent'[i] = intent[i] ]_vars

\* A sold out product comes back only by being restocked, and then off the shelf: the
\* merchant has to put it on the shelf again (calculateStockAdjustment).
RestockDoesNotSell ==
  [][ \A p \in Products :
        product[p].status = "SOLD" /\ product'[p] # product[p] =>
          product'[p].status = "OFF_SHELF" /\ product'[p].stock > 0 ]_vars

=============================================================================
