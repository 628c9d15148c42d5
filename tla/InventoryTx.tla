----------------------------- MODULE InventoryTx -----------------------------
(***************************************************************************)
(* The handlers of Inventory as the database runs them: several requests   *)
(* at a time, each a transaction that reads its rows one after the other   *)
(* with SELECT ... FOR UPDATE, decides on what it read, and writes when it *)
(* commits. Inventory treats each of them as one atomic step; here that is *)
(* a property, Serializable, checked by refinement.                        *)
(*                                                                         *)
(* A transaction's writes stay invisible until it commits, so the tables   *)
(* hold committed rows only. An error, a lost connection or a crash of the *)
(* process rolls the transaction back (Abort).                             *)
(***************************************************************************)
EXTENDS Integers, Sequences, FiniteSets

CONSTANTS
  Merchants, Products, Orders, Buyers, Intents, None, MaxStock,
  Workers     \* the requests the server handles at the same time

VARIABLES
  product, order, intent, supplied,  \* the committed tables, as in Inventory
  tx,    \* per worker, the transaction it runs
  lock   \* per row, the worker whose transaction has locked it

Atomic == INSTANCE Inventory

ASSUME InventoryTxAssumption ==
  /\ IsFiniteSet(Orders) /\ MaxStock \in Nat
  /\ None \notin Merchants \cup Products \cup Orders \cup Buyers \cup Intents \cup Workers
  /\ None \notin Atomic!ProductRow \cup Atomic!OrderRow \cup Atomic!IntentRow
  /\ Products \cap (Orders \cup Intents) = {} /\ Orders \cap Intents = {}

tables == <<product, order, intent, supplied>>
vars   == <<product, order, intent, supplied, tx, lock>>

Rows == Products \cup Orders \cup Intents

NothingRead == [product |-> None, order |-> None, intent |-> None,
                orders |-> FALSE, intents |-> FALSE, open |-> FALSE]

Idle == [kind |-> "idle", actor |-> None, id |-> None, to |-> "",
         todo |-> <<>>, read |-> NothingRead]

\* A defect: answering an intent locks the product of the intent as well.
StepsLockingIntentFirst(kind) ==
  CASE kind = "delete" -> <<"product", "orders", "intents">>
    [] kind = "finish" -> <<"order", "product">>
    [] kind = "intent" -> <<"product", "open">>
    [] kind \in {"contact", "close"} -> <<"intent", "product">>
    [] OTHER -> <<"product">>

\* What a handler reads, in this order, before it writes.
Steps(kind) ==
  CASE kind = "delete" -> <<"product", "orders", "intents">>
    [] kind = "finish" -> <<"order", "product">>
    [] kind = "intent" -> <<"product", "open">>
    [] kind \in {"contact", "close"} -> <<"intent">>
    [] OTHER -> <<"product">>

-----------------------------------------------------------------------------
(* What the transaction of worker w is about. *)

ProductOf(w) ==
  CASE tx[w].id \in Products -> tx[w].id
    [] tx[w].id \in Orders   -> tx[w].read.order.product
    [] tx[w].id \in Intents  -> tx[w].read.intent.product

OpenIntents(w) ==
  {i \in Intents : /\ intent[i].buyer = tx[w].actor /\ intent[i].product = tx[w].id
                   /\ intent[i].open}

\* A defect: the look at the product before the transaction is trusted.
TakenOnTrust(row) == TRUE

OpenToIntents(row) == row.status = "ON_SHELF"

ProductPasses(t) ==
  LET row == t.read.product
  IN /\ row.row = "live"
     /\ t.kind \in {"intent", "contact", "close"} \/ row.merchant = t.actor
     /\ t.kind = "edit"   => Atomic!StockEditable(row.status)
     /\ t.kind = "delete" => Atomic!CanDelete(row, FALSE, FALSE)
     /\ t.kind = "shelve" => row.status = t.to \/ Atomic!CanShelve(row, t.to)
     /\ t.kind = "adjust" => row.status # "LOCKED" /\ row.active = None
     /\ t.kind = "order"  => Atomic!CanOrder(row)
     /\ t.kind = "finish" /\ t.read.order.status # t.to =>
          Atomic!CanFinish(row, t.read.order, t.id, t.to)
     /\ t.kind = "intent" => OpenToIntents(row)

OrderPasses(t) ==
  /\ t.read.order.merchant = t.actor
  /\ t.read.order.status = t.to \/ Atomic!CanTransitionOrder(t.read.order.status, t.to)

IntentPasses(t) ==
  /\ t.read.intent.merchant = t.actor
  /\ IF t.kind = "contact" THEN t.read.intent.status \in {"NEW", "CONTACTED"} ELSE TRUE

\* One of the checks on what the transaction has read so far fails.
Refused(w) ==
  LET t == tx[w]
  IN \/ t.read.product # None /\ ~ProductPasses(t)
     \/ t.read.order # None /\ ~OrderPasses(t)
     \/ t.read.intent # None /\ ~IntentPasses(t)
     \/ t.read.orders \/ t.read.intents \/ t.read.open

-----------------------------------------------------------------------------
Init ==
  /\ Atomic!Init
  /\ tx = [w \in Workers |-> Idle]
  /\ lock = [r \in Rows |-> None]

\* The insert of a product locks no row anybody could ask for.
CreateProduct(m, p, stock) ==
  Atomic!CreateProduct(m, p, stock) /\ UNCHANGED <<tx, lock>>

Start(w, kind, a, id, to) ==
  /\ tx[w] = Idle
  /\ tx' = [tx EXCEPT ![w] = [kind |-> kind, actor |-> a, id |-> id, to |-> to,
                              todo |-> Steps(kind), read |-> NothingRead]]
  /\ UNCHANGED <<tables, lock>>

StartProduct(w, m, p) ==
  /\ product[p].row # "absent"
  /\ \/ \E kind \in {"edit", "delete", "adjust", "order"} : Start(w, kind, m, p, "")
     \/ \E to \in {"ON_SHELF", "OFF_SHELF"} : Start(w, "shelve", m, p, to)

StartFinish(w, m, o) ==
  /\ order[o].status # "absent"
  /\ \E to \in {"COMPLETED", "CLOSED"} : Start(w, "finish", m, o, to)

\* The handler looks at the product before the transaction, without a lock.
StartIntent(w, b, p) ==
  /\ product[p].row = "live" /\ product[p].status = "ON_SHELF"
  /\ Start(w, "intent", b, p, "")

StartAnswer(w, m, i) ==
  /\ intent[i].status # "absent"
  /\ \E kind \in {"contact", "close"} : Start(w, kind, m, i, "")

-----------------------------------------------------------------------------
(* The reads. *)

\* A defect: rows are read without FOR UPDATE.
AcquireNothing(w, rows) == UNCHANGED lock

\* SELECT ... FOR UPDATE waits until nobody else holds the rows.
Acquire(w, rows) ==
  /\ \A r \in rows : lock[r] \in {w, None}
  /\ lock' = [r \in Rows |-> IF r \in rows THEN w ELSE lock[r]]

Due(w, step) == tx[w].todo # <<>> /\ Head(tx[w].todo) = step /\ ~Refused(w)

LockProduct(w) ==
  /\ Due(w, "product") /\ Acquire(w, {ProductOf(w)})
  /\ tx' = [tx EXCEPT ![w].todo = Tail(@), ![w].read.product = product[ProductOf(w)]]
  /\ UNCHANGED tables

LockOrder(w) ==
  /\ Due(w, "order") /\ Acquire(w, {tx[w].id})
  /\ tx' = [tx EXCEPT ![w].todo = Tail(@), ![w].read.order = order[tx[w].id]]
  /\ UNCHANGED tables

LockIntent(w) ==
  /\ Due(w, "intent") /\ Acquire(w, {tx[w].id})
  /\ tx' = [tx EXCEPT ![w].todo = Tail(@), ![w].read.intent = intent[tx[w].id]]
  /\ UNCHANGED tables

FindOpenIntent(w) ==
  /\ Due(w, "open") /\ Acquire(w, OpenIntents(w))
  /\ tx' = [tx EXCEPT ![w].todo = Tail(@), ![w].read.open = (OpenIntents(w) # {})]
  /\ UNCHANGED tables

\* The two counts of a deletion take no lock.
CountOrders(w) ==
  /\ Due(w, "orders")
  /\ tx' = [tx EXCEPT ![w].todo = Tail(@),
                      ![w].read.orders = (Atomic!OrdersOf(tx[w].id) # {})]
  /\ UNCHANGED <<tables, lock>>

CountIntents(w) ==
  /\ Due(w, "intents")
  /\ tx' = [tx EXCEPT ![w].todo = Tail(@),
                      ![w].read.intents = (Atomic!IntentsOf(tx[w].id) # {})]
  /\ UNCHANGED <<tables, lock>>

-----------------------------------------------------------------------------
(* The end of a transaction. *)

\* Ending a transaction frees its rows.
End(w) ==
  /\ tx' = [tx EXCEPT ![w] = Idle]
  /\ lock' = [r \in Rows |-> IF lock[r] = w THEN None ELSE lock[r]]

Ready(w, kind) == tx[w].kind = kind /\ tx[w].todo = <<>> /\ ~Refused(w)

\* The row is written as a whole, from what the transaction read of it.
SaveProduct(w, new) ==
  /\ product' = [product EXCEPT ![ProductOf(w)] = new]
  /\ supplied' = [supplied EXCEPT ![ProductOf(w)] =
                    IF tx[w].kind \in {"edit", "adjust"}
                      THEN @ + new.stock - tx[w].read.product.stock ELSE @]

CommitEdit(w, stock) ==
  /\ Ready(w, "edit")
  /\ SaveProduct(w, [tx[w].read.product EXCEPT !.stock = stock])
  /\ UNCHANGED <<order, intent>> /\ End(w)

CommitDelete(w) ==
  /\ Ready(w, "delete")
  /\ SaveProduct(w, [product[tx[w].id] EXCEPT !.row = "deleted"])
  /\ UNCHANGED <<order, intent>> /\ End(w)

CommitShelve(w) ==
  /\ Ready(w, "shelve") /\ tx[w].read.product.status # tx[w].to
  /\ SaveProduct(w, [tx[w].read.product EXCEPT !.status = tx[w].to])
  /\ UNCHANGED <<order, intent>> /\ End(w)

CommitAdjust(w, type, qty, all) ==
  LET row == tx[w].read.product
  IN /\ Ready(w, "adjust") /\ Atomic!CanAdjust(row, type, qty, all)
     /\ type = "INCREASE" => row.stock + qty <= MaxStock
     /\ SaveProduct(w, Atomic!Adjusted(row, type, qty, all))
     /\ UNCHANGED <<order, intent>> /\ End(w)

CommitOrder(w, o) ==
  /\ Ready(w, "order") /\ order[o].status = "absent"
  /\ order' = [order EXCEPT ![o] = [status |-> "CREATED", product |-> tx[w].id,
                                    merchant |-> tx[w].actor]]
  /\ SaveProduct(w, Atomic!Ordered(tx[w].read.product, o))
  /\ UNCHANGED intent /\ End(w)

CommitFinish(w) ==
  /\ Ready(w, "finish") /\ tx[w].read.order.status # tx[w].to
  /\ order' = [order EXCEPT ![tx[w].id] = [tx[w].read.order EXCEPT !.status = tx[w].to]]
  /\ SaveProduct(w, Atomic!Finished(tx[w].read.product, tx[w].to))
  /\ UNCHANGED intent /\ End(w)

CommitIntent(w, i) ==
  /\ Ready(w, "intent") /\ intent[i].status = "absent"
  /\ intent' = [intent EXCEPT ![i] =
                  [status |-> "NEW", open |-> TRUE, buyer |-> tx[w].actor,
                   product |-> tx[w].id, merchant |-> tx[w].read.product.merchant]]
  /\ UNCHANGED <<product, order, supplied>> /\ End(w)

\* The answer writes the columns it changes, not the row.
CommitContact(w) ==
  /\ Ready(w, "contact") /\ tx[w].read.intent.status = "NEW"
  /\ intent' = [intent EXCEPT ![tx[w].id].status = "CONTACTED"]
  /\ UNCHANGED <<product, order, supplied>> /\ End(w)

CommitClose(w) ==
  /\ Ready(w, "close") /\ tx[w].read.intent.status # "CLOSED"
  /\ intent' = [intent EXCEPT ![tx[w].id].status = "CLOSED", ![tx[w].id].open = FALSE]
  /\ UNCHANGED <<product, order, supplied>> /\ End(w)

\* The row is already as asked for: the idempotent answer writes nothing.
AlreadyDone(w) ==
  LET t == tx[w]
  IN /\ t.kind \in {"shelve", "finish", "contact", "close"} /\ t.todo = <<>> /\ ~Refused(w)
     /\ CASE t.kind = "shelve"  -> t.read.product.status = t.to
          [] t.kind = "finish"  -> t.read.order.status = t.to
          [] t.kind = "contact" -> t.read.intent.status = "CONTACTED"
          [] t.kind = "close"   -> t.read.intent.status = "CLOSED"
     /\ UNCHANGED tables /\ End(w)

\* A bound of the instance, not of the code: no id is left to insert.
OutOfBounds(w) ==
  \/ Ready(w, "order")  /\ \A o \in Orders : order[o].status # "absent"
  \/ Ready(w, "intent") /\ \A i \in Intents : intent[i].status # "absent"

Reject(w) == tx[w] # Idle /\ (Refused(w) \/ OutOfBounds(w)) /\ UNCHANGED tables /\ End(w)

Abort(w) == tx[w] # Idle /\ UNCHANGED tables /\ End(w)

-----------------------------------------------------------------------------
Read(w) ==
  \/ LockProduct(w) \/ LockOrder(w) \/ LockIntent(w) \/ FindOpenIntent(w)
  \/ CountOrders(w) \/ CountIntents(w)

Commit(w) ==
  \/ \E stock \in 1..MaxStock : CommitEdit(w, stock)
  \/ CommitDelete(w)
  \/ CommitShelve(w)
  \/ \E type \in Atomic!AdjustmentTypes, qty \in 0..MaxStock, all \in BOOLEAN :
       CommitAdjust(w, type, qty, all)
  \/ \E o \in Orders : CommitOrder(w, o)
  \/ CommitFinish(w)
  \/ \E i \in Intents : CommitIntent(w, i)
  \/ CommitContact(w)
  \/ CommitClose(w)
  \/ AlreadyDone(w)

Next ==
  \/ \E m \in Merchants, p \in Products, stock \in 1..MaxStock : CreateProduct(m, p, stock)
  \/ \E w \in Workers, m \in Merchants, p \in Products : StartProduct(w, m, p)
  \/ \E w \in Workers, m \in Merchants, o \in Orders : StartFinish(w, m, o)
  \/ \E w \in Workers, b \in Buyers, p \in Products : StartIntent(w, b, p)
  \/ \E w \in Workers, m \in Merchants, i \in Intents : StartAnswer(w, m, i)
  \/ \E w \in Workers : Read(w) \/ Commit(w) \/ Reject(w) \/ Abort(w)

\* A handler goes on while it can, and InnoDB's lock queue gives every waiter its turn.
Fairness == \A w \in Workers : SF_vars(Read(w)) /\ WF_vars(Commit(w)) /\ WF_vars(Reject(w))

SafetySpec == Init /\ [][Next]_vars

Spec == SafetySpec /\ Fairness

-----------------------------------------------------------------------------
(* Properties. *)

\* Locks belong to running transactions, and a transaction that has read a row for update
\* still sees the committed row: nothing it decided on is stale when it writes
\* (loadOwnedProductForUpdate, loadOwnedOrderForUpdate, loadOwnedIntent).
ReadsStayCurrent ==
  \A w \in Workers :
    /\ tx[w].read.product # None => tx[w].read.product = product[ProductOf(w)]
    /\ tx[w].read.order # None => tx[w].read.order = order[tx[w].id]
    /\ tx[w].read.intent # None => tx[w].read.intent = intent[tx[w].id]
    /\ tx[w] = Idle => \A r \in Rows : lock[r] # w

\* Whatever the handlers overlap, the tables change as if each transaction ran alone, at the
\* moment it commits (every handler of Inventory).
Serializable == Atomic!Spec

\* Every transaction ends, although no handler times out: the order in which the handlers
\* lock orders, products and intents has no cycle.
EveryTransactionEnds == \A w \in Workers : tx[w] # Idle ~> tx[w] = Idle

=============================================================================
