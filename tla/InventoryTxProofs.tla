-------------------------- MODULE InventoryTxProofs --------------------------
(***************************************************************************)
(* What the locks of InventoryTx are worth, for every number of workers    *)
(* and rows: a transaction decides on rows nobody has changed since it     *)
(* read them, so overlapping transactions do what Inventory does one at a  *)
(* time, and whatever is proved of Inventory holds of them.                *)
(***************************************************************************)
EXTENDS InventoryTx, TLAPS

\* Inventory with what is proved of it.
Alone == INSTANCE InventoryProofs

-----------------------------------------------------------------------------
(* The inductive invariant: the invariant of Inventory, and what follows.  *)

PlainKinds == {"edit", "shelve", "adjust", "order"}

ProductKinds == PlainKinds \cup {"delete", "intent"}

AnswerKinds == {"contact", "close"}

Kinds == ProductKinds \cup AnswerKinds \cup {"finish"}

\* What is left of Steps(kind): all of it, a tail, or nothing.
PartOfTheWay(t) ==
  /\ t.kind \in PlainKinds => t.todo \in {<<"product">>, <<>>}
  /\ t.kind = "delete" => t.todo \in {<<"product", "orders", "intents">>, <<"orders", "intents">>,
                                      <<"intents">>, <<>>}
  /\ t.kind = "finish" => t.todo \in {<<"order", "product">>, <<"product">>, <<>>}
  /\ t.kind = "intent" => t.todo \in {<<"product", "open">>, <<"open">>, <<>>}
  /\ t.kind \in AnswerKinds => t.todo \in {<<"intent">>, <<>>}

Tails ==
  {<<>>, <<"product">>, <<"product", "orders", "intents">>, <<"orders", "intents">>, <<"intents">>,
   <<"order", "product">>, <<"product", "open">>, <<"open">>, <<"intent">>}

ReadRecord ==
  [product : Atomic!ProductRow \cup {None}, order : Atomic!OrderRow \cup {None},
   intent : Atomic!IntentRow \cup {None}, orders : BOOLEAN, intents : BOOLEAN, open : BOOLEAN]

Transaction ==
  [kind : Kinds, actor : Merchants \cup Buyers, id : Rows,
   to : {"", "ON_SHELF", "OFF_SHELF", "COMPLETED", "CLOSED"},
   todo : Tails, read : ReadRecord]

\* A transaction is about a row of its kind, and has read what its steps so far were to read.
OnCourse(t) ==
  /\ t \in Transaction /\ PartOfTheWay(t)
  /\ t.kind = "shelve" => t.to \in {"ON_SHELF", "OFF_SHELF"}
  /\ t.kind = "finish" => t.to \in {"COMPLETED", "CLOSED"}
  /\ t.kind = "intent" => t.actor \in Buyers
  /\ t.kind # "intent" => t.actor \in Merchants
  /\ t.kind \in ProductKinds => t.id \in Products
  /\ t.kind = "finish" => t.id \in Orders
  /\ t.kind \in AnswerKinds => t.id \in Intents
  /\ t.read.product # None <=>
       /\ t.kind \in ProductKinds \cup {"finish"}
       /\ t.todo \in {<<"orders", "intents">>, <<"intents">>, <<"open">>, <<>>}
  /\ t.read.order # None <=> t.kind = "finish" /\ t.todo \in {<<"product">>, <<>>}
  /\ t.read.intent # None <=> t.kind \in AnswerKinds /\ t.todo = <<>>

\* What worker w has read is locked, exists and is still so; what it did not find is still
\* not there, because whoever would insert it has to lock the product first.
StillTrue(w) ==
  LET t == tx[w]
  IN /\ t.read.product # None =>
          /\ lock[ProductOf(w)] = w
          /\ t.read.product = product[ProductOf(w)] /\ t.read.product.row # "absent"
     /\ t.read.order # None => lock[t.id] = w /\ t.read.order = order[t.id]
     /\ t.read.intent # None => lock[t.id] = w /\ t.read.intent = intent[t.id]
     /\ t.kind \in ProductKinds => product[t.id].row # "absent"
     /\ t.kind = "finish" => order[t.id].status # "absent"
     /\ t.kind \in AnswerKinds => intent[t.id].status # "absent"
     /\ t.kind = "delete" /\ t.todo \in {<<"intents">>, <<>>} /\ ~t.read.orders =>
          Atomic!OrdersOf(t.id) = {}
     /\ t.kind = "delete" /\ t.todo = <<>> /\ ~t.read.intents => Atomic!IntentsOf(t.id) = {}
     /\ t.kind = "intent" /\ t.todo = <<>> /\ ~t.read.open => OpenIntents(w) = {}

\* The state of a worker.
Sound(w) ==
  \/ tx[w] = Idle /\ \A r \in Rows : lock[r] # w
  \/ OnCourse(tx[w]) /\ StillTrue(w)

Locks == lock \in [Rows -> Workers \cup {None}]

TxTyped == tx \in [Workers -> Transaction \cup {Idle}]

IInv == Alone!IInv /\ Locks /\ TxTyped /\ \A w \in Workers : Sound(w)

-----------------------------------------------------------------------------
(* Inventory, instantiated twice. *)

\* The constants are as Inventory assumes them.
LEMMA AloneAssumption == Alone!InventoryAssumption
BY InventoryTxAssumption DEF Alone!InventoryAssumption, IsFiniteSet, Alone!IsFiniteSet

\* The module the transactions refine and the one with the proofs are the same.
LEMMA SameInit == Atomic!Init <=> Alone!Init
BY
  DEF Atomic!Init, Alone!Init, Atomic!AbsentProduct, Alone!AbsentProduct,
      Atomic!AbsentOrder, Alone!AbsentOrder, Atomic!AbsentIntent, Alone!AbsentIntent

LEMMA SameNext == [Atomic!Next]_(Atomic!vars) <=> [Alone!Next]_(Alone!vars)
BY
  DEF Atomic!ProductStatus, Alone!ProductStatus, Atomic!OrderStatus, Alone!OrderStatus,
      Atomic!IntentStatus, Alone!IntentStatus, Atomic!ProductRow, Alone!ProductRow,
      Atomic!OrderRow, Alone!OrderRow, Atomic!IntentRow, Alone!IntentRow,
      Atomic!AbsentProduct, Alone!AbsentProduct, Atomic!AbsentOrder, Alone!AbsentOrder,
      Atomic!AbsentIntent, Alone!AbsentIntent, Atomic!OrdersOf, Alone!OrdersOf,
      Atomic!IntentsOf, Alone!IntentsOf, Atomic!CanTransitionProduct,
      Alone!CanTransitionProduct, Atomic!CanTransitionOrder, Alone!CanTransitionOrder,
      Atomic!StockEditable, Alone!StockEditable, Atomic!OrderQuantity,
      Alone!OrderQuantity, Atomic!Owned, Alone!Owned, Atomic!CanOrder, Alone!CanOrder,
      Atomic!Ordered, Alone!Ordered, Atomic!CanFinish, Alone!CanFinish, Atomic!Completed,
      Alone!Completed, Atomic!Closed, Alone!Closed, Atomic!Finished, Alone!Finished,
      Atomic!CanShelve, Alone!CanShelve, Atomic!AdjustmentTypes, Alone!AdjustmentTypes,
      Atomic!AppliedQuantity, Alone!AppliedQuantity, Atomic!CanAdjust, Alone!CanAdjust,
      Atomic!StockAfter, Alone!StockAfter, Atomic!StatusAfter, Alone!StatusAfter,
      Atomic!Adjusted, Alone!Adjusted, Atomic!CanDelete, Alone!CanDelete,
      Atomic!CreateProduct, Alone!CreateProduct, Atomic!UpdateProduct,
      Alone!UpdateProduct, Atomic!DeleteProduct, Alone!DeleteProduct, Atomic!ChangeShelf,
      Alone!ChangeShelf, Atomic!AdjustStock, Alone!AdjustStock, Atomic!CreateOrder,
      Alone!CreateOrder, Atomic!FinishOrder, Alone!FinishOrder, Atomic!HasOpenIntent,
      Alone!HasOpenIntent, Atomic!CreateIntent, Alone!CreateIntent, Atomic!CanContact,
      Alone!CanContact, Atomic!ContactIntent, Alone!ContactIntent, Atomic!CanCloseIntent,
      Alone!CanCloseIntent, Atomic!CloseIntent, Alone!CloseIntent, Atomic!ProductStep,
      Alone!ProductStep, Atomic!Next, Alone!Next, Atomic!vars, Alone!vars

\* What the proofs below use of Inventory's invariant: types, no dangling reference, open
\* intents.
LEMMA TablesFacts ==
  ASSUME Alone!IInv
  PROVE  Atomic!TypeOK /\ Atomic!ReferencesLive /\ Atomic!OneOpenIntent
BY
  DEF Alone!IInv, Atomic!TypeOK, Alone!TypeOK, Atomic!ReferencesLive, Alone!ReferencesLive,
      Atomic!OneOpenIntent, Alone!OneOpenIntent, Atomic!OrdersOf, Alone!OrdersOf,
      Atomic!IntentsOf, Alone!IntentsOf, Atomic!ProductRow, Alone!ProductRow,
      Atomic!OrderRow, Alone!OrderRow, Atomic!IntentRow, Alone!IntentRow,
      Atomic!ProductStatus, Alone!ProductStatus, Atomic!OrderStatus, Alone!OrderStatus,
      Atomic!IntentStatus, Alone!IntentStatus

-----------------------------------------------------------------------------
(* A transaction and its rows. *)

\* Where a transaction has got to is one place.
LEMMA TailsDiffer ==
  /\ <<"orders", "intents">> # <<>> /\ <<"intents">> # <<>> /\ <<"open">> # <<>>
  /\ <<"orders", "intents">> # <<"intents">> /\ <<"orders", "intents">> # <<"open">>
  /\ <<"intent">> # <<>>
  /\ \A s \in {<<"product">>, <<"product", "orders", "intents">>, <<"order", "product">>,
                <<"product", "open">>} :
       s \notin {<<"orders", "intents">>, <<"intents">>, <<"open">>, <<>>}
  /\ <<"order", "product">> \notin {<<"product">>, <<>>}
OBVIOUS

\* The next step of a transaction, and what is left after it.
LEMMA NextStep ==
  ASSUME NEW t, OnCourse(t), t.todo # <<>>
  PROVE  \/ /\ t.kind \in PlainKinds /\ t.todo = <<"product">>
            /\ Head(t.todo) = "product" /\ Tail(t.todo) = <<>>
         \/ /\ t.kind = "delete" /\ t.todo = <<"product", "orders", "intents">>
            /\ Head(t.todo) = "product" /\ Tail(t.todo) = <<"orders", "intents">>
         \/ /\ t.kind = "delete" /\ t.todo = <<"orders", "intents">>
            /\ Head(t.todo) = "orders" /\ Tail(t.todo) = <<"intents">>
         \/ /\ t.kind = "delete" /\ t.todo = <<"intents">>
            /\ Head(t.todo) = "intents" /\ Tail(t.todo) = <<>>
         \/ /\ t.kind = "finish" /\ t.todo = <<"order", "product">>
            /\ Head(t.todo) = "order" /\ Tail(t.todo) = <<"product">>
         \/ /\ t.kind = "finish" /\ t.todo = <<"product">>
            /\ Head(t.todo) = "product" /\ Tail(t.todo) = <<>>
         \/ /\ t.kind = "intent" /\ t.todo = <<"product", "open">>
            /\ Head(t.todo) = "product" /\ Tail(t.todo) = <<"open">>
         \/ t.kind = "intent" /\ t.todo = <<"open">> /\ Head(t.todo) = "open" /\ Tail(t.todo) = <<>>
         \/ /\ t.kind \in AnswerKinds /\ t.todo = <<"intent">>
            /\ Head(t.todo) = "intent" /\ Tail(t.todo) = <<>>
<1>1. t.kind \in Kinds /\ PartOfTheWay(t)
  BY DEF OnCourse, Transaction
<1>2. CASE t.kind \in PlainKinds
  <2>1. t.todo = <<"product">>
    BY <1>1, <1>2 DEF PartOfTheWay
  <2>2. QED
    BY <1>2, <2>1
<1>3. CASE t.kind = "delete"
  <2>1. t.todo \in {<<"product", "orders", "intents">>, <<"orders", "intents">>, <<"intents">>}
    BY <1>1, <1>3 DEF PartOfTheWay, PlainKinds
  <2>2. CASE t.todo = <<"product", "orders", "intents">>
    BY <1>3, <2>2
  <2>3. CASE t.todo = <<"orders", "intents">>
    BY <1>3, <2>3
  <2>4. CASE t.todo = <<"intents">>
    BY <1>3, <2>4
  <2>5. QED
    BY <2>1, <2>2, <2>3, <2>4
<1>4. CASE t.kind = "finish"
  <2>1. t.todo \in {<<"order", "product">>, <<"product">>}
    BY <1>1, <1>4 DEF PartOfTheWay, PlainKinds
  <2>2. CASE t.todo = <<"order", "product">>
    BY <1>4, <2>2
  <2>3. CASE t.todo = <<"product">>
    BY <1>4, <2>3
  <2>4. QED
    BY <2>1, <2>2, <2>3
<1>5. CASE t.kind = "intent"
  <2>1. t.todo \in {<<"product", "open">>, <<"open">>}
    BY <1>1, <1>5 DEF PartOfTheWay, PlainKinds
  <2>2. CASE t.todo = <<"product", "open">>
    BY <1>5, <2>2
  <2>3. CASE t.todo = <<"open">>
    BY <1>5, <2>3
  <2>4. QED
    BY <2>1, <2>2, <2>3
<1>6. CASE t.kind \in AnswerKinds
  <2>1. t.todo = <<"intent">>
    BY <1>1, <1>6 DEF PartOfTheWay, PlainKinds, AnswerKinds
  <2>2. QED
    BY <1>6, <2>1
<1>7. QED
  BY <1>1, <1>2, <1>3, <1>4, <1>5, <1>6 DEF Kinds, ProductKinds

\* An id is of one table only, so the product of a transaction is the one it names or the one
\* of the order or intent it has read.
LEMMA ProductOfFacts ==
  ASSUME NEW w \in Workers
  PROVE  /\ tx[w].id \in Products => ProductOf(w) = tx[w].id
         /\ tx[w].id \in Orders => ProductOf(w) = tx[w].read.order.product
BY InventoryTxAssumption DEF ProductOf

\* The product a transaction is about to lock, or has locked, is in the table.
LEMMA ProductIsThere ==
  ASSUME Atomic!TypeOK, Atomic!ReferencesLive, NEW w \in Workers, OnCourse(tx[w]), StillTrue(w),
         \/ tx[w].kind \in ProductKinds
         \/ tx[w].kind = "finish" /\ tx[w].read.order # None
  PROVE  /\ ProductOf(w) \in Products /\ product[ProductOf(w)].row # "absent"
         /\ tx[w].kind \in ProductKinds => ProductOf(w) = tx[w].id /\ tx[w].id \in Products
         /\ tx[w].kind = "finish" => /\ ProductOf(w) = order[tx[w].id].product
                                     /\ tx[w].id \in Orders
                                     /\ product[ProductOf(w)].row = "live"
<1>1. CASE tx[w].kind \in ProductKinds
  <2>1. tx[w].id \in Products /\ tx[w].kind # "finish"
    BY <1>1 DEF OnCourse, ProductKinds, PlainKinds
  <2>2. QED
    BY <1>1, <2>1, ProductOfFacts DEF StillTrue
<1>2. CASE tx[w].kind = "finish" /\ tx[w].read.order # None
  <2>1. tx[w].id \in Orders /\ tx[w].kind \notin ProductKinds
    BY <1>2 DEF OnCourse, ProductKinds, PlainKinds
  <2>2. ProductOf(w) = order[tx[w].id].product /\ order[tx[w].id].status # "absent"
    BY <1>2, <2>1, ProductOfFacts DEF StillTrue
  <2>3. order[tx[w].id].product \in Products
    BY <2>1, <2>2 DEF Atomic!TypeOK, Atomic!ReferencesLive, Atomic!OrderRow
  <2>4. product[ProductOf(w)].row = "live"
    BY <2>1, <2>2, <2>3 DEF Atomic!ReferencesLive, Atomic!OrdersOf
  <2>5. QED
    BY <2>1, <2>2, <2>3, <2>4
<1>3. QED
  BY <1>1, <1>2

-----------------------------------------------------------------------------
(* What others do. *)

\* Nobody writes what worker v has locked, removes a row, or inserts an order or an intent, or
\* opens one, for a product v has locked.
Untouched(v) ==
  /\ \A p \in Products :
       product[p].row # "absent" =>
         product'[p].row # "absent" /\ (lock[p] = v => product'[p] = product[p])
  /\ \A o \in Orders :
       /\ order[o].status # "absent" =>
            order'[o].status # "absent" /\ (lock[o] = v => order'[o] = order[o])
       /\ order'[o].product = order[o].product \/ lock[order'[o].product] # v
  /\ \A i \in Intents :
       /\ intent[i].status # "absent" =>
            intent'[i].status # "absent" /\ (lock[i] = v => intent'[i] = intent[i])
       /\ \/ /\ intent'[i].product = intent[i].product /\ intent'[i].buyer = intent[i].buyer
             /\ intent'[i].open => intent[i].open
          \/ lock[intent'[i].product] # v

\* Then what v has read stays true.
LEMMA UntouchedStaysSound ==
  ASSUME Atomic!TypeOK, Atomic!ReferencesLive, NEW v \in Workers, Sound(v), Untouched(v),
         tx'[v] = tx[v], \A r \in Rows : lock'[r] = v <=> lock[r] = v
  PROVE  Sound(v)'
<1> DEFINE t == tx[v]
<1>1. CASE t = Idle /\ \A r \in Rows : lock[r] # v
  BY <1>1 DEF Sound
<1>2. CASE OnCourse(t) /\ StillTrue(v)
  <2>1. OnCourse(tx'[v]) /\ ProductOf(v)' = ProductOf(v)
    BY <1>2 DEF ProductOf
  <2>2. t.kind \in ProductKinds => t.id \in Products /\ ProductOf(v) = t.id
    BY <1>2, ProductIsThere
  <2>3. t.kind = "finish" => t.id \in Orders
    BY <1>2 DEF OnCourse, ProductKinds, PlainKinds, AnswerKinds
  <2>4. t.kind \in AnswerKinds => t.id \in Intents
    BY <1>2 DEF OnCourse, ProductKinds, PlainKinds, AnswerKinds
  <2>5. t.read.product # None => t.kind \in ProductKinds \/ (t.kind = "finish" /\ t.read.order # None)
    BY <1>2, NextStep DEF OnCourse
  <2>6. t.read.product # None => ProductOf(v) \in Products /\ ProductOf(v) \in Rows
    BY <1>2, <2>5, ProductIsThere DEF Rows
  <2>7. t.read.product # None =>
          lock'[ProductOf(v)] = v /\ t.read.product = product'[ProductOf(v)]
    BY <1>2, <2>6 DEF StillTrue, Untouched
  <2>8. t.read.order # None => lock'[t.id] = v /\ t.read.order = order'[t.id]
    BY <1>2, <2>3 DEF StillTrue, OnCourse, Untouched, Rows
  <2>9. t.read.intent # None => lock'[t.id] = v /\ t.read.intent = intent'[t.id]
    BY <1>2, <2>4 DEF StillTrue, OnCourse, Untouched, Rows
  <2>10. /\ t.kind \in ProductKinds => product'[t.id].row # "absent"
         /\ t.kind = "finish" => order'[t.id].status # "absent"
         /\ t.kind \in AnswerKinds => intent'[t.id].status # "absent"
    BY <1>2, <2>2, <2>3, <2>4 DEF StillTrue, Untouched
  <2>11. ASSUME t.kind \in ProductKinds,
                t.todo \in {<<"orders", "intents">>, <<"intents">>, <<"open">>, <<>>}
         PROVE  lock[t.id] = v
    BY <1>2, <2>2, <2>11 DEF StillTrue, OnCourse
  <2>12. t.kind = "delete" /\ t.todo \in {<<"intents">>, <<>>} /\ ~t.read.orders =>
           Atomic!OrdersOf(t.id)' = {}
    BY <1>2, <2>11 DEF StillTrue, Untouched, ProductKinds, Atomic!OrdersOf
  <2>13. t.kind = "delete" /\ t.todo = <<>> /\ ~t.read.intents => Atomic!IntentsOf(t.id)' = {}
    BY <1>2, <2>11 DEF StillTrue, Untouched, ProductKinds, Atomic!IntentsOf
  <2>14. t.kind = "intent" /\ t.todo = <<>> /\ ~t.read.open => OpenIntents(v)' = {}
    BY <1>2, <2>11 DEF StillTrue, Untouched, ProductKinds, OpenIntents
  <2>15. StillTrue(v)'
    BY <1>2, <2>1, <2>7, <2>8, <2>9, <2>10, <2>12, <2>13, <2>14
    DEF StillTrue, Atomic!OrdersOf, Atomic!IntentsOf
  <2>16. QED
    BY <2>1, <2>15 DEF Sound
<1>3. QED
  BY <1>1, <1>2 DEF Sound

\* The end of a transaction, however it ends, leaves everybody's state sound if it has touched
\* nothing of others.
LEMMA EndSound ==
  ASSUME IInv, NEW w \in Workers, End(w), \A v \in Workers \ {w} : Untouched(v)
  PROVE  Locks' /\ TxTyped' /\ \A v \in Workers : Sound(v)'
<1>1. Atomic!TypeOK /\ Atomic!ReferencesLive
  BY TablesFacts DEF IInv
<1>2. w # None /\ \A v \in Workers : v # None
  BY InventoryTxAssumption
<1>3. Locks' /\ TxTyped'
  BY <1>2 DEF IInv, Locks, TxTyped, End
<1>4. Sound(w)'
  BY <1>2 DEF IInv, TxTyped, Sound, End
<1>5. ASSUME NEW v \in Workers \ {w} PROVE Sound(v)'
  <2>1. tx'[v] = tx[v] /\ \A r \in Rows : lock'[r] = v <=> lock[r] = v
    BY <1>2, <1>5 DEF IInv, TxTyped, End
  <2>2. QED
    BY <1>1, <1>5, <2>1, UntouchedStaysSound DEF IInv
<1>6. QED
  BY <1>3, <1>4, <1>5

\* A step that only reads leaves everybody else's state sound.
LEMMA ReadSound ==
  ASSUME IInv, NEW w \in Workers, NEW new \in Transaction, tx' = [tx EXCEPT ![w] = new],
         NEW rows \in SUBSET Rows, Acquire(w, rows), UNCHANGED tables, Sound(w)'
  PROVE  Locks' /\ TxTyped' /\ \A v \in Workers : Sound(v)'
<1>1. Atomic!TypeOK /\ Atomic!ReferencesLive
  BY TablesFacts DEF IInv
<1>2. w # None /\ \A v \in Workers : v # None
  BY InventoryTxAssumption
<1>3. Locks' /\ TxTyped'
  BY DEF IInv, Locks, TxTyped, Acquire
<1>4. ASSUME NEW v \in Workers \ {w} PROVE Sound(v)'
  <2>1. tx'[v] = tx[v] /\ \A r \in Rows : lock'[r] = v <=> lock[r] = v
    BY <1>2, <1>4 DEF IInv, TxTyped, Acquire
  <2>2. Untouched(v)
    BY DEF tables, Untouched
  <2>3. QED
    BY <1>1, <1>4, <2>1, <2>2, UntouchedStaysSound DEF IInv
<1>5. QED
  BY <1>3, <1>4

-----------------------------------------------------------------------------
(* The reads. *)

\* A transaction that is due a step runs.
LEMMA DueRuns ==
  ASSUME IInv, NEW w \in Workers, NEW step, Due(w, step)
  PROVE  /\ tx[w] \in Transaction /\ OnCourse(tx[w]) /\ StillTrue(w)
         /\ tx[w].todo # <<>> /\ Head(tx[w].todo) = step /\ ~Refused(w)
<1>1. tx[w].todo # <<>> /\ Head(tx[w].todo) = step /\ ~Refused(w)
  BY DEF Due
<1>2. Idle.todo = <<>>
  BY DEF Idle
<1>3. OnCourse(tx[w]) /\ StillTrue(w)
  BY <1>1, <1>2 DEF IInv, Sound
<1>4. QED
  BY <1>1, <1>3 DEF OnCourse

\* SELECT ... FOR UPDATE of the product (loadOwnedProductForUpdate).
LEMMA LockProductSound ==
  ASSUME IInv, NEW w \in Workers, LockProduct(w)
  PROVE  Locks' /\ TxTyped' /\ \A v \in Workers : Sound(v)'
<1> DEFINE t == tx[w]
           p == ProductOf(w)
           new == [t EXCEPT !.todo = Tail(@), !.read.product = product[p]]
<1>1. /\ t \in Transaction /\ OnCourse(t) /\ StillTrue(w)
      /\ t.todo # <<>> /\ Head(t.todo) = "product" /\ ~Refused(w)
  BY DueRuns DEF LockProduct
<1>2. Atomic!TypeOK /\ Atomic!ReferencesLive /\ None \notin Atomic!ProductRow
  BY TablesFacts, InventoryTxAssumption DEF IInv
<1>3. \/ t.kind \in PlainKinds /\ t.todo = <<"product">> /\ Tail(t.todo) = <<>>
      \/ /\ t.kind = "delete" /\ t.todo = <<"product", "orders", "intents">>
         /\ Tail(t.todo) = <<"orders", "intents">>
      \/ t.kind = "finish" /\ t.todo = <<"product">> /\ Tail(t.todo) = <<>>
      \/ t.kind = "intent" /\ t.todo = <<"product", "open">> /\ Tail(t.todo) = <<"open">>
  BY <1>1, NextStep
<1>4. t.kind \in ProductKinds \/ (t.kind = "finish" /\ t.read.order # None)
  BY <1>1, <1>3 DEF OnCourse, ProductKinds
<1>5. p \in Products /\ p \in Rows /\ product[p].row # "absent"
  BY <1>1, <1>2, <1>4, ProductIsThere DEF Rows
<1>6. product[p] \in Atomic!ProductRow /\ product[p] # None
  BY <1>2, <1>5 DEF Atomic!TypeOK
<1>7. tx' = [tx EXCEPT ![w] = new] /\ Acquire(w, {p}) /\ UNCHANGED tables
  BY DEF LockProduct, IInv, TxTyped
<1>8. tx'[w] = new /\ lock'[p] = w /\ \A r \in Rows : lock[r] = w => lock'[r] = w
  BY <1>5, <1>7 DEF IInv, TxTyped, Acquire
<1>9. /\ new.kind = t.kind /\ new.actor = t.actor /\ new.id = t.id /\ new.to = t.to
      /\ new.todo = Tail(t.todo) /\ new.read = [t.read EXCEPT !.product = product[p]]
  BY <1>1 DEF Transaction
<1>10. /\ new.read.product = product[p] /\ new.read.order = t.read.order
       /\ new.read.intent = t.read.intent
  BY <1>1, <1>9 DEF Transaction, ReadRecord
<1>11. new \in Transaction
  <2>1. new.todo \in Tails
    BY <1>3, <1>9 DEF Tails
  <2>2. new.read \in ReadRecord
    BY <1>1, <1>6, <1>9 DEF Transaction, ReadRecord
  <2>3. QED
    BY <1>1, <2>1, <2>2, <1>9 DEF Transaction
<1> HIDE DEF new
<1>12. OnCourse(new)
  BY <1>1, <1>3, <1>6, <1>9, <1>10, <1>11
  DEF OnCourse, PartOfTheWay, ProductKinds, PlainKinds, AnswerKinds
<1>13. ProductOf(w)' = p
  BY <1>8, <1>9, <1>10, <1>1, <1>4, ProductOfFacts, InventoryTxAssumption
  DEF ProductOf, OnCourse, ProductKinds
<1>14. StillTrue(w)'
  <2>1. UNCHANGED <<product, order, intent>>
    BY <1>7 DEF tables
  <2>2. new.read.order # None => lock'[new.id] = w /\ new.read.order = order[new.id]
    BY <1>1, <1>8, <1>9, <1>10 DEF StillTrue, OnCourse, Rows
  <2>3. new.read.intent = None
    BY <1>1, <1>3, <1>10 DEF OnCourse
  <2>4. /\ new.kind \in ProductKinds => product[new.id].row # "absent"
        /\ new.kind = "finish" => order[new.id].status # "absent"
        /\ new.kind \notin AnswerKinds
    BY <1>1, <1>4, <1>9 DEF StillTrue, AnswerKinds, ProductKinds, PlainKinds
  <2>5. /\ new.kind = "delete" => new.todo \notin {<<"intents">>, <<>>}
        /\ new.kind = "intent" => new.todo # <<>>
    BY <1>3, <1>9, TailsDiffer DEF PlainKinds
  <2>6. QED
    BY <1>5, <1>8, <1>10, <1>13, <2>1, <2>2, <2>3, <2>4, <2>5 DEF StillTrue
<1>15. QED
  BY <1>5, <1>7, <1>8, <1>11, <1>12, <1>14, ReadSound DEF Sound

\* SELECT ... FOR UPDATE of the order (loadOwnedOrderForUpdate).
LEMMA LockOrderSound ==
  ASSUME IInv, NEW w \in Workers, LockOrder(w)
  PROVE  Locks' /\ TxTyped' /\ \A v \in Workers : Sound(v)'
<1> DEFINE t == tx[w]
           new == [t EXCEPT !.todo = Tail(@), !.read.order = order[t.id]]
<1>1. /\ t \in Transaction /\ OnCourse(t) /\ StillTrue(w)
      /\ t.todo # <<>> /\ Head(t.todo) = "order" /\ ~Refused(w)
  BY DueRuns DEF LockOrder
<1>2. Atomic!TypeOK /\ None \notin Atomic!OrderRow
  BY TablesFacts, InventoryTxAssumption DEF IInv
<1>3. t.kind = "finish" /\ t.todo = <<"order", "product">> /\ Tail(t.todo) = <<"product">>
  BY <1>1, NextStep
<1>4. t.id \in Orders /\ t.id \in Rows /\ t.read.product = None /\ t.read.intent = None
  BY <1>1, <1>3 DEF OnCourse, AnswerKinds, Rows
<1>5. order[t.id] \in Atomic!OrderRow /\ order[t.id] # None
  BY <1>2, <1>4 DEF Atomic!TypeOK
<1>6. tx' = [tx EXCEPT ![w] = new] /\ Acquire(w, {t.id}) /\ UNCHANGED tables
  BY DEF LockOrder, IInv, TxTyped
<1>7. tx'[w] = new /\ lock'[t.id] = w
  BY <1>4, <1>6 DEF IInv, TxTyped, Acquire
<1>8. /\ new.kind = t.kind /\ new.actor = t.actor /\ new.id = t.id /\ new.to = t.to
      /\ new.todo = Tail(t.todo) /\ new.read = [t.read EXCEPT !.order = order[t.id]]
  BY <1>1 DEF Transaction
<1>9. /\ new.read.order = order[t.id] /\ new.read.product = t.read.product
      /\ new.read.intent = t.read.intent
  BY <1>1, <1>8 DEF Transaction, ReadRecord
<1>10. new \in Transaction
  <2>1. new.todo \in Tails
    BY <1>3, <1>8 DEF Tails
  <2>2. new.read \in ReadRecord
    BY <1>1, <1>5, <1>8 DEF Transaction, ReadRecord
  <2>3. QED
    BY <1>1, <2>1, <2>2, <1>8 DEF Transaction
<1> HIDE DEF new
<1>11. OnCourse(new)
  BY <1>1, <1>3, <1>4, <1>5, <1>8, <1>9, <1>10
  DEF OnCourse, PartOfTheWay, ProductKinds, PlainKinds, AnswerKinds
<1>12. StillTrue(w)'
  <2>1. UNCHANGED <<product, order, intent>>
    BY <1>6 DEF tables
  <2>2. new.read.product = None /\ new.read.intent = None
    BY <1>4, <1>9
  <2>3. new.kind = "finish" /\ order[new.id].status # "absent"
    BY <1>1, <1>3, <1>8 DEF StillTrue
  <2>4. QED
    BY <1>7, <1>8, <1>9, <2>1, <2>2, <2>3 DEF StillTrue, ProductKinds, PlainKinds, AnswerKinds
<1>13. QED
  BY <1>4, <1>6, <1>7, <1>10, <1>11, <1>12, ReadSound DEF Sound

\* SELECT ... FOR UPDATE of the intent (loadOwnedIntent).
LEMMA LockIntentSound ==
  ASSUME IInv, NEW w \in Workers, LockIntent(w)
  PROVE  Locks' /\ TxTyped' /\ \A v \in Workers : Sound(v)'
<1> DEFINE t == tx[w]
           new == [t EXCEPT !.todo = Tail(@), !.read.intent = intent[t.id]]
<1>1. /\ t \in Transaction /\ OnCourse(t) /\ StillTrue(w)
      /\ t.todo # <<>> /\ Head(t.todo) = "intent" /\ ~Refused(w)
  BY DueRuns DEF LockIntent
<1>2. Atomic!TypeOK /\ None \notin Atomic!IntentRow
  BY TablesFacts, InventoryTxAssumption DEF IInv
<1>3. t.kind \in AnswerKinds /\ t.todo = <<"intent">> /\ Tail(t.todo) = <<>>
  BY <1>1, NextStep
<1>4. t.id \in Intents /\ t.id \in Rows /\ t.read.product = None /\ t.read.order = None
  BY <1>1, <1>3 DEF OnCourse, AnswerKinds, ProductKinds, PlainKinds, Rows
<1>5. intent[t.id] \in Atomic!IntentRow /\ intent[t.id] # None
  BY <1>2, <1>4 DEF Atomic!TypeOK
<1>6. tx' = [tx EXCEPT ![w] = new] /\ Acquire(w, {t.id}) /\ UNCHANGED tables
  BY DEF LockIntent, IInv, TxTyped
<1>7. tx'[w] = new /\ lock'[t.id] = w
  BY <1>4, <1>6 DEF IInv, TxTyped, Acquire
<1>8. /\ new.kind = t.kind /\ new.actor = t.actor /\ new.id = t.id /\ new.to = t.to
      /\ new.todo = Tail(t.todo) /\ new.read = [t.read EXCEPT !.intent = intent[t.id]]
  BY <1>1 DEF Transaction
<1>9. /\ new.read.intent = intent[t.id] /\ new.read.product = t.read.product
      /\ new.read.order = t.read.order
  BY <1>1, <1>8 DEF Transaction, ReadRecord
<1>10. new \in Transaction
  <2>1. new.todo \in Tails
    BY <1>3, <1>8 DEF Tails
  <2>2. new.read \in ReadRecord
    BY <1>1, <1>5, <1>8 DEF Transaction, ReadRecord
  <2>3. QED
    BY <1>1, <2>1, <2>2, <1>8 DEF Transaction
<1> HIDE DEF new
<1>11. OnCourse(new)
  BY <1>1, <1>3, <1>4, <1>5, <1>8, <1>9, <1>10
  DEF OnCourse, PartOfTheWay, ProductKinds, PlainKinds, AnswerKinds
<1>12. StillTrue(w)'
  <2>1. UNCHANGED <<product, order, intent>>
    BY <1>6 DEF tables
  <2>2. new.read.product = None /\ new.read.order = None
    BY <1>4, <1>9
  <2>3. new.kind \in AnswerKinds /\ intent[new.id].status # "absent"
    BY <1>1, <1>3, <1>8 DEF StillTrue
  <2>4. QED
    BY <1>7, <1>8, <1>9, <2>1, <2>2, <2>3 DEF StillTrue, ProductKinds, PlainKinds, AnswerKinds
<1>13. QED
  BY <1>4, <1>6, <1>7, <1>10, <1>11, <1>12, ReadSound DEF Sound

\* The look for an open intent of the buyer, which locks what it finds (handleBuyerIntentCreate).
LEMMA FindOpenIntentSound ==
  ASSUME IInv, NEW w \in Workers, FindOpenIntent(w)
  PROVE  Locks' /\ TxTyped' /\ \A v \in Workers : Sound(v)'
<1> DEFINE t == tx[w]
           found == OpenIntents(w) # {}
           new == [t EXCEPT !.todo = Tail(@), !.read.open = found]
<1>1. /\ t \in Transaction /\ OnCourse(t) /\ StillTrue(w)
      /\ t.todo # <<>> /\ Head(t.todo) = "open" /\ ~Refused(w)
  BY DueRuns DEF FindOpenIntent
<1>2. t.kind = "intent" /\ t.todo = <<"open">> /\ Tail(t.todo) = <<>>
  BY <1>1, NextStep
<1>3. Atomic!TypeOK /\ Atomic!ReferencesLive
  BY TablesFacts DEF IInv
<1>4. /\ t.id \in Products /\ ProductOf(w) = t.id /\ t.id \in Rows
      /\ OpenIntents(w) \in SUBSET Rows
  BY <1>1, <1>2, <1>3, ProductIsThere DEF OpenIntents, Rows, ProductKinds
<1>5. tx' = [tx EXCEPT ![w] = new] /\ Acquire(w, OpenIntents(w)) /\ UNCHANGED tables
  BY DEF FindOpenIntent, IInv, TxTyped
<1>6. tx'[w] = new /\ \A r \in Rows : lock[r] = w => lock'[r] = w
  BY <1>5 DEF IInv, TxTyped, Acquire
<1>7. /\ new.kind = t.kind /\ new.actor = t.actor /\ new.id = t.id /\ new.to = t.to
      /\ new.todo = Tail(t.todo) /\ new.read = [t.read EXCEPT !.open = found]
  BY <1>1 DEF Transaction
<1>8. /\ new.read.open = found /\ new.read.product = t.read.product
      /\ new.read.order = t.read.order /\ new.read.intent = t.read.intent
  BY <1>1, <1>7 DEF Transaction, ReadRecord
<1>9. new \in Transaction
  <2>1. new.todo \in Tails
    BY <1>2, <1>7 DEF Tails
  <2>2. new.read \in ReadRecord
    BY <1>1, <1>7 DEF Transaction, ReadRecord
  <2>3. QED
    BY <1>1, <2>1, <2>2, <1>7 DEF Transaction
<1> HIDE DEF new
<1>10. OnCourse(new)
  BY <1>1, <1>2, <1>7, <1>8, <1>9
  DEF OnCourse, PartOfTheWay, ProductKinds, PlainKinds, AnswerKinds
<1>11. ProductOf(w)' = t.id
  BY <1>4, <1>6, <1>7, ProductOfFacts, InventoryTxAssumption DEF ProductOf
<1>12. ~found => OpenIntents(w)' = {}
  BY <1>5, <1>6, <1>7 DEF OpenIntents, tables
<1>13. StillTrue(w)'
  <2>1. UNCHANGED <<product, order, intent>>
    BY <1>5 DEF tables
  <2>2. /\ lock'[t.id] = w /\ new.read.product = product[t.id]
        /\ new.read.product.row # "absent"
        /\ new.read.order = None /\ new.read.intent = None
    BY <1>1, <1>2, <1>4, <1>6, <1>8 DEF StillTrue, OnCourse, AnswerKinds, ProductKinds
  <2>3. new.kind = "intent" /\ product[new.id].row # "absent"
    BY <1>1, <1>2, <1>7 DEF StillTrue, ProductKinds
  <2>4. QED
    BY <1>6, <1>7, <1>8, <1>11, <1>12, <2>1, <2>2, <2>3
    DEF StillTrue, ProductKinds, PlainKinds, AnswerKinds
<1>14. QED
  BY <1>4, <1>5, <1>6, <1>9, <1>10, <1>13, ReadSound DEF Sound

\* A count locks nothing; the product it is about is locked already (handleDeleteProduct).
LEMMA CountSound ==
  ASSUME IInv, NEW w \in Workers, CountOrders(w) \/ CountIntents(w)
  PROVE  Locks' /\ TxTyped' /\ \A v \in Workers : Sound(v)'
<1> DEFINE t == tx[w]
<1>1. Acquire(w, {}) /\ UNCHANGED tables
  BY InventoryTxAssumption DEF CountOrders, CountIntents, Acquire, IInv, Locks
<1>2. Atomic!TypeOK /\ Atomic!ReferencesLive
  BY TablesFacts DEF IInv
<1>3. ASSUME OnCourse(t), StillTrue(w), t.kind = "delete"
      PROVE  t.id \in Products /\ t.id \in Rows /\ ProductOf(w) = t.id
  BY <1>2, <1>3, ProductIsThere DEF Rows, ProductKinds
<1>4. ASSUME CountOrders(w) PROVE \E new \in Transaction : tx' = [tx EXCEPT ![w] = new] /\ Sound(w)'
  <2> DEFINE found == Atomic!OrdersOf(t.id) # {}
             new == [t EXCEPT !.todo = Tail(@), !.read.orders = found]
  <2>1. /\ t \in Transaction /\ OnCourse(t) /\ StillTrue(w)
        /\ t.todo # <<>> /\ Head(t.todo) = "orders" /\ ~Refused(w)
    BY <1>4, DueRuns DEF CountOrders
  <2>2. t.kind = "delete" /\ t.todo = <<"orders", "intents">> /\ Tail(t.todo) = <<"intents">>
    BY <2>1, NextStep
  <2>3. tx' = [tx EXCEPT ![w] = new] /\ tx'[w] = new
    BY <1>4 DEF CountOrders, IInv, TxTyped
  <2>4. /\ new.kind = t.kind /\ new.actor = t.actor /\ new.id = t.id /\ new.to = t.to
        /\ new.todo = Tail(t.todo) /\ new.read = [t.read EXCEPT !.orders = found]
    BY <2>1 DEF Transaction
  <2>5. /\ new.read.orders = found /\ new.read.product = t.read.product
        /\ new.read.order = t.read.order /\ new.read.intent = t.read.intent
    BY <2>1, <2>4 DEF Transaction, ReadRecord
  <2>6. new \in Transaction
    <3>1. new.todo \in Tails
      BY <2>2, <2>4 DEF Tails
    <3>2. new.read \in ReadRecord
      BY <2>1, <2>4 DEF Transaction, ReadRecord
    <3>3. QED
      BY <2>1, <3>1, <3>2, <2>4 DEF Transaction
  <2> HIDE DEF new
  <2>7. OnCourse(new)
    BY <2>1, <2>2, <2>4, <2>5, <2>6
    DEF OnCourse, PartOfTheWay, ProductKinds, PlainKinds, AnswerKinds
  <2>8. ProductOf(w)' = t.id /\ UNCHANGED <<product, order, intent>>
    BY <1>1, <1>3, <2>1, <2>2, <2>3, <2>4, ProductOfFacts, InventoryTxAssumption
    DEF ProductOf, tables
  <2>9. StillTrue(w)'
    <3>1. /\ lock'[t.id] = w /\ new.read.product = product[t.id]
          /\ new.read.product.row # "absent"
          /\ new.read.order = None /\ new.read.intent = None
      BY <1>1, <1>3, <2>1, <2>2, <2>5
      DEF StillTrue, OnCourse, Acquire, AnswerKinds, ProductKinds
    <3>2. new.kind = "delete" /\ product[new.id].row # "absent" /\ new.todo = <<"intents">>
      BY <2>1, <2>2, <2>4 DEF StillTrue, ProductKinds
    <3>3. ~new.read.orders => Atomic!OrdersOf(new.id) = {}
      BY <2>4, <2>5
    <3>4. ~tx'[w].read.orders => Atomic!OrdersOf(tx[w].id)' = {}
      BY <2>3, <2>4, <2>8, <3>3 DEF Atomic!OrdersOf
    <3>5. QED
      BY <2>3, <2>4, <2>5, <2>8, <3>1, <3>2, <3>4, TailsDiffer
      DEF StillTrue, ProductKinds, PlainKinds, AnswerKinds
  <2>10. QED
    BY <2>3, <2>6, <2>7, <2>9 DEF Sound
<1>5. ASSUME CountIntents(w) PROVE \E new \in Transaction : tx' = [tx EXCEPT ![w] = new] /\ Sound(w)'
  <2> DEFINE found == Atomic!IntentsOf(t.id) # {}
             new == [t EXCEPT !.todo = Tail(@), !.read.intents = found]
  <2>1. /\ t \in Transaction /\ OnCourse(t) /\ StillTrue(w)
        /\ t.todo # <<>> /\ Head(t.todo) = "intents" /\ ~Refused(w)
    BY <1>5, DueRuns DEF CountIntents
  <2>2. t.kind = "delete" /\ t.todo = <<"intents">> /\ Tail(t.todo) = <<>>
    BY <2>1, NextStep
  <2>3. tx' = [tx EXCEPT ![w] = new] /\ tx'[w] = new
    BY <1>5 DEF CountIntents, IInv, TxTyped
  <2>4. /\ new.kind = t.kind /\ new.actor = t.actor /\ new.id = t.id /\ new.to = t.to
        /\ new.todo = Tail(t.todo) /\ new.read = [t.read EXCEPT !.intents = found]
    BY <2>1 DEF Transaction
  <2>5. /\ new.read.intents = found /\ new.read.product = t.read.product
        /\ new.read.orders = t.read.orders
        /\ new.read.order = t.read.order /\ new.read.intent = t.read.intent
    BY <2>1, <2>4 DEF Transaction, ReadRecord
  <2>6. new \in Transaction
    <3>1. new.todo \in Tails
      BY <2>2, <2>4 DEF Tails
    <3>2. new.read \in ReadRecord
      BY <2>1, <2>4 DEF Transaction, ReadRecord
    <3>3. QED
      BY <2>1, <3>1, <3>2, <2>4 DEF Transaction
  <2> HIDE DEF new
  <2>7. OnCourse(new)
    BY <2>1, <2>2, <2>4, <2>5, <2>6
    DEF OnCourse, PartOfTheWay, ProductKinds, PlainKinds, AnswerKinds
  <2>8. ProductOf(w)' = t.id /\ UNCHANGED <<product, order, intent>>
    BY <1>1, <1>3, <2>1, <2>2, <2>3, <2>4, ProductOfFacts, InventoryTxAssumption
    DEF ProductOf, tables
  <2>9. StillTrue(w)'
    <3>1. /\ lock'[t.id] = w /\ new.read.product = product[t.id]
          /\ new.read.product.row # "absent"
          /\ new.read.order = None /\ new.read.intent = None
      BY <1>1, <1>3, <2>1, <2>2, <2>5
      DEF StillTrue, OnCourse, Acquire, AnswerKinds, ProductKinds
    <3>2. new.kind = "delete" /\ product[new.id].row # "absent" /\ new.todo = <<>>
      BY <2>1, <2>2, <2>4 DEF StillTrue, ProductKinds
    <3>3. /\ ~new.read.orders => Atomic!OrdersOf(new.id) = {}
          /\ ~new.read.intents => Atomic!IntentsOf(new.id) = {}
      BY <2>1, <2>2, <2>4, <2>5 DEF StillTrue
    <3>4. /\ ~tx'[w].read.orders => Atomic!OrdersOf(tx[w].id)' = {}
          /\ ~tx'[w].read.intents => Atomic!IntentsOf(tx[w].id)' = {}
      BY <2>3, <2>4, <2>8, <3>3 DEF Atomic!OrdersOf, Atomic!IntentsOf
    <3>5. QED
      BY <2>3, <2>4, <2>5, <2>8, <3>1, <3>2, <3>4
      DEF StillTrue, ProductKinds, PlainKinds, AnswerKinds
  <2>10. QED
    BY <2>3, <2>6, <2>7, <2>9 DEF Sound
<1>6. QED
  BY <1>1, <1>4, <1>5, ReadSound

-----------------------------------------------------------------------------
(* The starts. *)

\* A transaction starts with all its steps before it and nothing read.
LEMMA StartSound ==
  ASSUME IInv, NEW w \in Workers, NEW kind \in Kinds, NEW a \in Merchants \cup Buyers,
         NEW id \in Rows, NEW to \in {"", "ON_SHELF", "OFF_SHELF", "COMPLETED", "CLOSED"},
         Start(w, kind, a, id, to),
         kind = "shelve" => to \in {"ON_SHELF", "OFF_SHELF"},
         kind = "finish" => to \in {"COMPLETED", "CLOSED"},
         IF kind = "intent" THEN a \in Buyers ELSE a \in Merchants,
         kind \in ProductKinds => id \in Products /\ product[id].row # "absent",
         kind = "finish" => id \in Orders /\ order[id].status # "absent",
         kind \in AnswerKinds => id \in Intents /\ intent[id].status # "absent"
  PROVE  Locks' /\ TxTyped' /\ \A v \in Workers : Sound(v)'
<1> DEFINE new == [kind |-> kind, actor |-> a, id |-> id, to |-> to, todo |-> Steps(kind),
                   read |-> NothingRead]
<1>1. /\ new.kind = kind /\ new.actor = a /\ new.id = id /\ new.to = to
      /\ new.todo = Steps(kind) /\ new.read = NothingRead
  OBVIOUS
<1>2. /\ kind \in PlainKinds => Steps(kind) = <<"product">>
      /\ kind = "delete" => Steps(kind) = <<"product", "orders", "intents">>
      /\ kind = "finish" => Steps(kind) = <<"order", "product">>
      /\ kind = "intent" => Steps(kind) = <<"product", "open">>
      /\ kind \in AnswerKinds => Steps(kind) = <<"intent">>
  BY DEF Steps, PlainKinds, AnswerKinds
<1>3. tx' = [tx EXCEPT ![w] = new] /\ UNCHANGED <<tables, lock>> /\ tx[w] = Idle
  BY DEF Start
<1>4. /\ NothingRead \in ReadRecord /\ NothingRead.product = None /\ NothingRead.order = None
      /\ NothingRead.intent = None
  BY DEF NothingRead, ReadRecord
<1>5. Steps(kind) \in Tails
  BY <1>2 DEF Tails, Kinds, ProductKinds
<1>6. new \in Transaction
  BY <1>4, <1>5 DEF Transaction
<1> HIDE DEF new
<1>7. PartOfTheWay(new)
  BY <1>1, <1>2 DEF PartOfTheWay, PlainKinds, AnswerKinds
<1>8. OnCourse(new)
  <2>1. kind \in ProductKinds \cup {"finish"} =>
          Steps(kind) \notin {<<"orders", "intents">>, <<"intents">>, <<"open">>, <<>>}
    BY <1>2, TailsDiffer DEF ProductKinds
  <2>2. kind = "finish" => Steps(kind) \notin {<<"product">>, <<>>}
    BY <1>2, TailsDiffer
  <2>3. kind \in AnswerKinds => Steps(kind) # <<>>
    BY <1>2, TailsDiffer
  <2>4. QED
    BY <1>1, <1>4, <1>6, <1>7, <2>1, <2>2, <2>3 DEF OnCourse, AnswerKinds
<1>9. tx'[w] = new /\ UNCHANGED <<product, order, intent>>
  BY <1>3 DEF IInv, TxTyped, tables
<1>10. StillTrue(w)'
  <2>1. /\ kind = "delete" => Steps(kind) \notin {<<"intents">>, <<>>}
        /\ kind = "intent" => Steps(kind) # <<>>
    BY <1>2, TailsDiffer
  <2>2. QED
    BY <1>1, <1>4, <1>9, <2>1 DEF StillTrue
<1>11. Acquire(w, {})
  BY <1>3, InventoryTxAssumption DEF Acquire, IInv, Locks
<1>12. QED
  BY <1>3, <1>6, <1>8, <1>9, <1>10, <1>11, ReadSound DEF Sound

-----------------------------------------------------------------------------
(* The commits: each is the step of Inventory it stands for, on the rows   *)
(* that are in the tables now, and touches nothing another worker holds.   *)

\* What a transaction that commits knows.
LEMMA ReadyKnows ==
  ASSUME IInv, NEW w \in Workers, tx[w].kind # "idle", tx[w].todo = <<>>, ~Refused(w)
  PROVE  /\ OnCourse(tx[w]) /\ StillTrue(w) /\ tx[w].kind \in Kinds
         /\ tx[w].kind \in ProductKinds \cup {"finish"} =>
              /\ ProductOf(w) \in Products /\ lock[ProductOf(w)] = w
              /\ tx[w].read.product = product[ProductOf(w)]
              /\ product[ProductOf(w)].row = "live"
              /\ ProductPasses(tx[w])
         /\ tx[w].kind \in ProductKinds => ProductOf(w) = tx[w].id
         /\ tx[w].kind = "finish" =>
              /\ tx[w].id \in Orders /\ lock[tx[w].id] = w /\ tx[w].read.order = order[tx[w].id]
              /\ ProductOf(w) = order[tx[w].id].product
              /\ order[tx[w].id].status # "absent" /\ OrderPasses(tx[w])
         /\ tx[w].kind \in AnswerKinds =>
              /\ tx[w].id \in Intents /\ lock[tx[w].id] = w /\ tx[w].read.intent = intent[tx[w].id]
              /\ intent[tx[w].id].status # "absent" /\ IntentPasses(tx[w])
         /\ ~tx[w].read.orders /\ ~tx[w].read.intents /\ ~tx[w].read.open
<1>1. OnCourse(tx[w]) /\ StillTrue(w) /\ tx[w].kind \in Kinds
  <2>1. Idle.kind = "idle"
    BY DEF Idle
  <2>2. QED
    BY <2>1 DEF IInv, Sound, OnCourse, Transaction
<1>2. Atomic!TypeOK /\ Atomic!ReferencesLive
  BY TablesFacts DEF IInv
<1>3. /\ tx[w].read.product # None <=> tx[w].kind \in ProductKinds \cup {"finish"}
      /\ tx[w].read.order # None <=> tx[w].kind = "finish"
      /\ tx[w].read.intent # None <=> tx[w].kind \in AnswerKinds
  BY <1>1 DEF OnCourse
<1>4. /\ tx[w].read.product # None => ProductPasses(tx[w])
      /\ tx[w].read.order # None => OrderPasses(tx[w])
      /\ tx[w].read.intent # None => IntentPasses(tx[w])
      /\ ~tx[w].read.orders /\ ~tx[w].read.intents /\ ~tx[w].read.open
  BY DEF Refused
<1>5. tx[w].kind \in ProductKinds \cup {"finish"} =>
        /\ ProductOf(w) \in Products /\ lock[ProductOf(w)] = w
        /\ tx[w].read.product = product[ProductOf(w)]
        /\ tx[w].kind \in ProductKinds => ProductOf(w) = tx[w].id
        /\ tx[w].kind = "finish" => ProductOf(w) = order[tx[w].id].product
  BY <1>1, <1>2, <1>3, ProductIsThere DEF StillTrue
<1>6. tx[w].kind \in ProductKinds \cup {"finish"} => product[ProductOf(w)].row = "live"
  BY <1>3, <1>4, <1>5 DEF ProductPasses
<1>7. /\ tx[w].kind = "finish" => tx[w].id \in Orders
      /\ tx[w].kind \in AnswerKinds => tx[w].id \in Intents
  BY <1>1 DEF OnCourse
<1>8. QED
  BY <1>1, <1>3, <1>4, <1>5, <1>6, <1>7 DEF StillTrue

\* Writing a product that is locked by w, and nothing else, is no business of the others.
LEMMA ProductWriteUntouched ==
  ASSUME IInv, NEW w \in Workers, NEW p \in Products, NEW new, lock[p] = w, new.row # "absent",
         product' = [product EXCEPT ![p] = new], UNCHANGED intent,
         \A o \in Orders :
           \/ order'[o] = order[o]
           \/ /\ order[o].status # "absent" /\ order'[o].status # "absent" /\ lock[o] = w
              /\ order'[o].product = order[o].product
           \/ order[o].status = "absent" /\ order'[o].product = p
  PROVE  \A v \in Workers \ {w} : Untouched(v)
<1>1. Atomic!TypeOK
  BY TablesFacts DEF IInv
<1>2. ASSUME NEW v \in Workers \ {w} PROVE Untouched(v)
  BY <1>1, <1>2 DEF Untouched, Atomic!TypeOK
<1>3. QED
  BY <1>2

\* Writing an intent that is locked by w, or inserting one for a product locked by w.
LEMMA IntentWriteUntouched ==
  ASSUME IInv, NEW w \in Workers, NEW i \in Intents, UNCHANGED <<product, order>>,
         \A j \in Intents : j # i => intent'[j] = intent[j],
         intent[i].status # "absent" =>
           /\ lock[i] = w /\ intent'[i].status # "absent"
           /\ intent'[i].product = intent[i].product /\ intent'[i].buyer = intent[i].buyer
           /\ intent'[i].open => intent[i].open,
         intent[i].status = "absent" => lock[intent'[i].product] = w
  PROVE  \A v \in Workers \ {w} : Untouched(v)
BY DEF Untouched

\* An edit writes the stock of the row it has read (handleUpdateProduct).
LEMMA CommitEditRefines ==
  ASSUME IInv, NEW w \in Workers, NEW stock \in 1..MaxStock, CommitEdit(w, stock)
  PROVE  /\ tx[w].actor \in Merchants /\ tx[w].id \in Products
         /\ Atomic!UpdateProduct(tx[w].actor, tx[w].id, stock)
         /\ \A v \in Workers \ {w} : Untouched(v)
<1> DEFINE p == ProductOf(w)
           t == tx[w]
           new == [product[p] EXCEPT !.stock = stock]
<1>1. t.kind = "edit" /\ t.todo = <<>> /\ ~Refused(w)
  BY DEF CommitEdit, Ready
<1>2. /\ OnCourse(t) /\ p = t.id /\ p \in Products /\ lock[p] = w /\ t.read.product = product[p]
      /\ product[p].row = "live" /\ ProductPasses(t)
  BY <1>1, ReadyKnows DEF ProductKinds, PlainKinds
<1>3. t.actor \in Merchants
  BY <1>1, <1>2 DEF OnCourse
<1>4. product[p] \in Atomic!ProductRow /\ supplied[p] \in Int /\ Atomic!TypeOK
  BY <1>2, TablesFacts DEF IInv, Atomic!TypeOK
<1>5. Atomic!Owned(product[p], t.actor) /\ Atomic!StockEditable(product[p].status)
  BY <1>1, <1>2 DEF ProductPasses, Atomic!Owned
<1>6. new.stock = stock /\ new.row = "live" /\ stock \in Int /\ stock > 0
  BY <1>2, <1>4, InventoryTxAssumption DEF Atomic!ProductRow
<1>7. /\ product' = [product EXCEPT ![p] = new] /\ UNCHANGED <<order, intent>>
      /\ supplied' = [supplied EXCEPT ![p] = @ + new.stock - product[p].stock]
  BY <1>1, <1>2 DEF CommitEdit, SaveProduct
<1>8. Atomic!UpdateProduct(t.actor, p, stock)
  BY <1>2, <1>4, <1>5, <1>6, <1>7 DEF Atomic!UpdateProduct, Atomic!TypeOK
<1> HIDE DEF new
<1>9. \A v \in Workers \ {w} : Untouched(v)
  BY <1>2, <1>6, <1>7, ProductWriteUntouched
<1>10. QED
  BY <1>2, <1>3, <1>8, <1>9

\* A deletion finds no order and no intent, and there still is none (handleDeleteProduct).
LEMMA CommitDeleteRefines ==
  ASSUME IInv, NEW w \in Workers, CommitDelete(w)
  PROVE  /\ tx[w].actor \in Merchants /\ tx[w].id \in Products
         /\ Atomic!DeleteProduct(tx[w].actor, tx[w].id)
         /\ \A v \in Workers \ {w} : Untouched(v)
<1> DEFINE p == ProductOf(w)
           t == tx[w]
           new == [product[p] EXCEPT !.row = "deleted"]
<1>1. t.kind = "delete" /\ t.todo = <<>> /\ ~Refused(w)
  BY DEF CommitDelete, Ready
<1>2. /\ OnCourse(t) /\ StillTrue(w) /\ p = t.id /\ p \in Products /\ lock[p] = w
      /\ t.read.product = product[p] /\ product[p].row = "live" /\ ProductPasses(t)
      /\ ~t.read.orders /\ ~t.read.intents
  BY <1>1, ReadyKnows DEF ProductKinds, PlainKinds
<1>3. t.actor \in Merchants
  BY <1>1, <1>2 DEF OnCourse
<1>4. product[p] \in Atomic!ProductRow /\ supplied \in [Products -> Int] /\ Atomic!TypeOK
  BY <1>2, TablesFacts DEF IInv, Atomic!TypeOK
<1>5. Atomic!OrdersOf(p) = {} /\ Atomic!IntentsOf(p) = {}
  BY <1>1, <1>2 DEF StillTrue
<1>6. /\ Atomic!Owned(product[p], t.actor)
      /\ Atomic!CanDelete(product[p], Atomic!OrdersOf(p) # {}, Atomic!IntentsOf(p) # {})
  BY <1>1, <1>2, <1>5 DEF ProductPasses, Atomic!Owned, Atomic!CanDelete
<1>7. /\ product' = [product EXCEPT ![p] = new] /\ UNCHANGED <<order, intent>>
      /\ supplied' = supplied
  BY <1>1, <1>2, <1>4 DEF CommitDelete, SaveProduct
<1>8. new.row = "deleted"
  BY <1>4 DEF Atomic!ProductRow
<1>9. Atomic!DeleteProduct(t.actor, p)
  BY <1>2, <1>4, <1>6, <1>7 DEF Atomic!DeleteProduct, Atomic!TypeOK
<1> HIDE DEF new
<1>10. \A v \in Workers \ {w} : Untouched(v)
  BY <1>2, <1>7, <1>8, ProductWriteUntouched
<1>11. QED
  BY <1>2, <1>3, <1>9, <1>10

\* The row goes on or off the shelf as it was when its status was judged (changeProductStatus).
LEMMA CommitShelveRefines ==
  ASSUME IInv, NEW w \in Workers, CommitShelve(w)
  PROVE  /\ tx[w].actor \in Merchants /\ tx[w].id \in Products /\ tx[w].to \in {"ON_SHELF", "OFF_SHELF"}
         /\ Atomic!ChangeShelf(tx[w].actor, tx[w].id, tx[w].to)
         /\ \A v \in Workers \ {w} : Untouched(v)
<1> DEFINE p == ProductOf(w)
           t == tx[w]
           new == [product[p] EXCEPT !.status = t.to]
<1>1. t.kind = "shelve" /\ t.todo = <<>> /\ ~Refused(w)
  BY DEF CommitShelve, Ready
<1>2. /\ OnCourse(t) /\ p = t.id /\ p \in Products /\ lock[p] = w
      /\ t.read.product = product[p] /\ product[p].row = "live" /\ ProductPasses(t)
  BY <1>1, ReadyKnows DEF ProductKinds, PlainKinds
<1>3. t.actor \in Merchants /\ t.to \in {"ON_SHELF", "OFF_SHELF"}
  BY <1>1, <1>2 DEF OnCourse
<1>4. product[p] \in Atomic!ProductRow /\ supplied \in [Products -> Int] /\ Atomic!TypeOK
  BY <1>2, TablesFacts DEF IInv, Atomic!TypeOK
<1>5. Atomic!Owned(product[p], t.actor) /\ Atomic!CanShelve(product[p], t.to)
  BY <1>1, <1>2 DEF CommitShelve, ProductPasses, Atomic!Owned
<1>6. /\ product' = [product EXCEPT ![p] = new] /\ UNCHANGED <<order, intent>>
      /\ supplied' = supplied
  BY <1>1, <1>2, <1>4 DEF CommitShelve, SaveProduct
<1>7. new.row = "live"
  BY <1>2, <1>4 DEF Atomic!ProductRow
<1>8. Atomic!ChangeShelf(t.actor, p, t.to)
  BY <1>2, <1>4, <1>5, <1>6 DEF Atomic!ChangeShelf, Atomic!TypeOK
<1> HIDE DEF new
<1>9. \A v \in Workers \ {w} : Untouched(v)
  BY <1>2, <1>6, <1>7, ProductWriteUntouched
<1>10. QED
  BY <1>2, <1>3, <1>8, <1>9

\* The quantity is compared with the stock that is in the table (adjustStock).
LEMMA CommitAdjustRefines ==
  ASSUME IInv, NEW w \in Workers, NEW type \in Atomic!AdjustmentTypes, NEW qty \in 0..MaxStock,
         NEW all \in BOOLEAN, CommitAdjust(w, type, qty, all)
  PROVE  /\ tx[w].actor \in Merchants /\ tx[w].id \in Products
         /\ Atomic!AdjustStock(tx[w].actor, tx[w].id, type, qty, all)
         /\ \A v \in Workers \ {w} : Untouched(v)
<1> DEFINE p == ProductOf(w)
           t == tx[w]
           new == Atomic!Adjusted(product[p], type, qty, all)
<1>1. t.kind = "adjust" /\ t.todo = <<>> /\ ~Refused(w)
  BY DEF CommitAdjust, Ready
<1>2. /\ OnCourse(t) /\ p = t.id /\ p \in Products /\ lock[p] = w
      /\ t.read.product = product[p] /\ product[p].row = "live" /\ ProductPasses(t)
  BY <1>1, ReadyKnows DEF ProductKinds, PlainKinds
<1>3. t.actor \in Merchants
  BY <1>1, <1>2 DEF OnCourse
<1>4. product[p] \in Atomic!ProductRow /\ supplied \in [Products -> Int] /\ Atomic!TypeOK
  BY <1>2, TablesFacts DEF IInv, Atomic!TypeOK
<1>5. /\ Atomic!Owned(product[p], t.actor) /\ Atomic!CanAdjust(product[p], type, qty, all)
      /\ type = "INCREASE" => product[p].stock + qty <= MaxStock
  BY <1>1, <1>2 DEF CommitAdjust, ProductPasses, Atomic!Owned
<1>6. /\ product' = [product EXCEPT ![p] = new] /\ UNCHANGED <<order, intent>>
      /\ supplied' = [supplied EXCEPT ![p] = @ + new.stock - product[p].stock]
  BY <1>1, <1>2, <1>4 DEF CommitAdjust, SaveProduct
<1>7. new.row = "live"
  BY <1>2, <1>4 DEF Atomic!ProductRow, Atomic!Adjusted
<1> HIDE DEF new
<1>8. Atomic!AdjustStock(t.actor, p, type, qty, all)
  BY <1>2, <1>4, <1>5, <1>6 DEF Atomic!AdjustStock, new
<1>9. \A v \in Workers \ {w} : Untouched(v)
  BY <1>2, <1>6, <1>7, ProductWriteUntouched
<1>10. QED
  BY <1>2, <1>3, <1>8, <1>9

\* An order books a unit of the row that is in the table (createOrder).
LEMMA CommitOrderRefines ==
  ASSUME IInv, NEW w \in Workers, NEW o \in Orders, CommitOrder(w, o)
  PROVE  /\ tx[w].actor \in Merchants /\ tx[w].id \in Products
         /\ Atomic!CreateOrder(tx[w].actor, tx[w].id, o)
         /\ \A v \in Workers \ {w} : Untouched(v)
<1> DEFINE p == ProductOf(w)
           t == tx[w]
           new == Atomic!Ordered(product[p], o)
           row == [status |-> "CREATED", product |-> p, merchant |-> t.actor]
<1>1. t.kind = "order" /\ t.todo = <<>> /\ ~Refused(w)
  BY DEF CommitOrder, Ready
<1>2. /\ OnCourse(t) /\ p = t.id /\ p \in Products /\ lock[p] = w
      /\ t.read.product = product[p] /\ product[p].row = "live" /\ ProductPasses(t)
  BY <1>1, ReadyKnows DEF ProductKinds, PlainKinds
<1>3. t.actor \in Merchants
  BY <1>1, <1>2 DEF OnCourse
<1>4. product[p] \in Atomic!ProductRow /\ supplied \in [Products -> Int] /\ Atomic!TypeOK
  BY <1>2, TablesFacts DEF IInv, Atomic!TypeOK
<1>5. Atomic!Owned(product[p], t.actor) /\ Atomic!CanOrder(product[p])
  BY <1>1, <1>2 DEF ProductPasses, Atomic!Owned
<1>6. /\ product' = [product EXCEPT ![p] = new] /\ UNCHANGED intent
      /\ order' = [order EXCEPT ![o] = row] /\ order[o].status = "absent" /\ supplied' = supplied
  BY <1>1, <1>2, <1>4 DEF CommitOrder, SaveProduct
<1>7. new.row = "live"
  BY <1>2, <1>4 DEF Atomic!ProductRow, Atomic!Ordered
<1>8. Atomic!CreateOrder(t.actor, p, o)
  BY <1>2, <1>4, <1>5, <1>6 DEF Atomic!CreateOrder
<1>9. \A a \in Orders : order'[a] = order[a] \/ (order[a].status = "absent" /\ order'[a].product = p)
  BY <1>4, <1>6 DEF Atomic!TypeOK
<1> HIDE DEF new
<1>10. \A v \in Workers \ {w} : Untouched(v)
  BY <1>2, <1>6, <1>7, <1>9, ProductWriteUntouched
<1>11. QED
  BY <1>2, <1>3, <1>8, <1>10

\* Order and product change together, as both were read (transitionOrder).
LEMMA CommitFinishRefines ==
  ASSUME IInv, NEW w \in Workers, CommitFinish(w)
  PROVE  /\ tx[w].actor \in Merchants /\ tx[w].id \in Orders /\ tx[w].to \in {"COMPLETED", "CLOSED"}
         /\ Atomic!FinishOrder(tx[w].actor, tx[w].id, tx[w].to)
         /\ \A v \in Workers \ {w} : Untouched(v)
<1> DEFINE p == ProductOf(w)
           t == tx[w]
           o == t.id
           new == Atomic!Finished(product[p], t.to)
           row == [order[o] EXCEPT !.status = t.to]
<1>1. t.kind = "finish" /\ t.todo = <<>> /\ ~Refused(w)
  BY DEF CommitFinish, Ready
<1>2. /\ OnCourse(t) /\ p \in Products /\ lock[p] = w
      /\ t.read.product = product[p] /\ product[p].row = "live" /\ ProductPasses(t)
      /\ o \in Orders /\ lock[o] = w /\ t.read.order = order[o] /\ p = order[o].product
      /\ order[o].status # "absent" /\ OrderPasses(t)
  BY <1>1, ReadyKnows
<1>3. t.actor \in Merchants /\ t.to \in {"COMPLETED", "CLOSED"}
  BY <1>1, <1>2 DEF OnCourse
<1>4. /\ product[p] \in Atomic!ProductRow /\ order[o] \in Atomic!OrderRow
      /\ supplied \in [Products -> Int] /\ Atomic!TypeOK
  BY <1>2, TablesFacts DEF IInv, Atomic!TypeOK
<1>5. order[o].status # t.to
  BY <1>2 DEF CommitFinish
<1>6. /\ Atomic!Owned(product[p], t.actor) /\ order[o].merchant = t.actor
      /\ Atomic!CanFinish(product[p], order[o], o, t.to)
  BY <1>1, <1>2, <1>5 DEF ProductPasses, OrderPasses, Atomic!Owned
<1>7. /\ product' = [product EXCEPT ![p] = new] /\ UNCHANGED intent
      /\ order' = [order EXCEPT ![o] = row] /\ supplied' = supplied
  BY <1>1, <1>2, <1>4 DEF CommitFinish, SaveProduct
<1>8. new.row = "live"
  BY <1>2, <1>4 DEF Atomic!ProductRow, Atomic!Finished, Atomic!Completed, Atomic!Closed
<1>9. row.status # "absent" /\ row.product = p
  BY <1>2, <1>3, <1>4 DEF Atomic!OrderRow
<1> HIDE DEF new
<1>10. Atomic!FinishOrder(t.actor, o, t.to)
  BY <1>2, <1>4, <1>6, <1>7 DEF Atomic!FinishOrder, Atomic!TypeOK, new
<1> HIDE DEF row
<1>11. \A a \in Orders :
         \/ order'[a] = order[a]
         \/ /\ order[a].status # "absent" /\ order'[a].status # "absent" /\ lock[a] = w
            /\ order'[a].product = order[a].product
  BY <1>2, <1>4, <1>7, <1>9 DEF Atomic!TypeOK
<1>12. \A v \in Workers \ {w} : Untouched(v)
  BY <1>2, <1>7, <1>8, <1>11, ProductWriteUntouched
<1>13. QED
  BY <1>2, <1>3, <1>10, <1>12

\* The buyer had no open intent for the product when the transaction looked, and has none now:
\* whoever would insert one waits for the product (handleBuyerIntentCreate).
LEMMA CommitIntentRefines ==
  ASSUME IInv, NEW w \in Workers, NEW i \in Intents, CommitIntent(w, i)
  PROVE  /\ tx[w].actor \in Buyers /\ tx[w].id \in Products
         /\ Atomic!CreateIntent(tx[w].actor, tx[w].id, i)
         /\ \A v \in Workers \ {w} : Untouched(v)
<1> DEFINE p == ProductOf(w)
           t == tx[w]
           row == [status |-> "NEW", open |-> TRUE, buyer |-> t.actor, product |-> p,
                   merchant |-> product[p].merchant]
<1>1. t.kind = "intent" /\ t.todo = <<>> /\ ~Refused(w)
  BY DEF CommitIntent, Ready
<1>2. /\ OnCourse(t) /\ StillTrue(w) /\ p = t.id /\ p \in Products /\ lock[p] = w
      /\ t.read.product = product[p] /\ product[p].row = "live" /\ ProductPasses(t)
      /\ ~t.read.open
  BY <1>1, ReadyKnows DEF ProductKinds
<1>3. t.actor \in Buyers
  BY <1>1, <1>2 DEF OnCourse
<1>4. Atomic!TypeOK
  BY TablesFacts DEF IInv
<1>5. product[p].status = "ON_SHELF"
  BY <1>1, <1>2 DEF ProductPasses, OpenToIntents
<1>6. ~Atomic!HasOpenIntent(t.actor, p)
  BY <1>1, <1>2 DEF StillTrue, OpenIntents, Atomic!HasOpenIntent
<1>7. /\ intent' = [intent EXCEPT ![i] = row] /\ intent[i].status = "absent"
      /\ UNCHANGED <<product, order, supplied>>
  BY <1>2 DEF CommitIntent
<1>8. Atomic!CreateIntent(t.actor, p, i)
  BY <1>2, <1>5, <1>6, <1>7 DEF Atomic!CreateIntent
<1>9. intent'[i].product = p /\ \A j \in Intents : j # i => intent'[j] = intent[j]
  BY <1>4, <1>7 DEF Atomic!TypeOK
<1>10. \A v \in Workers \ {w} : Untouched(v)
  BY <1>2, <1>7, <1>9, IntentWriteUntouched
<1>11. QED
  BY <1>2, <1>3, <1>8, <1>10

\* An answer changes an intent that is open and as it was read (handleMerchantIntentContacted,
\* handleMerchantIntentClose).
LEMMA CommitAnswerRefines ==
  ASSUME IInv, NEW w \in Workers, CommitContact(w) \/ CommitClose(w)
  PROVE  /\ tx[w].actor \in Merchants /\ tx[w].id \in Intents
         /\ \/ Atomic!ContactIntent(tx[w].actor, tx[w].id)
            \/ Atomic!CloseIntent(tx[w].actor, tx[w].id)
         /\ \A v \in Workers \ {w} : Untouched(v)
<1> DEFINE t == tx[w]
           i == t.id
<1>1. t.kind \in AnswerKinds /\ t.todo = <<>> /\ ~Refused(w)
  BY DEF CommitContact, CommitClose, Ready, AnswerKinds
<1>2. /\ OnCourse(t) /\ i \in Intents /\ lock[i] = w /\ t.read.intent = intent[i]
      /\ intent[i].status # "absent" /\ IntentPasses(t)
  BY <1>1, ReadyKnows DEF AnswerKinds
<1>3. t.actor \in Merchants
  BY <1>1, <1>2 DEF OnCourse, AnswerKinds
<1>4. Atomic!TypeOK /\ Atomic!OneOpenIntent
  BY TablesFacts DEF IInv
<1>5. /\ intent[i] \in Atomic!IntentRow /\ intent[i].merchant = t.actor
      /\ intent[i].open <=> intent[i].status \in {"NEW", "CONTACTED"}
  BY <1>2, <1>4 DEF Atomic!TypeOK, Atomic!OneOpenIntent, IntentPasses
<1>6. CASE CommitContact(w)
  <2>1. Atomic!CanContact(intent[i])
    BY <1>2, <1>5, <1>6 DEF CommitContact, Atomic!CanContact
  <2>2. intent' = [intent EXCEPT ![i].status = "CONTACTED"] /\ UNCHANGED <<product, order, supplied>>
    BY <1>6 DEF CommitContact
  <2>3. Atomic!ContactIntent(t.actor, i)
    BY <1>5, <2>1, <2>2 DEF Atomic!ContactIntent
  <2>4. /\ intent'[i].status # "absent" /\ intent'[i].product = intent[i].product
        /\ intent'[i].buyer = intent[i].buyer
        /\ intent'[i].open => intent[i].open
        /\ \A j \in Intents : j # i => intent'[j] = intent[j]
    BY <1>2, <1>4, <1>5, <2>2 DEF Atomic!TypeOK, Atomic!IntentRow
  <2>5. \A v \in Workers \ {w} : Untouched(v)
    BY <1>2, <2>2, <2>4, IntentWriteUntouched
  <2>6. QED
    BY <1>2, <1>3, <2>3, <2>5
<1>7. CASE CommitClose(w)
  <2>1. Atomic!CanCloseIntent(intent[i])
    BY <1>2, <1>5, <1>7 DEF CommitClose, Atomic!CanCloseIntent, Atomic!IntentRow, Atomic!IntentStatus
  <2>2. /\ intent' = [intent EXCEPT ![i].status = "CLOSED", ![i].open = FALSE]
        /\ UNCHANGED <<product, order, supplied>>
    BY <1>7 DEF CommitClose
  <2>3. Atomic!CloseIntent(t.actor, i)
    BY <1>5, <2>1, <2>2 DEF Atomic!CloseIntent
  <2>4. /\ intent'[i].status # "absent" /\ intent'[i].product = intent[i].product
        /\ intent'[i].buyer = intent[i].buyer
        /\ intent'[i].open => intent[i].open
        /\ \A j \in Intents : j # i => intent'[j] = intent[j]
    BY <1>2, <1>4, <1>5, <2>2 DEF Atomic!TypeOK, Atomic!IntentRow
  <2>5. \A v \in Workers \ {w} : Untouched(v)
    BY <1>2, <2>2, <2>4, IntentWriteUntouched
  <2>6. QED
    BY <1>2, <1>3, <2>3, <2>5
<1>8. QED
  BY <1>6, <1>7

\* The insert of a product is of a row nobody could have locked (handleCreateProduct).
LEMMA CreateProductSound ==
  ASSUME IInv, NEW m \in Merchants, NEW p \in Products, NEW stock \in 1..MaxStock,
         CreateProduct(m, p, stock)
  PROVE  /\ Atomic!CreateProduct(m, p, stock)
         /\ Locks' /\ TxTyped' /\ \A v \in Workers : Sound(v)'
<1>1. /\ Atomic!CreateProduct(m, p, stock) /\ tx' = tx /\ lock' = lock
      /\ UNCHANGED <<order, intent>>
  BY DEF CreateProduct, Atomic!CreateProduct
<1>2. Atomic!TypeOK /\ Atomic!ReferencesLive
  BY TablesFacts DEF IInv
<1>3. product[p].row = "absent" /\ \A q \in Products : q # p => product'[q] = product[q]
  BY <1>1, <1>2 DEF Atomic!CreateProduct, Atomic!TypeOK
<1>4. ASSUME NEW v \in Workers PROVE Untouched(v)
  <2>1. ASSUME NEW q \in Products, product[q].row # "absent" PROVE product'[q] = product[q]
    BY <1>3, <2>1
  <2>2. QED
    BY <1>1, <2>1 DEF Untouched
<1>5. \A v \in Workers : Sound(v)'
  BY <1>1, <1>2, <1>4, UntouchedStaysSound DEF IInv
<1>6. QED
  BY <1>1, <1>5 DEF IInv, Locks, TxTyped

-----------------------------------------------------------------------------
(* The steps. *)

\* Every start is one of StartSound: what the handler looked the row up for is there.
LEMMA StartsSound ==
  ASSUME IInv, NEW w \in Workers,
         \/ \E m \in Merchants, p \in Products : StartProduct(w, m, p)
         \/ \E m \in Merchants, o \in Orders : StartFinish(w, m, o)
         \/ \E b \in Buyers, p \in Products : StartIntent(w, b, p)
         \/ \E m \in Merchants, i \in Intents : StartAnswer(w, m, i)
  PROVE  UNCHANGED tables /\ Locks' /\ TxTyped' /\ \A v \in Workers : Sound(v)'
<1> USE DEF PlainKinds, ProductKinds, AnswerKinds, Kinds, Rows
<1>1. ASSUME NEW m \in Merchants, NEW p \in Products, product[p].row # "absent",
             NEW kind \in {"edit", "delete", "adjust", "order"}, Start(w, kind, m, p, "")
      PROVE  UNCHANGED tables /\ Locks' /\ TxTyped' /\ \A v \in Workers : Sound(v)'
  BY <1>1, StartSound DEF Start
<1>2. ASSUME NEW m \in Merchants, NEW p \in Products, product[p].row # "absent",
             NEW to \in {"ON_SHELF", "OFF_SHELF"}, Start(w, "shelve", m, p, to)
      PROVE  UNCHANGED tables /\ Locks' /\ TxTyped' /\ \A v \in Workers : Sound(v)'
  <2>1. "shelve" \in Kinds /\ "shelve" \notin AnswerKinds /\ m \in Merchants \cup Buyers /\ p \in Rows
    OBVIOUS
  <2> HIDE DEF Kinds, ProductKinds, AnswerKinds, Rows
  <2>2. Locks' /\ TxTyped' /\ \A v \in Workers : Sound(v)'
    BY <1>2, <2>1, StartSound
  <2>3. QED
    BY <1>2, <2>2 DEF Start
<1>3. ASSUME NEW m \in Merchants, NEW o \in Orders, order[o].status # "absent",
             NEW to \in {"COMPLETED", "CLOSED"}, Start(w, "finish", m, o, to)
      PROVE  UNCHANGED tables /\ Locks' /\ TxTyped' /\ \A v \in Workers : Sound(v)'
  <2>1. /\ "finish" \in Kinds /\ "finish" \notin ProductKinds /\ "finish" \notin AnswerKinds
        /\ m \in Merchants \cup Buyers /\ o \in Rows
    OBVIOUS
  <2> HIDE DEF Kinds, ProductKinds, AnswerKinds, Rows
  <2>2. Locks' /\ TxTyped' /\ \A v \in Workers : Sound(v)'
    BY <1>3, <2>1, StartSound
  <2>3. QED
    BY <1>3, <2>2 DEF Start
<1>4. ASSUME NEW b \in Buyers, NEW p \in Products, product[p].row = "live",
             Start(w, "intent", b, p, "")
      PROVE  UNCHANGED tables /\ Locks' /\ TxTyped' /\ \A v \in Workers : Sound(v)'
  BY <1>4, StartSound DEF Start
<1>5. ASSUME NEW m \in Merchants, NEW i \in Intents, intent[i].status # "absent",
             NEW kind \in AnswerKinds, Start(w, kind, m, i, "")
      PROVE  UNCHANGED tables /\ Locks' /\ TxTyped' /\ \A v \in Workers : Sound(v)'
  BY <1>5, StartSound DEF Start
<1>6. QED
  BY <1>1, <1>2, <1>3, <1>4, <1>5 DEF StartProduct, StartFinish, StartIntent, StartAnswer

\* Every read leaves the tables alone and the state sound.
LEMMA ReadsSound ==
  ASSUME IInv, NEW w \in Workers, Read(w)
  PROVE  UNCHANGED tables /\ Locks' /\ TxTyped' /\ \A v \in Workers : Sound(v)'
<1>1. UNCHANGED tables
  BY DEF Read, LockProduct, LockOrder, LockIntent, FindOpenIntent, CountOrders, CountIntents
<1>2. QED
  BY <1>1, LockProductSound, LockOrderSound, LockIntentSound, FindOpenIntentSound, CountSound
  DEF Read

\* A transaction that ends without writing touches nothing.
LEMMA NothingWritten ==
  ASSUME UNCHANGED tables
  PROVE  \A v \in Workers : Untouched(v)
BY DEF tables, Untouched

\* Every commit is a step of Inventory or writes nothing, and ends the transaction.
LEMMA CommitsRefine ==
  ASSUME IInv, NEW w \in Workers, Commit(w)
  PROVE  End(w) /\ [Atomic!Next]_(Atomic!vars) /\ \A v \in Workers \ {w} : Untouched(v)
<1>1. End(w)
  BY DEF Commit, CommitEdit, CommitDelete, CommitShelve, CommitAdjust, CommitOrder, CommitFinish,
         CommitIntent, CommitContact, CommitClose, AlreadyDone
<1>2. ASSUME NEW m \in Merchants, NEW p \in Products, Atomic!ProductStep(m, p)
      PROVE  Atomic!Next
  BY <1>2 DEF Atomic!Next
<1>3. CASE \E stock \in 1..MaxStock : CommitEdit(w, stock)
  BY <1>1, <1>2, <1>3, CommitEditRefines DEF Atomic!ProductStep
<1>4. CASE CommitDelete(w)
  BY <1>1, <1>2, <1>4, CommitDeleteRefines DEF Atomic!ProductStep
<1>5. CASE CommitShelve(w)
  BY <1>1, <1>2, <1>5, CommitShelveRefines DEF Atomic!ProductStep
<1>6. CASE \E type \in Atomic!AdjustmentTypes, qty \in 0..MaxStock, all \in BOOLEAN :
             CommitAdjust(w, type, qty, all)
  BY <1>1, <1>2, <1>6, CommitAdjustRefines DEF Atomic!ProductStep
<1>7. CASE \E o \in Orders : CommitOrder(w, o)
  BY <1>1, <1>2, <1>7, CommitOrderRefines DEF Atomic!ProductStep
<1>8. CASE CommitFinish(w)
  BY <1>1, <1>8, CommitFinishRefines DEF Atomic!Next
<1>9. CASE \E i \in Intents : CommitIntent(w, i)
  BY <1>1, <1>9, CommitIntentRefines DEF Atomic!Next
<1>10. CASE CommitContact(w) \/ CommitClose(w)
  BY <1>1, <1>10, CommitAnswerRefines DEF Atomic!Next
<1>11. CASE AlreadyDone(w)
  <2>1. UNCHANGED tables
    BY <1>11 DEF AlreadyDone
  <2>2. QED
    BY <1>1, <2>1, NothingWritten DEF tables, Atomic!vars
<1>12. QED
  BY <1>3, <1>4, <1>5, <1>6, <1>7, <1>8, <1>9, <1>10, <1>11 DEF Commit

\* Every step of the transactions is one step of Inventory, or none.
LEMMA StepRefines ==
  ASSUME IInv, [Next]_vars
  PROVE  /\ [Atomic!Next]_(Atomic!vars)
         /\ Locks' /\ TxTyped' /\ \A v \in Workers : Sound(v)'
<1>1. ASSUME UNCHANGED tables PROVE [Atomic!Next]_(Atomic!vars)
  BY <1>1 DEF tables, Atomic!vars
<1>2. ASSUME NEW m \in Merchants, NEW p \in Products, NEW stock \in 1..MaxStock,
             CreateProduct(m, p, stock)
      PROVE  /\ [Atomic!Next]_(Atomic!vars)
             /\ Locks' /\ TxTyped' /\ \A v \in Workers : Sound(v)'
  BY <1>2, CreateProductSound DEF Atomic!Next, Atomic!ProductStep
<1>3. ASSUME NEW w \in Workers,
             \/ \E m \in Merchants, p \in Products : StartProduct(w, m, p)
             \/ \E m \in Merchants, o \in Orders : StartFinish(w, m, o)
             \/ \E b \in Buyers, p \in Products : StartIntent(w, b, p)
             \/ \E m \in Merchants, i \in Intents : StartAnswer(w, m, i)
      PROVE  /\ [Atomic!Next]_(Atomic!vars)
             /\ Locks' /\ TxTyped' /\ \A v \in Workers : Sound(v)'
  BY <1>1, <1>3, StartsSound
<1>4. ASSUME NEW w \in Workers, Read(w)
      PROVE  /\ [Atomic!Next]_(Atomic!vars)
             /\ Locks' /\ TxTyped' /\ \A v \in Workers : Sound(v)'
  BY <1>1, <1>4, ReadsSound
<1>5. ASSUME NEW w \in Workers, Commit(w)
      PROVE  /\ [Atomic!Next]_(Atomic!vars)
             /\ Locks' /\ TxTyped' /\ \A v \in Workers : Sound(v)'
  BY <1>5, CommitsRefine, EndSound
<1>6. ASSUME NEW w \in Workers, Reject(w) \/ Abort(w)
      PROVE  /\ [Atomic!Next]_(Atomic!vars)
             /\ Locks' /\ TxTyped' /\ \A v \in Workers : Sound(v)'
  BY <1>1, <1>6, NothingWritten, EndSound DEF Reject, Abort
<1>7. CASE UNCHANGED vars
  <2>1. UNCHANGED tables /\ tx' = tx /\ lock' = lock
    BY <1>7 DEF vars, tables
  <2>2. Atomic!TypeOK /\ Atomic!ReferencesLive
    BY TablesFacts DEF IInv
  <2>3. \A v \in Workers : Sound(v)'
    BY <2>1, <2>2, NothingWritten, UntouchedStaysSound DEF IInv
  <2>4. QED
    BY <1>1, <2>1, <2>3 DEF IInv, Locks, TxTyped
<1>8. QED
  BY <1>2, <1>3, <1>4, <1>5, <1>6, <1>7 DEF Next

\* The invariant holds at the start and is kept by every step.
LEMMA InitInv == Init => IInv
<1> SUFFICES ASSUME Init PROVE IInv
  OBVIOUS
<1>1. Alone!IInv
  BY SameInit, AloneAssumption, Alone!InitInv DEF Init
<1>2. Locks /\ TxTyped /\ \A w \in Workers : Sound(w)
  BY InventoryTxAssumption DEF Init, Locks, TxTyped, Sound
<1>3. QED
  BY <1>1, <1>2 DEF IInv

LEMMA NextInv == IInv /\ [Next]_vars => IInv'
<1> SUFFICES ASSUME IInv, [Next]_vars PROVE IInv'
  OBVIOUS
<1>1. [Atomic!Next]_(Atomic!vars) /\ Locks' /\ TxTyped' /\ \A v \in Workers : Sound(v)'
  BY StepRefines
<1>2. Alone!IInv'
  BY <1>1, SameNext, AloneAssumption, Alone!NextInv DEF IInv
<1>3. QED
  BY <1>1, <1>2 DEF IInv

-----------------------------------------------------------------------------
(* The theorems. *)

\* The invariant holds in every state the overlapping transactions reach.
THEOREM Invariance == SafetySpec => []IInv
<1>1. QED
  BY InitInv, NextInv, PTL DEF SafetySpec

\* What a transaction has read for update is still so when it writes, for any number of
\* workers (loadOwnedProductForUpdate, loadOwnedOrderForUpdate, loadOwnedIntent).
THEOREM ReadsTheorem == SafetySpec => []ReadsStayCurrent
<1>1. ASSUME IInv PROVE ReadsStayCurrent
  <2>1. ASSUME NEW w \in Workers, OnCourse(tx[w])
        PROVE  tx[w] # Idle
    <3>1. Idle.kind = "idle"
      BY DEF Idle
    <3>2. tx[w].kind # "idle"
      BY <2>1 DEF OnCourse, Transaction, Kinds, ProductKinds, PlainKinds, AnswerKinds
    <3>3. QED
      BY <3>1, <3>2
  <2>2. ASSUME NEW w \in Workers, tx[w] = Idle
        PROVE  /\ tx[w].read.product = None /\ tx[w].read.order = None /\ tx[w].read.intent = None
               /\ \A r \in Rows : lock[r] # w
    <3>1. /\ Idle.read.product = None /\ Idle.read.order = None /\ Idle.read.intent = None
      BY DEF Idle, NothingRead
    <3>2. \A r \in Rows : lock[r] # w
      BY <1>1, <2>1, <2>2 DEF IInv, Sound
    <3>3. QED
      BY <2>2, <3>1, <3>2
  <2>3. ASSUME NEW w \in Workers, OnCourse(tx[w]) /\ StillTrue(w)
        PROVE  /\ tx[w].read.product # None => tx[w].read.product = product[ProductOf(w)]
               /\ tx[w].read.order # None => tx[w].read.order = order[tx[w].id]
               /\ tx[w].read.intent # None => tx[w].read.intent = intent[tx[w].id]
    BY <2>3 DEF StillTrue
  <2>4. QED
    BY <1>1, <2>1, <2>2, <2>3 DEF IInv, Sound, ReadsStayCurrent
<1>2. QED
  BY <1>1, Invariance, PTL

\* Overlapping transactions change the tables as if each ran alone (every handler of
\* Inventory).
THEOREM SerializableTheorem == SafetySpec => Serializable
<1>1. Init => Atomic!Init
  BY DEF Init
<1>2. IInv /\ [Next]_vars => [Atomic!Next]_(Atomic!vars)
  BY StepRefines
<1>3. QED
  BY <1>1, <1>2, Invariance, PTL DEF SafetySpec, Serializable, Atomic!Spec

\* So what is proved of the handlers one at a time holds when they overlap: no stock and no
\* reservation is negative, a product is locked by exactly the one unfinished order on it, its
\* status agrees with its stock, every unit is accounted for, no order or intent outlives its
\* product, and a buyer has one open intent for a product (createOrder, transitionOrder,
\* adjustStock, handleDeleteProduct, createBuyerIntent).
THEOREM OverlappingTheorem ==
  SafetySpec => [](/\ Alone!TypeOK
                   /\ Alone!ActiveOrderExact /\ Alone!StatusMatchesStock /\ Alone!StockConserved
                   /\ Alone!ReferencesLive /\ Alone!OneOpenIntent)
<1>1. IInv => /\ Alone!TypeOK
              /\ Alone!ActiveOrderExact /\ Alone!StatusMatchesStock /\ Alone!StockConserved
              /\ Alone!ReferencesLive /\ Alone!OneOpenIntent
  BY DEF IInv, Alone!IInv
<1>2. QED
  BY <1>1, Invariance, PTL

\* And no overlap of handlers writes a finished order or a closed intent, or brings a sold out
\* product back onto the shelf (transitionOrder, calculateStockAdjustment).
THEOREM OverlappingStepsTheorem ==
  SafetySpec => Alone!FinishedStaysFinished /\ Alone!RestockDoesNotSell
<1>1. SafetySpec => Alone!Spec
  <2>1. Init => Alone!Init
    BY SameInit DEF Init
  <2>2. IInv /\ [Next]_vars => [Alone!Next]_(Alone!vars)
    BY StepRefines, SameNext
  <2>3. QED
    BY <2>1, <2>2, Invariance, PTL DEF SafetySpec, Alone!Spec
<1>2. Alone!Spec => Alone!FinishedStaysFinished /\ Alone!RestockDoesNotSell
  BY AloneAssumption, Alone!FinishedTheorem, Alone!RestockTheorem
<1>3. QED
  BY <1>1, <1>2

=============================================================================
