# Second-hand market backend: TLA+ models, checks and proofs

The repository is a small second-hand market: a Go API server over MySQL (SQLite in tests), a web
client for merchants and admins, and a mini program for buyers. This directory models the parts
whose correctness depends on the order of things: overlapping requests, retries, failures and long
sequences of legal calls.

Run a check with `tlc -config <cfg> <module>.tla` and the proofs with `tlapm <module>Proofs.tla`.

## 1. The system

One API process serves requests concurrently. It keeps no business state in memory apart from the
rate limiter; everything else is rows, read and written in transactions with `SELECT ... FOR UPDATE`
where the code asks for it. So two requests interact only through rows, row locks and unique
indexes, and through what they read before a transaction or an unlock and use after it.

| Component (backend/internal/app unless said otherwise) | State | Operations | What is hard | What makes it correct |
|---|---|---|---|---|
| Product, stock and order lifecycle (`inventory_service.go`, `product_handlers.go`, `order_handlers.go`, `ownership.go`, `../stateflow`) | `products`, `orders`, `product_stock_adjustments` | create, edit, delete, shelve, adjust stock, create / complete / close an order | two rows per operation; statuses that depend on stock; overlapping requests | reservation, LOCKED and active order agree; stock is conserved; nothing empty is on sale |
| Buyer intents (`buyer_intent_state.go`, `merchant_intent_handlers.go`, `handleBuyerIntentCreate`) | `buyer_intents` | create, contacted, close | a look at the product before the transaction; two creations at once | one open intent per buyer and product; closed is final; the product is live |
| Idempotent writes (`idempotency.go`) | `idempotency_records` | claim, execute and store, replay | lost and repeated requests, rollback while another attempt waits | one effect per key; a success carries that effect's result |
| Sessions and passwords (`session_guard.go`, `auth_handlers.go`, `admin_security.go`, `admin_accounts.go`, `merchant_handlers.go`) | `auth_sessions`, `admin_users`, `merchant_accounts` | login, refresh, logout, guard, change / reset password, disable | bcrypt and several statements between reading and writing | no session outlives its password; revoked is final; a reset stands |
| Buyer favourites, history, guest merge (`buyer_handlers.go`) | `buyer_users`, `buyer_favorites`, `buyer_histories`, `buyer_device_bindings` | add, delete, view, log in, merge a device | reads without locks, counters added up from what was read before, a guest's calls beside the merge of the device | a view counts twice, and a favourite is lost, in one kind of overlap each and in no other; nothing is given to two accounts |
| Mini-program session (`miniapp/src/services/request.ts`, `stores/session.ts`) | tokens in the store, the refresh in flight | login, logout, request, refresh, replay | answers that arrive after the session changed; rotation of refresh tokens; a logout that ends late | no answer revives an old session; nobody is logged out by sending many requests; every request ends |
| Image backfill (`backend/scripts/backfill_product_images`) | `image_backfill_items`, file records, objects | recover, publish, stage, commit, clean up | a crash between any two steps, two operators, the server beside it | a record's object, or the one it was made from, exists; the ledger tells what happened; leftovers are settled |
| Files (`file_handlers.go`, `../media/local_storage.go`, `product_handlers.go`) | `files`, objects on disk | presign, upload, publish, save, undo, delete with a product | disk and database are not one transaction; two uploads for one row | a record that passed has its whole object, and that does not change |
| Merchant categories (`category_handlers.go`) | `categories` | create, revive, rename, enable, delete | names that deleted rows keep; two levels; products created meanwhile | a live product's category exists |
| Rate limiter (`rate_limiter.go`) | hits per bucket | allow | pruning in place | never more than the limit in a window |

Interactions: `runWithIdempotency` wraps the transactions of shelving, stock adjustment, order
completion and closing, and of all three intent operations (but not the creation of an order, nor
the creation, edit and deletion of a product); every handler behind authentication runs after
`sessionGuard`; orders, intents and deletion meet on the product's row; deletion removes files that
only its images used; the backfill rewrites file records while the server runs; the clients drive
refresh and retries.

Not modelled, with the reasons in `PROJECT.json` and below: the rate limiter, the web client's copy of
the session protocol, image processing, identity providers, configuration and start-up checks, schema
checks, migrations and one-shot maintenance commands, read-only views, pages and deployment. The
hazards are listed at their lines in `PROJECT.json`.

## 2. Modules

| Module | Models | State and actions |
|---|---|---|
| `Inventory` | products, stock, orders, intents | the tables as functions from ids to rows; one action per committed transaction of a handler. Row operators (`CanOrder`, `Ordered`, `CanFinish`, `Completed`, `CanAdjust`, ...) are the checks and writes on the locked rows. `supplied` is a history variable: what creation, edits and stock movements brought in |
| `InventoryTx` | the same handlers as overlapping transactions | per worker the handler it runs, what it has read and what it still has to read (`Steps`); row locks; commit, rejection, and abort at any point. Its writes reuse the row operators of `Inventory` |
| `OnceOnly` | the promise of an idempotency key | abstract: which attempt of a key was performed, which result an attempt was answered with |
| `Idempotency` | `runWithIdempotency`, `replayIdempotencyResult`, and the creation of an order beside them | per attempt its phase and answer; the uncommitted claim and the committed record of a key; a cut-down product; loss, retry, abort |
| `Sessions` | login, refresh, logout, guard, passwords | accounts, session rows, the request each worker is in the middle of, the lock on an admin's row, a clock in seconds |
| `BuyerRecords` | favourites, views, login with a device, merge | rows per owner (device or buyer) and product; per worker the snapshot its call has read; a call is `Begin...` (snapshot) and `Commit...` (writes by id and column) or `Abort`. `views`, `overtaken`, `doubled` and `wanted` are history: the views counted, the views under way whose row a merge has given away, what those counted again, what was favourited and not given up |
| `Catalogue` | categories, products in them, files and objects, uploads | category rows as they are searched by name, products with category and images, file rows, objects with their content, per upload the step it has reached (`Publish`, `Save`, `Undo`, `Die`) |
| `ClientRefresh` | the mini program's session against the server's rotation | the store, the state of every request, the logouts under way, the refreshes so far, what the server holds; each client action is what runs between two awaits, so a logout is two, `BeginLogout` (its request) and `EndLogout` (the store is emptied) |
| `ImageBackfill` | the backfill command beside the server | rows, both objects, ledger items per run and file, what each command is doing, the database lock; `Crash` at any step, server writes that have begun |
| `InventoryProofs`, `InventoryTxProofs`, `IdempotencyProofs`, `SessionsProofs`, `BuyerRecordsProofs`, `CatalogueProofs`, `ClientRefreshProofs`, `ImageBackfillProofs` | | TLAPS proofs about the module of that name |

`MC...` modules add only the symmetry sets and the functions a `.cfg` cannot write.

How the code maps to the models:

- **A request that fails** writes nothing, because its transaction is rolled back. In `Inventory` it
  is no step; in `InventoryTx` it is `Reject` or `Abort`, in `Idempotency` `Refuse` or `Abort`, in
  `Sessions` `Fail`.
- **"Already in that status"** answers (order, shelf and intent handlers) write nothing either:
  `AlreadyDone`.
- **Locks.** `FOR UPDATE` waits until no other transaction holds the row (`Acquire`, `Hold`). A
  transaction's writes are published when it commits, all of them at once.
- **Unique index of `idempotency_records`.** An insert waits while another transaction holds the same
  key uncommitted; after its commit it fails as a duplicate, after its rollback it succeeds
  (`Claim`, `ClaimConflict`).
- **Deletion** of a product sets `deleted_at` (row `"deleted"`); every other query skips the row.
- **Passwords** are counted: bcrypt salts each hash, so two are never equal. **Refresh tokens** name
  the second they were built in, as the JWT's claims do.
- **Reads without a lock.** MySQL runs a transaction on the snapshot of its first read, while its
  `UPDATE`s go to the rows as they are then. `BuyerRecords` keeps the snapshot in the call and writes
  column by column; a unique index makes the losing insert an `Abort`.
- **Publishing without replacing** is one hard link or, where links fail, a create and a write in place
  with a moment in between (`Catalogue`, `ImageBackfill`).
- **Abstracted data:** titles, prices, images, categories, notes, timestamps, `version`, events and
  audit rows. They appear in no guard of the modelled handlers except as validation of the input,
  which either passes or makes the request fail.

## 3. Runs

| Run | Instance | Shows |
|---|---|---|
| `inventory` | 2 merchants, 2 products, 3 orders, 2 buyers, 2 intents, stock at most 2 | all invariants and action properties of `Inventory` |
| `inventory_tx` | 2 workers, 1 merchant, 1 product, 2 orders, 2 buyers, 2 intents, stock at most 2 | overlapping handlers refine `Inventory` (`Serializable`); what was read under a lock is still current |
| `inventory_tx_liveness` | 2 workers, 1 product, 1 order, 2 intents, stock 1 | every transaction ends: no deadlock among row locks |
| `idempotency` | 2 requests with one key and different bodies (2 attempts each), 1 order creation (1 attempt), stock 2 | one effect per key, effect and record together, the refinement of `OnceOnly`, and that every attempt ends, whether the holder of the claim it waits for succeeds, is refused or fails |
| `idempotency_order` | 1 order creation, 2 attempts | violated: a retried creation is performed twice |
| `sessions` | 1 admin, 1 merchant, 3 sessions, 2 workers, 2 replacements, 2 seconds | admin sessions, revocation, resets |
| `sessions_merchant` | the same with 2 sessions and 1 replacement | violated: a merchant session that outlives its password |
| `buyer_records` | 1 device, 2 buyers, 1 product, 2 workers, times 1 and 2, 2 views | merges that overlap and are repeated, beside views, favourites and deletions of the same device and accounts |
| `catalogue` | 3 category rows of 2 names, 2 products, 2 files, 2 uploads | whole and immutable images, images and categories of live products |
| `category_names` | 2 rows, 2 names, 1 product, file and upload | violated: two live categories of one name |
| `client_refresh` | 3 requests (any of them a logout), 2 logins, 2 pairs of tokens per login | own identity, no accidental logout, every request ends |
| `image_backfill` | 1 file, 2 runs, 2 commands, 2 faults, 1 edit | copies, ledger, one run per file, leftovers settle, clean-up converges |

Why these bounds are enough to be of use. The inventory handlers touch one product and one order or
intent at a time, so two products show that a handler leaves the other one alone, three orders let a
product be ordered, closed or completed and ordered again beside another one, and a stock of two
separates "one left" from "none left" from "reserved". The transactions of `InventoryTx` conflict
pairwise on the rows of one product; two workers give every pair. The proofs of section 5 carry the
invariants of `Inventory`, and the atomicity of the transactions, to all sizes. Two requests on a key
with two attempts each contain a race, a retry after a lost answer, a retry while the first is still
running, and a reuse with another body. Three sessions are an admin's, which a reset needs, one that
exists when the password is replaced, and one whose login is in progress; two replacements are a reset
and the change it races. In `buyer_records` the two workers run two merges, of one buyer or of two after
each other, or a merge and a view, and two views make a count that a double merge would exceed, and let
the second of them be overtaken by a merge of the first; products are independent of each other in this
code, so one suffices. (With three views the run passes too, in three minutes.) Three category rows are
a deleted one, a live one of its name and a parent. Three requests are two that share a refresh and one
that waits for another session's, or a logout tapped twice beside one of them; two pairs of tokens let
each session be renewed once, with the renewal of the other under way. (With three pairs the run passes
too, in more than three minutes.) The backfill takes files one by one and keeps nothing from one to the
next, so one file is enough, with a second run and a second command to disturb it; two faults are a
crash and another one during the recovery. The constants `MaxStock`, `Tries`, `MaxHash`, `MaxTime`,
`MaxViews`, `MaxRequests`, `MaxLogins`, `MaxGen`, `MaxFaults` and `MaxEdits` bound the instances only,
not the code.

Deadlock checking is off where the bounded ids, attempts, seconds, uploads or requests run out
(`Inventory`, `Idempotency`, `Sessions`, `Catalogue`, `ClientRefresh`); in `InventoryTx`, `BuyerRecords`
and `ImageBackfill`, where something can always start or fail, it stays on.

Fairness. A handler is straight-line code that goes on as long as it is not blocked, so its next
step is weakly fair (`Commit`, `Reject`, `Serve`). A lock is handed over in the order of InnoDB's
queue, so a waiter whose rows become free again and again is eventually served: `Read` is strongly
fair. Starting a request, losing a message and aborting are not fair: the properties may not rely on
anybody sending anything or on errors to resolve a deadlock. In `ClientRefresh` every call of the client
ends with an answer or an error of its own (`wx.request` times out) and a promise that settles runs its
continuation: `Handle` of every request (a logout's end included) is weakly fair, and so is `Call` of the
refreshes together, of which one runs at a time. In `ImageBackfill` a running command goes on and the
server ends its requests (weak fairness); the operator runs apply and clean-up of a run again until
nothing is left, which the lock of another command may keep refusing for a while, so starting them is
strongly fair. Crashes are bounded by `MaxFaults` and never fair.

## 4. Findings

- `idempotency_order`: `docs/backend-api-checklist.md:50-52` counts the creation of an order among the
  endpoints that execute a key once only; `handleCreateOrder` does not use the idempotency records.
- `sessions_merchant`: `docs/operations/custom-merchant-accounts.md:13` says that resetting or changing
  the password revokes all sessions; a merchant login that overlaps it keeps its session. Admin
  logins, which lock the account's row, are checked not to have this race.
- `category_names`: creating a category refuses a name that a live category of the level has;
  `createOwnedCategory` looks at the first row of the name only, deleted rows included, and revives it.
  After a deletion and a rename a deleted and a live row share a name, and the next creation makes a
  second live one.

## 5. Proofs

Every modelled component is proved about, for all values of its constants. No theorem assumes more than
the module's named `ASSUME` (which TLC evaluates in the runs): numbers are natural, sets of different
things are disjoint, `None` is nothing else (no row either), and for `StockConserved` that the set of
orders is finite. Nothing is assumed of the number of products, workers, devices, buyers, files, runs or
commands.

| Module | Theorems and the properties they state |
|---|---|
| `InventoryProofs` | `TypeCorrect`, `ActiveOrderTheorem` (`ActiveOrderExact`), `StatusTheorem` (`StatusMatchesStock`), `StockTheorem` (`StockConserved`), `ReferencesTheorem` (`ReferencesLive`), `IntentTheorem` (`OneOpenIntent`), `FinishedTheorem` (`FinishedStaysFinished`), `RestockTheorem` (`RestockDoesNotSell`) |
| `InventoryTxProofs` | `ReadsTheorem` (`ReadsStayCurrent`), `SerializableTheorem` (`Serializable`, the refinement of `Inventory`), and what follows from it: `OverlappingTheorem` (overlapping transactions keep the invariants of `Inventory`), `OverlappingStepsTheorem` (and its action properties) |
| `IdempotencyProofs` | `TypeCorrect`, `EffectsTheorem` (`EffectsRecorded`), `ConflictTheorem` (`ConflictFindsResult`), `PromiseTheorem` (`KeepsThePromise`, the refinement of `OnceOnly`) |
| `SessionsProofs` | `TypeCorrect`, `AdminTheorem` (`AdminSessionsProvePassword`), `ReplacementTheorem` (`NoUsableSessionOutlivesPassword`), `RevokedTheorem` (`RevokedStaysRevoked`), `ResetTheorem` (`ResetStands`) |
| `BuyerRecordsProofs` | `TypeCorrect`, `FavouriteTheorem` (`NoFavouriteLost`), `GivenTheorem` (`GivenOnce`), `CountTheorem` (`CountedOnce`) |
| `CatalogueProofs` | `TypeCorrect`, `WholeTheorem` (`PassedIsWhole`), `ImagesTheorem` (`ImagesKept`), `CategoriesTheorem` (`CategoriesKept`), `ImmutableTheorem` (`PassedIsImmutable`) |
| `ClientRefreshProofs` | `TypeCorrect`, `IdentityTheorem` (`OwnIdentity`), `SessionTheorem` (`SessionKept`) |
| `ImageBackfillProofs` | `TypeCorrect`, `CopyTheorem` (`KeepsACopy`), `LedgerTheorem` (`LedgerIsTrue`), `OneRunTheorem` (`OneRunPerFile`), `LockTheorem` (two commands are never at work at once) |

Each has one inductive invariant `IInv`, a lemma per action with a step per conjunct the action can
disturb, and `Invariance`. What the invariants add to the properties is where the arguments are:

- **Inventory.** None of the properties is inductive alone: that closing an order leaves no reservation
  needs the reservation to be exactly that order's; that nothing empty is put on sale needs a completed
  order to have been the only one holding stock; that no order names a deleted product needs an
  unfinished order's product to be LOCKED, which cannot be deleted. `StockConserved` counts completed
  orders and cites the cardinality of a finite set with one element added.
- **InventoryTx.** `Sound`: a worker is idle and holds no lock, or it holds the rows it has read, and they
  are still what it read. A commit writes only rows it has locked, so it disturbs nobody else's reads
  (`ReadsStayCurrent`); with current reads its checks are the guards of `Inventory`, so a commit is one of
  `Inventory`'s steps and everything else a stutter. With the refinement the theorems of `InventoryProofs`
  hold of the overlapping transactions; its invariant is a conjunct of this one, which thereby knows the
  types of the rows.
- **Idempotency.** An uncommitted claim belongs to exactly one attempt that is executing, a committed
  record was written with the effect of the attempt that held it, and an attempt that lost the insert
  has a committed record before it. The refinement maps the abstract "performed" to the committed record;
  every step is a step of `OnceOnly` or a stutter.
- **Sessions.** `VerifiedIsCurrent`: what an admin's login or change has verified is the password of now,
  because the row is locked by exactly that request (`Locks`) and only its holder replaces an admin's
  password. `AdminsProve` is stronger than the property: it speaks of unrevoked rows, usable or not.
- **BuyerRecords.** `ReadsHold`: of the snapshot a merge has read, the part that matters still holds when
  it commits: what it takes was given to nobody else, and a favourite it found in the account is there
  unless it was given up. It needs `OneBuyer` (a device is merged into one account at a time), and the
  second half is why an addition beside a merge that has missed a deletion (`StillGivenUp`) cannot count
  as kept. `CountedOnce` is about a sum, which the provers cannot take apart row by row; it is stated as
  the number of elements of the set of views that rows count. Its invariant, `CountsCovered`, gives every
  view counted so far a home, a row in which it may count: a new view is at home where it was made, a
  merge moves the homes of what it takes. No row, and no row that a call in progress has read, counts
  more than is at home there; a merge's sum of two stale counts is covered by the homes of both rows
  together, which no other merge can change. Only what a view has read may be covered no longer, when a
  merge has moved the homes away (`Stale`); the count it then writes back gets homes of its own, which is
  what `doubled` counts. So the counted views inject into the views and the doubled ones.
- **Catalogue.** An object of a row that passed has no upload left that would write or remove it, and a
  deletion removes objects of deleted rows only.
- **ClientRefresh.** `OncePerToken` (tokens are renewed once, never return to the store, and only the
  last renewal runs), `Current` (the store holds the server's last tokens, or their renewal is on its
  way or was lost) and `Fresh` (no request is replayed with tokens past their time): a renewal is
  refused only when the session is over or an answer was lost. A logout that ends empties the store of
  nobody, of a login it knew, or of a later one, which is one of the `troubled` from then on.
  `OneFlightPerToken` maps refreshes into the tokens the client was given, which bounds their number.
- **ImageBackfill.** `OnCourse`: what a command is about to do is justified by what it read before, step
  by step, because it holds the lock of the database (one that dies starts over) and the server's writes,
  begun long before or not, only take away: they delete rows, and remove objects of deleted rows
  (`Removals`). `KeepsACopy` follows where an object is removed,
  `LedgerIsTrue` where a row or an item changes. No bound on faults or edits is used.

Every invariant and every safety property of the passing runs is stated by a theorem. Only model-checked:
the liveness properties (`EveryTransactionEnds`, `EveryAttemptEnds`, `EveryRequestEnds`,
`LeftoversSettle`, `CleanupConverges`), because liveness under fairness and `ENABLED` are beyond the
prover. The findings of section 4 are counterexamples of TLC.

## 6. Limits

- InnoDB's gap locks and the deadlocks they can cause are not modelled: such a deadlock rolls one
  transaction back, which is `Abort`.
- In `Inventory` and `InventoryTx` the stock is a natural number up to `MaxStock`; the width of the
  column is not modelled (a statement that exceeds it fails and is an `Abort`).
- The look at the product that `handleBuyerIntentCreate` does before consulting the idempotency
  record is in `InventoryTx` (where it is only an early refusal), not in `Idempotency`.
- `Sessions` leaves out buyers, the review status of merchants (no handler changes it) and the gate
  that keeps a merchant with an initial password from the business pages.
- `BuyerRecords` assumes one thing of the client: merges of one device into two accounts do not overlap
  (`OtherAccountMerges`). A mini program logs in with one identity of its platform, and the login page
  awaits the merge (`miniapp/src/pages/login/index.tsx:28`); a merge that outlives its client until another
  account logs in there is not modelled, and `GivenOnce` would not survive it. The guest's own calls
  overlap merges as they like, because the pages do not wait for them. Two such overlaps cost something,
  and the properties name them: a view under way while its row is given away writes back the count it had
  read (`doubled`, `buyer_handlers.go:868`), and a favourite added on the device is deactivated by a merge
  that takes it for the account's, where it was given up meanwhile (`StillGivenUp`,
  `buyer_handlers.go:566`). The theorems say that nothing else does, however calls overlap.
  A favourite that is added again after it was merged keeps its merge mark, so a later merge does not
  take it (a known gap, `docs/architecture-evolution-plan-2026-07-24.md:63`); `NoFavouriteLost` says that
  it is not lost. Rate limits, lists, and the time stamps of bindings and of first views are left out.
- `Catalogue`: category and product requests of one merchant come one after the other; the handlers take
  no locks there, and two that overlap can delete a category under a new product (listed as a hazard).
  A failed row update is assumed not to have happened. The bytes of an image are a model value.
  Deleting a level-1 category deletes its children with it if they are empty, as `category_handlers.go:213-228`
  does; `docs/decisions/2026-08-15-merchant-category-management-design.md:95,140` would have it refused as
  long as there are children.
- `ClientRefresh`: tokens outlive every request made before them and the replay of one (`Expire`); the
  JWT's granularity of a second and the server's rows are `Sessions`' business. The store's new tokens
  and the outcome of the refresh are set in one step.
  A logout empties the store when its request has ended, without a look at whose session it holds
  (`miniapp/src/pages/me/index.tsx:18-24`), and its button can be tapped twice: a login made meanwhile is
  lost, after a second tap or behind a slow answer. `SessionKept` counts that among the ways to lose a
  session (`troubled`), and says that nothing but a logout from before the login does it. What the user
  takes for current (`who`) is left by a logout that knew it.
- `ImageBackfill`: the gateway's write freeze during an apply is assumed, as the design document asks. Dry
  runs, batches and counters are left out. The server attaches any file whose row it finds, one that a
  product shows already too, so clean-up meets a deleted file that is referred to (`CountReferences`).
  The lock lives as long as the process: `run` works on `db` and not on the connection that holds the lock
  (`main.go:127-141`), and nothing watches that connection, so a command that loses it goes on beside
  another one. That is not modelled.

  Where the code differs from `docs/decisions/2026-07-30-image-delivery-optimization-design.md`, the model
  follows the code. The first two cost no image that is in use (`KeepsACopy`).
  - Line 206 speaks of regenerating and comparing; an item that dies after publishing and before staging is
    marked FAILED (`TARGET_HASH_MISMATCH`).
  - Line 222 asks that clean-up deletes no object if any hash differs; of a file whose row is gone the source
    is removed before the target is looked at (`main.go:818-823`, `RemoveSource`, then `RemoveTarget`).
  - Lines 190, 278 and 298 ask that a command stops when it loses the connection of its lock; see above.

  A commit reported as failed that took place leaves its old object for ever.

**Not modelled.** The rate limiter is one sequential function under a mutex (its time is read before the
mutex, which can admit one hit per request that waits a whole window for it). The web client follows the
mini program's scheme with a version counter; two tabs that share stored tokens may refresh the same one
and log each other out. Image processing and identity providers are external. Configuration, start-up
guards, `buyer_intent_schema.go`, migrations, seeds and maintenance commands run alone, once.
Read-only views, pages and deployment keep no state of their own.

## 7. Plan

Done: `Inventory`, `InventoryTx`, `OnceOnly` and `Idempotency`, `Sessions`, `BuyerRecords`, `Catalogue`,
`ClientRefresh`, `ImageBackfill`, and the proofs of section 5.

Left, in this order: theorems about the parts of a session that no property states yet (an admin's row
and the requests waiting for it; a device's binding after a merge), the hazards without a property in
`PROJECT.json`, and the web client's session version.
