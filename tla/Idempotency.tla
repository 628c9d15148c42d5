----------------------------- MODULE Idempotency -----------------------------
(***************************************************************************)
(* Write requests that a client may send several times: runWithIdempotency *)
(* and replayIdempotencyResult of idempotency.go, and the creation of an   *)
(* order, which does not go through them.                                  *)
(*                                                                         *)
(* The first attempt with a key inserts a claim, performs the operation    *)
(* and stores its result, all in one transaction; an attempt that finds    *)
(* the claim taken waits for that transaction and replays the result. The  *)
(* network loses and delays requests and answers, transactions fail, and   *)
(* the process may die at any point.                                       *)
(*                                                                         *)
(* The business of the operations is cut down to one product: its stock    *)
(* and whether an order locks it (module Inventory has the whole of it).   *)
(***************************************************************************)
EXTENDS Naturals, FiniteSets

CONSTANTS
  Requests,  \* what a client wants done, once
  KeyOf,     \* the idempotency scope of a request: key, operator, path
  BodyOf,    \* the hash of a request's body
  Creates,   \* the requests that create an order, without runWithIdempotency
  Tries,     \* bound on how often each request is sent
  MaxStock,  \* the stock the product starts with
  None

ASSUME IdempotencyAssumption ==
  /\ DOMAIN KeyOf = Requests /\ DOMAIN BodyOf = Requests /\ Tries \in [Requests -> Nat]
  /\ Creates \subseteq Requests
  /\ MaxStock \in Nat
  /\ None \notin Requests \X Nat

Attempts == UNION {{r} \X (1..Tries[r]) : r \in Requests}
Keys     == {KeyOf[r] : r \in Requests}

Key(a)  == KeyOf[a[1]]
Body(a) == BodyOf[a[1]]
Keyed(a) == a[1] \notin Creates

VARIABLES
  phase,    \* per attempt, how far it has come
  answer,   \* per attempt, what the client was told
  claim,    \* per scope, the attempt whose uncommitted claim holds the unique key
  record,   \* per scope, the committed idempotency_records row
  product,  \* the product the operations are about
  holder,   \* the attempt whose transaction has locked the product's row
  applied   \* history: the attempts whose operation was committed

vars == <<phase, answer, claim, record, product, holder, applied>>

Phases == {"unsent", "sent", "claimed", "executed", "committed", "conflict", "answered", "lost"}

NoAnswer == [code |-> "none", result |-> None]
Row(a, result) == [body |-> Body(a), result |-> result]
NoRow == [body |-> None, result |-> None]

-----------------------------------------------------------------------------
Init ==
  /\ phase = [a \in Attempts |-> "unsent"]
  /\ answer = [a \in Attempts |-> NoAnswer]
  /\ claim = [k \in Keys |-> None]
  /\ record = [k \in Keys |-> NoRow]
  /\ product = [stock |-> MaxStock, locked |-> FALSE]
  /\ holder = None
  /\ applied = {}

Move(a, to) == phase' = [phase EXCEPT ![a] = to]

Tell(a, code, result) ==
  /\ Move(a, "answered")
  /\ answer' = [answer EXCEPT ![a] = [code |-> code, result |-> result]]

\* The client sends the request, and sends it again as long as nobody told it the outcome:
\* earlier attempts may still be on their way.
Send(a) ==
  /\ phase[a] = "unsent" /\ (a[2] > 1 => phase[<<a[1], a[2] - 1>>] # "unsent")
  /\ \A n \in 1..Tries[a[1]] : answer[<<a[1], n>>].code \notin {"ok", "duplicate"}
  /\ Move(a, "sent")
  /\ UNCHANGED <<answer, claim, record, product, holder, applied>>

Lose(a) ==
  /\ phase[a] \in {"sent", "committed"}
  /\ Move(a, "lost")
  /\ UNCHANGED <<answer, claim, record, product, holder, applied>>

-----------------------------------------------------------------------------
(* The server. *)

\* The insert of the claim waits while another transaction holds the key uncommitted.
\* A defect: the claim is committed before the operation begins.
ClaimCommitted(a) ==
  /\ phase[a] = "sent" /\ Keyed(a)
  /\ claim[Key(a)] = None /\ record[Key(a)] = NoRow
  /\ record' = [record EXCEPT ![Key(a)] = Row(a, None)]
  /\ Move(a, "claimed")
  /\ UNCHANGED <<answer, claim, product, holder, applied>>

\* A defect: the operation starts without looking for the claim of another attempt.
ClaimUnchecked(a) ==
  /\ phase[a] = "sent" /\ Keyed(a) /\ record[Key(a)] = NoRow
  /\ claim' = [claim EXCEPT ![Key(a)] = a]
  /\ Move(a, "claimed")
  /\ UNCHANGED <<answer, record, product, holder, applied>>

Claim(a) ==
  /\ phase[a] = "sent" /\ Keyed(a)
  /\ claim[Key(a)] = None /\ record[Key(a)] = NoRow
  /\ claim' = [claim EXCEPT ![Key(a)] = a]
  /\ Move(a, "claimed")
  /\ UNCHANGED <<answer, record, product, holder, applied>>

ClaimConflict(a) ==
  /\ phase[a] = "sent" /\ Keyed(a)
  /\ claim[Key(a)] = None /\ record[Key(a)] # NoRow
  /\ Move(a, "conflict")
  /\ UNCHANGED <<answer, claim, record, product, holder, applied>>

CanExecute(a) == ~product.locked /\ product.stock > 0

\* The attempts whose transaction is open and may go on to the operation.
Starting(a) == phase[a] = IF Keyed(a) THEN "claimed" ELSE "sent"

Execute(a) ==
  /\ Starting(a) /\ holder = None /\ CanExecute(a)
  /\ holder' = a
  /\ Move(a, "executed")
  /\ UNCHANGED <<answer, claim, record, product, applied>>

\* Rolling a transaction back takes its claim away with everything else.
ReleaseClaim(a) == claim' = [k \in Keys |-> IF claim[k] = a THEN None ELSE claim[k]]
ReleaseRow(a) == holder' = IF holder = a THEN None ELSE holder

\* A defect: a refused operation keeps its claim.
RefuseKeepingClaim(a) ==
  /\ Starting(a) /\ holder = None /\ ~CanExecute(a)
  /\ Tell(a, "refused", None)
  /\ UNCHANGED <<claim, record, product, holder, applied>>

Refuse(a) ==
  /\ Starting(a) /\ holder = None /\ ~CanExecute(a)
  /\ Tell(a, "refused", None)
  /\ ReleaseClaim(a)
  /\ UNCHANGED <<record, product, holder, applied>>

\* A creation locks the product, any other operation here takes a unit of its stock.
Effect(a) ==
  IF Keyed(a) THEN [product EXCEPT !.stock = @ - 1] ELSE [product EXCEPT !.locked = TRUE]

\* The result is stored by the transaction that did the work.
Commit(a) ==
  /\ phase[a] = "executed"
  /\ product' = Effect(a)
  /\ applied' = applied \cup {a}
  /\ record' = IF Keyed(a) THEN [record EXCEPT ![Key(a)] = Row(a, a)] ELSE record
  /\ ReleaseClaim(a) /\ ReleaseRow(a)
  /\ Move(a, "committed")
  /\ UNCHANGED answer

\* An error of the database, a result that cannot be stored, or the death of the process.
Abort(a) ==
  /\ phase[a] \in {"sent", "claimed", "executed", "conflict"}
  /\ Tell(a, "error", None)
  /\ ReleaseClaim(a) /\ ReleaseRow(a)
  /\ UNCHANGED <<record, product, applied>>

Answer(a) ==
  /\ phase[a] = "committed"
  /\ Tell(a, "ok", a)
  /\ UNCHANGED <<claim, record, product, holder, applied>>

\* A defect: the replay does not compare the bodies.
SameBodyAssumed(a, row) == TRUE

SameBody(a, row) == row.body = Body(a)

Replay(a) ==
  LET row == record[Key(a)]
  IN /\ phase[a] = "conflict"
     /\ \/ row = NoRow /\ Tell(a, "error", None)
        \/ row # NoRow /\ ~SameBody(a, row) /\ Tell(a, "duplicate", None)
        \/ row # NoRow /\ SameBody(a, row) /\ row.result = None /\ Tell(a, "error", None)
        \/ row # NoRow /\ SameBody(a, row) /\ row.result # None /\ Tell(a, "ok", row.result)
     /\ UNCHANGED <<claim, record, product, holder, applied>>

\* A defect: a completed order does not free its product.
OrderCompletedKeepingLock ==
  /\ product.locked /\ holder = None
  /\ product' = [product EXCEPT !.stock = @ - 1]
  /\ UNCHANGED <<phase, answer, claim, record, holder, applied>>

\* The order is completed, by a request of its own: the product can be ordered again.
OrderCompleted ==
  /\ product.locked /\ holder = None
  /\ product' = [stock |-> product.stock - 1, locked |-> FALSE]
  /\ UNCHANGED <<phase, answer, claim, record, holder, applied>>

-----------------------------------------------------------------------------
Serve(a) ==
  \/ Claim(a) \/ ClaimConflict(a) \/ Execute(a) \/ Refuse(a) \/ Commit(a) \/ Answer(a) \/ Replay(a)

Next ==
  \/ \E a \in Attempts : Send(a) \/ Lose(a) \/ Abort(a) \/ Serve(a)
  \/ OrderCompleted

Fairness == \A a \in Attempts : WF_vars(Serve(a))

SafetySpec == Init /\ [][Next]_vars

Spec == SafetySpec /\ Fairness

-----------------------------------------------------------------------------
(* Properties. *)

TypeOK ==
  /\ phase \in [Attempts -> Phases]
  /\ answer \in [Attempts -> [code : {"none", "ok", "refused", "duplicate", "error"},
                               result : Attempts \cup {None}]]
  /\ claim \in [Keys -> Attempts \cup {None}]
  /\ record \in [Keys -> [body : {BodyOf[r] : r \in Requests} \cup {None},
                           result : Attempts \cup {None}]]
  /\ product \in [stock : Nat, locked : BOOLEAN]
  /\ holder \in Attempts \cup {None}
  /\ applied \subseteq Attempts

KeyedAttempts == {a \in Attempts : Keyed(a)}

\* The effect and its record stand or fall together, whatever fails in between: a key has a
\* record exactly if an attempt with it took effect, and it is that attempt's
\* (runWithIdempotency).
EffectsRecorded ==
  /\ \A k \in Keys : record[k] # NoRow =>
       \E a \in applied : Keyed(a) /\ Key(a) = k /\ record[k] = Row(a, a)
  /\ \A a \in applied : Keyed(a) => record[Key(a)] = Row(a, a)

\* An attempt that lost the race for the key always finds a finished result to replay, so
\* the "null" of a claim is never read (replayIdempotencyResult).
ConflictFindsResult ==
  \A a \in Attempts : phase[a] = "conflict" => record[Key(a)].result \in applied

Once == INSTANCE OnceOnly
  WITH Attempts <- KeyedAttempts, Keys <- Keys, KeyOf <- Key, BodyOf <- Body, None <- None,
       done <- [k \in Keys |-> record[k].result],
       answered <- [a \in KeyedAttempts |-> answer[a].result]

\* A request that goes through runWithIdempotency is performed once, and every answer "ok"
\* carries the result of that one execution for that very body.
KeepsThePromise == Once!Spec

\* Every attempt that is sent ends, waiting for a claim included (runWithIdempotency).
EveryAttemptEnds ==
  \A a \in Attempts : phase[a] \notin {"unsent", "answered", "lost"} ~>
                       phase[a] \in {"answered", "lost"}

\* docs/backend-api-checklist.md counts the creation of an order among the writes of which
\* "the same Idempotency-Key + operator_id + path executes only once" (handleCreateOrder).
ExecutedOncePerKey ==
  \A a, b \in applied : Key(a) = Key(b) => a = b

=============================================================================
