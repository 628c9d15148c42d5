-------------------------- MODULE IdempotencyProofs --------------------------
(***************************************************************************)
(* What Idempotency promises, for any requests, keys, bodies, bounds on    *)
(* retries and stock.                                                      *)
(***************************************************************************)
EXTENDS Idempotency, TLAPS

\* A claim belongs to the one attempt that is performing the operation of its key, and there
\* is no result of that key yet.
ClaimsHeld ==
  /\ \A k \in Keys : claim[k] # None =>
       /\ Keyed(claim[k]) /\ Key(claim[k]) = k
       /\ phase[claim[k]] \in {"claimed", "executed"}
       /\ record[k] = NoRow
  /\ \A a \in Attempts : Keyed(a) /\ phase[a] \in {"claimed", "executed"} => claim[Key(a)] = a
  /\ \A a \in Attempts : phase[a] = "claimed" => Keyed(a)

\* Whoever lost the race for a key lost it to a stored result.
ConflictsLate ==
  \A a \in Attempts : phase[a] = "conflict" => Keyed(a) /\ record[Key(a)] # NoRow

\* The product's row is held while an operation that passed its checks is under way.
RowHeld ==
  /\ \A a \in Attempts : phase[a] = "executed" =>
       holder = a /\ product.stock > 0 /\ ~product.locked
  /\ product.locked => product.stock > 0

\* Nobody is told anything before the end, and what is committed was applied.
AnswersLast ==
  \A a \in Attempts :
    /\ phase[a] # "answered" => answer[a] = NoAnswer
    /\ phase[a] = "committed" => a \in applied

IInv == TypeOK /\ ClaimsHeld /\ EffectsRecorded /\ ConflictsLate /\ RowHeld /\ AnswersLast

-----------------------------------------------------------------------------
(* Attempts, keys and rows. *)

\* An attempt is a request and a number; it has a key and a body and is not None.
LEMMA AttemptFacts ==
  ASSUME NEW a \in Attempts
  PROVE  /\ a[1] \in Requests /\ a # None
         /\ Key(a) \in Keys /\ Body(a) \in {BodyOf[r] : r \in Requests}
<1>1. PICK r \in Requests : a \in {r} \X (1..Tries[r])
  BY DEF Attempts
<1>2. a[1] = r /\ a \in Requests \X Nat
  BY <1>1
<1>3. QED
  BY <1>2, IdempotencyAssumption DEF Key, Body, Keys

\* A stored result is told from no row by the attempt it names.
LEMMA RowFacts ==
  ASSUME NEW a \in Attempts
  PROVE  /\ Row(a, a) # NoRow /\ Row(a, a).result = a /\ Row(a, a).body = Body(a)
         /\ NoRow.result = None
BY AttemptFacts DEF Row, NoRow

-----------------------------------------------------------------------------
(* The inductive invariant. *)

\* Nothing has been sent, claimed or stored at the start.
LEMMA InitInv == Init => IInv
<1> SUFFICES ASSUME Init PROVE IInv
  OBVIOUS
<1>1. TypeOK
  BY IdempotencyAssumption DEF Init, TypeOK, Phases, NoAnswer, NoRow
<1>2. ClaimsHeld /\ ConflictsLate /\ RowHeld /\ AnswersLast /\ EffectsRecorded
  BY DEF Init, ClaimsHeld, ConflictsLate, RowHeld, AnswersLast, EffectsRecorded
<1>3. QED
  BY <1>1, <1>2 DEF IInv

\* Sending and losing move one attempt between phases in which it holds nothing.
LEMMA NetworkInv ==
  ASSUME IInv, NEW a \in Attempts, Send(a) \/ Lose(a)
  PROVE  IInv'
<1>1. /\ phase' = [phase EXCEPT ![a] = phase'[a]] /\ phase'[a] \in {"sent", "lost"}
      /\ phase[a] \in {"unsent", "sent", "committed"}
      /\ UNCHANGED <<answer, claim, record, product, holder, applied>>
  BY DEF Send, Lose, Move, IInv, TypeOK
<1>2. TypeOK'
  BY <1>1 DEF IInv, TypeOK, Phases
<1>3. ClaimsHeld'
  BY <1>1 DEF IInv, TypeOK, ClaimsHeld
<1>4. (ConflictsLate /\ RowHeld /\ AnswersLast /\ EffectsRecorded)'
  BY <1>1 DEF IInv, TypeOK, ConflictsLate, RowHeld, AnswersLast, EffectsRecorded
<1>5. QED
  BY <1>2, <1>3, <1>4 DEF IInv

\* A claim is made for a key nobody holds and nothing is stored under.
LEMMA ClaimInv ==
  ASSUME IInv, NEW a \in Attempts, Claim(a)
  PROVE  IInv'
<1>1. /\ phase' = [phase EXCEPT ![a] = "claimed"] /\ claim' = [claim EXCEPT ![Key(a)] = a]
      /\ phase[a] = "sent" /\ Keyed(a) /\ claim[Key(a)] = None /\ record[Key(a)] = NoRow
      /\ UNCHANGED <<answer, record, product, holder, applied>>
  BY DEF Claim, Move
<1>2. TypeOK'
  BY <1>1, AttemptFacts DEF IInv, TypeOK, Phases
<1>3. ClaimsHeld'
  BY <1>1, AttemptFacts DEF IInv, TypeOK, ClaimsHeld
<1>4. (ConflictsLate /\ RowHeld /\ AnswersLast /\ EffectsRecorded)'
  BY <1>1 DEF IInv, TypeOK, ConflictsLate, RowHeld, AnswersLast, EffectsRecorded
<1>5. QED
  BY <1>2, <1>3, <1>4 DEF IInv

\* An attempt that finds a committed row turns to the replay.
LEMMA ClaimConflictInv ==
  ASSUME IInv, NEW a \in Attempts, ClaimConflict(a)
  PROVE  IInv'
<1>1. /\ phase' = [phase EXCEPT ![a] = "conflict"]
      /\ phase[a] = "sent" /\ Keyed(a) /\ record[Key(a)] # NoRow
      /\ UNCHANGED <<answer, claim, record, product, holder, applied>>
  BY DEF ClaimConflict, Move
<1>2. TypeOK'
  BY <1>1 DEF IInv, TypeOK, Phases
<1>3. ClaimsHeld'
  BY <1>1 DEF IInv, TypeOK, ClaimsHeld
<1>4. (ConflictsLate /\ RowHeld /\ AnswersLast /\ EffectsRecorded)'
  BY <1>1 DEF IInv, TypeOK, ConflictsLate, RowHeld, AnswersLast, EffectsRecorded
<1>5. QED
  BY <1>2, <1>3, <1>4 DEF IInv

\* The operation holds the row it has checked.
LEMMA ExecuteInv ==
  ASSUME IInv, NEW a \in Attempts, Execute(a)
  PROVE  IInv'
<1>1. /\ phase' = [phase EXCEPT ![a] = "executed"] /\ holder' = a /\ holder = None
      /\ phase[a] \in {"sent", "claimed"} /\ (Keyed(a) => phase[a] = "claimed")
      /\ ~product.locked /\ product.stock > 0
      /\ UNCHANGED <<answer, claim, record, product, applied>>
  BY DEF Execute, Starting, CanExecute, Move
<1>2. \A b \in Attempts : phase[b] # "executed"
  BY <1>1, AttemptFacts DEF IInv, RowHeld
<1>3. TypeOK'
  BY <1>1 DEF IInv, TypeOK, Phases
<1>4. ClaimsHeld'
  BY <1>1 DEF IInv, TypeOK, ClaimsHeld
<1>5. RowHeld'
  BY <1>1, <1>2 DEF IInv, TypeOK, RowHeld
<1>6. (ConflictsLate /\ AnswersLast /\ EffectsRecorded)'
  BY <1>1 DEF IInv, TypeOK, ConflictsLate, AnswersLast, EffectsRecorded
<1>7. QED
  BY <1>3, <1>4, <1>5, <1>6 DEF IInv

\* Giving up takes the claim and the lock away and leaves the tables alone; only the attempt
\* itself is told.
LEMMA GivesUp ==
  ASSUME IInv, NEW a \in Attempts, NEW code \in {"refused", "error"},
         phase[a] \in {"sent", "claimed", "executed", "conflict"},
         Tell(a, code, None), ReleaseClaim(a),
         holder' = (IF holder = a THEN None ELSE holder),
         UNCHANGED <<record, product, applied>>
  PROVE  IInv'
<1>1. /\ phase' = [phase EXCEPT ![a] = "answered"]
      /\ answer' = [answer EXCEPT ![a] = [code |-> code, result |-> None]]
      /\ claim' = [k \in Keys |-> IF claim[k] = a THEN None ELSE claim[k]]
  BY DEF Tell, Move, ReleaseClaim
<1>2. TypeOK'
  BY <1>1 DEF IInv, TypeOK, Phases
<1>3. ClaimsHeld'
  <2>1. ASSUME NEW k \in Keys, claim'[k] # None
        PROVE  /\ Keyed(claim'[k]) /\ Key(claim'[k]) = k
               /\ phase'[claim'[k]] \in {"claimed", "executed"} /\ record'[k] = NoRow
    BY <2>1, <1>1 DEF IInv, TypeOK, ClaimsHeld
  <2>2. ASSUME NEW b \in Attempts, Keyed(b), phase'[b] \in {"claimed", "executed"}
        PROVE  claim'[Key(b)] = b
    BY <2>2, <1>1, AttemptFacts DEF IInv, TypeOK, ClaimsHeld
  <2>3. ASSUME NEW b \in Attempts, phase'[b] = "claimed" PROVE Keyed(b)
    BY <2>3, <1>1 DEF IInv, TypeOK, ClaimsHeld
  <2>4. QED
    BY <2>1, <2>2, <2>3 DEF ClaimsHeld
<1>4. RowHeld'
  BY <1>1 DEF IInv, TypeOK, RowHeld
<1>5. (ConflictsLate /\ AnswersLast /\ EffectsRecorded)'
  BY <1>1 DEF IInv, TypeOK, ConflictsLate, AnswersLast, EffectsRecorded
<1>6. QED
  BY <1>2, <1>3, <1>4, <1>5 DEF IInv

\* A refused operation and a failed transaction give up.
LEMMA GiveUpInv ==
  ASSUME IInv, NEW a \in Attempts, Refuse(a) \/ Abort(a)
  PROVE  IInv'
<1>1. CASE Refuse(a)
  <2>1. phase[a] \in {"sent", "claimed"} /\ holder = None /\ holder' = holder
    BY <1>1 DEF Refuse, Starting
  <2>2. holder' = (IF holder = a THEN None ELSE holder)
    BY <2>1
  <2>3. Tell(a, "refused", None) /\ ReleaseClaim(a) /\ UNCHANGED <<record, product, applied>>
    BY <1>1 DEF Refuse
  <2>4. QED
    BY <2>1, <2>2, <2>3, GivesUp
<1>2. CASE Abort(a)
  BY <1>2, GivesUp DEF Abort, ReleaseRow
<1>3. QED
  BY <1>1, <1>2

\* The effect, its record and the end of the claim are one step, of the attempt that held the
\* claim while nothing was stored.
LEMMA CommitInv ==
  ASSUME IInv, NEW a \in Attempts, Commit(a)
  PROVE  IInv'
<1>1. /\ phase' = [phase EXCEPT ![a] = "committed"] /\ phase[a] = "executed"
      /\ product' = Effect(a) /\ applied' = applied \cup {a}
      /\ record' = IF Keyed(a) THEN [record EXCEPT ![Key(a)] = Row(a, a)] ELSE record
      /\ claim' = [k \in Keys |-> IF claim[k] = a THEN None ELSE claim[k]]
      /\ holder' = (IF holder = a THEN None ELSE holder) /\ answer' = answer
  BY DEF Commit, Move, ReleaseClaim, ReleaseRow
<1>2. /\ holder = a /\ product.stock > 0 /\ ~product.locked
      /\ \A b \in Attempts : phase[b] = "executed" => b = a
  BY <1>1 DEF IInv, RowHeld
<1>3. Keyed(a) => claim[Key(a)] = a /\ record[Key(a)] = NoRow
  BY <1>1, AttemptFacts DEF IInv, ClaimsHeld
<1>4. Row(a, a) \in [body : {BodyOf[r] : r \in Requests} \cup {None}, result : Attempts \cup {None}]
  BY AttemptFacts DEF Row
<1>5. Effect(a) \in [stock : Nat, locked : BOOLEAN] /\ (Effect(a).locked => Effect(a).stock > 0)
  <2>1. product \in [stock : Nat, locked : BOOLEAN]
    BY DEF IInv, TypeOK
  <2>2. CASE Keyed(a)
    <3>1. Effect(a) = [product EXCEPT !.stock = product.stock - 1] /\ product.stock - 1 \in Nat
      BY <1>2, <2>1, <2>2 DEF Effect
    <3>2. Effect(a).locked = product.locked
      BY <2>1, <3>1
    <3>3. QED
      BY <1>2, <2>1, <3>1, <3>2
  <2>3. CASE ~Keyed(a)
    BY <1>2, <2>1, <2>3 DEF Effect
  <2>4. QED
    BY <2>2, <2>3
<1>6. TypeOK'
  BY <1>1, <1>4, <1>5 DEF IInv, TypeOK, Phases
<1>7. ClaimsHeld'
  <2>1. ASSUME NEW k \in Keys, claim'[k] # None
        PROVE  /\ Keyed(claim'[k]) /\ Key(claim'[k]) = k
               /\ phase'[claim'[k]] \in {"claimed", "executed"} /\ record'[k] = NoRow
    <3>1. claim'[k] = claim[k] /\ claim[k] # a /\ claim[k] # None
      BY <2>1, <1>1
    <3>2. Keyed(a) => k # Key(a)
      BY <3>1, <1>3
    <3>3. QED
      BY <3>1, <3>2, <1>1 DEF IInv, TypeOK, ClaimsHeld
  <2>2. ASSUME NEW b \in Attempts, Keyed(b), phase'[b] \in {"claimed", "executed"}
        PROVE  claim'[Key(b)] = b
    BY <2>2, <1>1, AttemptFacts DEF IInv, TypeOK, ClaimsHeld
  <2>3. ASSUME NEW b \in Attempts, phase'[b] = "claimed" PROVE Keyed(b)
    BY <2>3, <1>1 DEF IInv, TypeOK, ClaimsHeld
  <2>4. QED
    BY <2>1, <2>2, <2>3 DEF ClaimsHeld
<1>8. EffectsRecorded'
  <2>1. CASE Keyed(a)
    <3>1. record' = [record EXCEPT ![Key(a)] = Row(a, a)] /\ Key(a) \in Keys
      BY <2>1, <1>1, AttemptFacts
    <3>2. \A b \in applied : Keyed(b) => Key(b) # Key(a)
      BY <1>3, <2>1, RowFacts DEF IInv, TypeOK, EffectsRecorded
    <3>3. QED
      BY <3>1, <3>2, <1>1, <2>1, AttemptFacts DEF IInv, TypeOK, EffectsRecorded
  <2>2. CASE ~Keyed(a)
    BY <2>2, <1>1 DEF IInv, TypeOK, EffectsRecorded
  <2>3. QED
    BY <2>1, <2>2
<1>9. ConflictsLate'
  BY <1>1, RowFacts, AttemptFacts DEF IInv, TypeOK, ConflictsLate
<1>10. RowHeld'
  BY <1>1, <1>2, <1>5 DEF IInv, TypeOK, RowHeld
<1>11. AnswersLast'
  BY <1>1 DEF IInv, TypeOK, AnswersLast
<1>12. QED
  BY <1>6, <1>7, <1>8, <1>9, <1>10, <1>11 DEF IInv

\* An answer changes what one attempt was told and nothing else.
LEMMA TellInv ==
  ASSUME IInv, NEW a \in Attempts, NEW code \in {"ok", "duplicate", "error"},
         NEW result \in Attempts \cup {None},
         phase[a] \in {"committed", "conflict"}, Tell(a, code, result),
         UNCHANGED <<claim, record, product, holder, applied>>
  PROVE  IInv'
<1>1. /\ phase' = [phase EXCEPT ![a] = "answered"]
      /\ answer' = [answer EXCEPT ![a] = [code |-> code, result |-> result]]
  BY DEF Tell, Move
<1>2. TypeOK'
  BY <1>1 DEF IInv, TypeOK, Phases
<1>3. ClaimsHeld'
  BY <1>1 DEF IInv, TypeOK, ClaimsHeld
<1>4. (ConflictsLate /\ RowHeld /\ AnswersLast /\ EffectsRecorded)'
  BY <1>1 DEF IInv, TypeOK, ConflictsLate, RowHeld, AnswersLast, EffectsRecorded
<1>5. QED
  BY <1>2, <1>3, <1>4 DEF IInv

\* The answer to the attempt that did the work, and the replay.
LEMMA AnswerInv ==
  ASSUME IInv, NEW a \in Attempts, Answer(a) \/ Replay(a)
  PROVE  IInv'
<1>1. CASE Answer(a)
  BY <1>1, TellInv DEF Answer
<1>2. CASE Replay(a)
  <2>1. Key(a) \in Keys /\ record[Key(a)].result \in Attempts \cup {None}
    BY AttemptFacts DEF IInv, TypeOK
  <2>2. PICK code \in {"ok", "duplicate", "error"}, result \in Attempts \cup {None} :
          Tell(a, code, result)
    BY <1>2, <2>1 DEF Replay
  <2>3. QED
    BY <1>2, <2>2, TellInv DEF Replay
<1>3. QED
  BY <1>1, <1>2

\* Completing an order takes the unit that the order had locked.
LEMMA OrderCompletedInv ==
  ASSUME IInv, OrderCompleted
  PROVE  IInv'
<1>1. \A b \in Attempts : phase[b] # "executed"
  BY AttemptFacts DEF IInv, RowHeld, OrderCompleted
<1>2. product.stock - 1 \in Nat
  BY DEF IInv, TypeOK, RowHeld, OrderCompleted
<1>3. TypeOK'
  BY <1>2 DEF IInv, TypeOK, OrderCompleted
<1>4. (ClaimsHeld /\ ConflictsLate /\ RowHeld /\ AnswersLast /\ EffectsRecorded)'
  BY <1>1 DEF IInv, OrderCompleted, ClaimsHeld, ConflictsLate, RowHeld, AnswersLast, EffectsRecorded
<1>5. QED
  BY <1>3, <1>4 DEF IInv

\* Every step keeps the invariant.
LEMMA StepInv == IInv /\ [Next]_vars => IInv'
<1> SUFFICES ASSUME IInv, [Next]_vars PROVE IInv'
  OBVIOUS
<1>1. CASE UNCHANGED vars
  BY <1>1 DEF vars, IInv, TypeOK, ClaimsHeld, ConflictsLate, RowHeld, AnswersLast, EffectsRecorded
<1>2. ASSUME NEW a \in Attempts, Send(a) \/ Lose(a) PROVE IInv'
  BY <1>2, NetworkInv
<1>3. ASSUME NEW a \in Attempts, Abort(a) \/ Refuse(a) PROVE IInv'
  BY <1>3, GiveUpInv
<1>4. ASSUME NEW a \in Attempts, Answer(a) \/ Replay(a) PROVE IInv'
  BY <1>4, AnswerInv
<1>5. QED
  BY <1>1, <1>2, <1>3, <1>4, ClaimInv, ClaimConflictInv, ExecuteInv, CommitInv, OrderCompletedInv
  DEF Next, Serve

\* The invariant holds in every state the server can reach.
LEMMA Invariance == Spec => []IInv
BY InitInv, StepInv, PTL DEF Spec, SafetySpec

-----------------------------------------------------------------------------
(* What the code promises. *)

\* Every variable keeps its type; the stock never drops below zero (runWithIdempotency).
THEOREM TypeCorrect == Spec => []TypeOK
BY Invariance, PTL DEF IInv

\* An effect and its record stand or fall together (runWithIdempotency).
THEOREM EffectsTheorem == Spec => []EffectsRecorded
BY Invariance, PTL DEF IInv

\* Whoever loses the race for a key finds a result to replay (replayIdempotencyResult).
THEOREM ConflictTheorem == Spec => []ConflictFindsResult
<1>1. IInv => ConflictFindsResult
  <2> SUFFICES ASSUME IInv, NEW a \in Attempts, phase[a] = "conflict"
               PROVE  record[Key(a)].result \in applied
    BY DEF ConflictFindsResult
  <2>1. Key(a) \in Keys /\ record[Key(a)] # NoRow
    BY AttemptFacts DEF IInv, ConflictsLate
  <2>2. PICK b \in applied : record[Key(a)] = Row(b, b)
    BY <2>1 DEF IInv, EffectsRecorded
  <2>3. QED
    BY <2>2 DEF Row
<1>2. QED
  BY <1>1, Invariance, PTL

-----------------------------------------------------------------------------
(* The abstract promise. *)

\* What was performed and what was answered, as OnceOnly sees them.
DoneNow == [k \in Keys |-> record[k].result]
AnsweredNow == [a \in KeyedAttempts |-> answer[a].result]

\* The step that commits performs the attempt, if it has a key.
LEMMA CommitPerforms ==
  ASSUME IInv, NEW a \in Attempts, Commit(a)
  PROVE  \/ UNCHANGED <<DoneNow, AnsweredNow>>
         \/ /\ Keyed(a) /\ DoneNow[Key(a)] = None
            /\ DoneNow' = [DoneNow EXCEPT ![Key(a)] = a] /\ UNCHANGED AnsweredNow
<1>1. AnsweredNow' = AnsweredNow
  BY DEF Commit, AnsweredNow
<1>2. CASE ~Keyed(a)
  BY <1>1, <1>2 DEF Commit, DoneNow
<1>3. CASE Keyed(a)
  <2>1. record[Key(a)] = NoRow /\ Key(a) \in Keys
    BY <1>3, AttemptFacts DEF Commit, IInv, ClaimsHeld
  <2>2. record' = [record EXCEPT ![Key(a)] = Row(a, a)]
    BY <1>3 DEF Commit
  <2>3. DoneNow[Key(a)] = None
    BY <2>1 DEF DoneNow, NoRow
  <2>4. DoneNow' = [DoneNow EXCEPT ![Key(a)] = a]
    BY <2>1, <2>2, RowFacts DEF DoneNow, IInv, TypeOK
  <2>5. QED
    BY <1>1, <1>3, <2>3, <2>4
<1>4. QED
  BY <1>2, <1>3

\* Telling an attempt success with the stored result of its key and body.
LEMMA TellSucceeds ==
  ASSUME IInv, NEW a \in Attempts, Answer(a) \/ Replay(a)
  PROVE  \/ UNCHANGED <<DoneNow, AnsweredNow>>
         \/ /\ Keyed(a) /\ AnsweredNow[a] = None
            /\ DoneNow[Key(a)] # None /\ Body(DoneNow[Key(a)]) = Body(a)
            /\ AnsweredNow' = [AnsweredNow EXCEPT ![a] = DoneNow[Key(a)]] /\ UNCHANGED DoneNow
<1>1. DoneNow' = DoneNow /\ answer[a] = NoAnswer /\ Key(a) \in Keys
  BY AttemptFacts DEF Answer, Replay, DoneNow, IInv, AnswersLast
<1>2. ASSUME Tell(a, "ok", record[Key(a)].result), Keyed(a),
             record[Key(a)] # NoRow, record[Key(a)].body = Body(a)
      PROVE  /\ AnsweredNow[a] = None
             /\ DoneNow[Key(a)] # None /\ Body(DoneNow[Key(a)]) = Body(a)
             /\ AnsweredNow' = [AnsweredNow EXCEPT ![a] = DoneNow[Key(a)]]
  <2>1. PICK b \in applied : record[Key(a)] = Row(b, b)
    BY <1>1, <1>2 DEF IInv, EffectsRecorded
  <2>2. b \in Attempts /\ DoneNow[Key(a)] = b /\ Body(b) = Body(a) /\ b # None
    BY <1>1, <1>2, <2>1, RowFacts, AttemptFacts DEF DoneNow, IInv, TypeOK
  <2>3. answer' = [answer EXCEPT ![a] = [code |-> "ok", result |-> b]]
    BY <1>2, <2>1, <2>2, RowFacts DEF Tell
  <2>4. AnsweredNow[a] = None /\ AnsweredNow' = [AnsweredNow EXCEPT ![a] = b]
    <3>1. a \in KeyedAttempts /\ AnsweredNow[a] = None
      BY <1>1, <1>2 DEF AnsweredNow, KeyedAttempts, NoAnswer
    <3>2. \A c \in KeyedAttempts : answer'[c].result = IF c = a THEN b ELSE answer[c].result
      BY <2>3 DEF KeyedAttempts, IInv, TypeOK
    <3>3. QED
      BY <3>1, <3>2 DEF AnsweredNow
  <2>5. QED
    BY <2>2, <2>4
<1>3. ASSUME NEW code \in {"ok", "duplicate", "error"}, NEW result, Tell(a, code, result),
             ~Keyed(a) \/ result = None
      PROVE  AnsweredNow' = AnsweredNow
  <2>1. answer' = [answer EXCEPT ![a] = [code |-> code, result |-> result]]
    BY <1>3 DEF Tell
  <2>2. \A b \in KeyedAttempts : answer'[b].result = answer[b].result
    BY <1>1, <1>3, <2>1 DEF KeyedAttempts, NoAnswer, IInv, TypeOK
  <2>3. QED
    BY <2>2 DEF AnsweredNow
<1>4. CASE Answer(a)
  <2>1. Tell(a, "ok", a) /\ a \in applied
    BY <1>4 DEF Answer, IInv, AnswersLast
  <2>2. CASE ~Keyed(a)
    BY <1>1, <1>3, <2>1, <2>2
  <2>3. CASE Keyed(a)
    <3>1. record[Key(a)] = Row(a, a)
      BY <2>1, <2>3 DEF IInv, EffectsRecorded
    <3>2. QED
      BY <1>1, <1>2, <2>1, <2>3, <3>1, RowFacts
  <2>4. QED
    BY <2>2, <2>3
<1>5. CASE Replay(a)
  <2>1. Keyed(a) /\ record[Key(a)] # NoRow
    BY <1>5 DEF Replay, IInv, ConflictsLate
  <2>2. CASE \E code \in {"duplicate", "error"} : Tell(a, code, None)
    BY <1>1, <1>3, <2>2
  <2>3. CASE Tell(a, "ok", record[Key(a)].result) /\ record[Key(a)].body = Body(a)
    BY <1>1, <1>2, <2>1, <2>3
  <2>4. QED
    BY <1>5, <2>1, <2>2, <2>3 DEF Replay, SameBody
<1>6. QED
  BY <1>4, <1>5

\* No other step performs an attempt or answers one with success.
LEMMA OthersStutter ==
  ASSUME IInv,
         \/ UNCHANGED vars \/ OrderCompleted
         \/ \E a \in Attempts : Send(a) \/ Lose(a) \/ Abort(a) \/ Claim(a) \/ ClaimConflict(a)
                                \/ Execute(a) \/ Refuse(a)
  PROVE  UNCHANGED <<DoneNow, AnsweredNow>>
<1>1. record' = record
  BY DEF vars, OrderCompleted, Send, Lose, Abort, Claim, ClaimConflict, Execute, Refuse
<1>2. CASE answer' = answer
  BY <1>1, <1>2 DEF DoneNow, AnsweredNow
<1>3. ASSUME NEW a \in Attempts, Abort(a) \/ Refuse(a)
      PROVE  AnsweredNow' = AnsweredNow
  <2>1. PICK code \in {"refused", "error"} : answer' = [answer EXCEPT ![a] = [code |-> code, result |-> None]]
    BY <1>3 DEF Abort, Refuse, Tell
  <2>2. answer[a] = NoAnswer
    BY <1>3 DEF Abort, Refuse, Starting, IInv, AnswersLast
  <2>3. \A b \in KeyedAttempts : answer'[b].result = answer[b].result
    BY <2>1, <2>2 DEF KeyedAttempts, NoAnswer, IInv, TypeOK
  <2>4. QED
    BY <2>3 DEF AnsweredNow
<1>4. QED
  BY <1>1, <1>2, <1>3
  DEF vars, OrderCompleted, Send, Lose, Claim, ClaimConflict, Execute, DoneNow

\* Whatever the network loses and whatever fails, attempts that share a key do what OnceOnly
\* allows: one is performed, and success means its result for its body (runWithIdempotency).
THEOREM PromiseTheorem == Spec => KeepsThePromise
<1>1. Init => Once!Init
  BY DEF Init, Once!Init, KeyedAttempts, NoAnswer, NoRow
<1>2. IInv /\ [Next]_vars => [Once!Next]_(Once!vars)
  <2> SUFFICES ASSUME IInv, [Next]_vars
               PROVE  \/ UNCHANGED <<DoneNow, AnsweredNow>>
                      \/ \E a \in KeyedAttempts : Once!Perform(a) \/ Once!Succeed(a)
    BY DEF Once!Next, Once!vars, DoneNow, AnsweredNow
  <2>1. ASSUME NEW a \in Attempts, Commit(a)
        PROVE  UNCHANGED <<DoneNow, AnsweredNow>> \/ (a \in KeyedAttempts /\ Once!Perform(a))
    BY <2>1, CommitPerforms DEF Once!Perform, DoneNow, AnsweredNow, KeyedAttempts
  <2>2. ASSUME NEW a \in Attempts, Answer(a) \/ Replay(a)
        PROVE  UNCHANGED <<DoneNow, AnsweredNow>> \/ (a \in KeyedAttempts /\ Once!Succeed(a))
    BY <2>2, TellSucceeds DEF Once!Succeed, DoneNow, AnsweredNow, KeyedAttempts
  <2>3. QED
    BY <2>1, <2>2, OthersStutter DEF Next, Serve
<1>3. QED
  BY <1>1, <1>2, Invariance, PTL DEF Spec, SafetySpec, KeepsThePromise, Once!Spec

=============================================================================
