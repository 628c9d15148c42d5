------------------------------ MODULE OnceOnly ------------------------------
(***************************************************************************)
(* What an Idempotency-Key promises a client: of all the attempts that     *)
(* carry a key at most one is performed, and every attempt that is         *)
(* answered with success is answered with the result of that one and       *)
(* carries the same request body.                                          *)
(***************************************************************************)
CONSTANTS
  Attempts,   \* the HTTP requests that may ever be sent
  Keys,       \* idempotency scopes: key, operator and path
  KeyOf(_),   \* the scope of an attempt
  BodyOf(_),  \* the request body of an attempt
  None

VARIABLES
  done,      \* per scope, the attempt that was performed
  answered   \* per attempt, the attempt whose result it was answered with

vars == <<done, answered>>

Init ==
  /\ done = [k \in Keys |-> None]
  /\ answered = [a \in Attempts |-> None]

Perform(a) ==
  /\ done[KeyOf(a)] = None
  /\ done' = [done EXCEPT ![KeyOf(a)] = a]
  /\ UNCHANGED answered

Succeed(a) ==
  /\ answered[a] = None
  /\ done[KeyOf(a)] # None /\ BodyOf(done[KeyOf(a)]) = BodyOf(a)
  /\ answered' = [answered EXCEPT ![a] = done[KeyOf(a)]]
  /\ UNCHANGED done

Next == \E a \in Attempts : Perform(a) \/ Succeed(a)

Spec == Init /\ [][Next]_vars

=============================================================================
