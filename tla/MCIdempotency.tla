---------------------------- MODULE MCIdempotency ----------------------------
(* The instances of Idempotency that TLC checks. *)
EXTENDS Idempotency, TLC

CONSTANTS r1, r2, r3, k1, k2, body1, body2

\* Two bodies sent with one key, and the creation of an order with a key of its own.
TwoBodies == (r1 :> k1) @@ (r2 :> k1) @@ (r3 :> k2)
Hashes    == (r1 :> body1) @@ (r2 :> body2) @@ (r3 :> body1)
Twice     == (r1 :> 2) @@ (r2 :> 2) @@ (r3 :> 1)

\* One order to create, with a retry.
OneOrder      == r3 :> k2
OneOrderBody  == r3 :> body1
OneOrderTwice == r3 :> 2

=============================================================================
