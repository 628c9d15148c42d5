--------------------------- MODULE MCClientRefresh ---------------------------
(* The instance of ClientRefresh that TLC checks. *)
EXTENDS ClientRefresh

=============================================================================
