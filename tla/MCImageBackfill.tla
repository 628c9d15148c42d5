--------------------------- MODULE MCImageBackfill ---------------------------
(* The instance of ImageBackfill that TLC checks. *)
EXTENDS ImageBackfill

=============================================================================
