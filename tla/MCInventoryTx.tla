---------------------------- MODULE MCInventoryTx ----------------------------
(* The instances of InventoryTx that TLC checks. *)
EXTENDS InventoryTx, TLC

Symmetry ==
  Permutations(Workers) \cup Permutations(Orders) \cup Permutations(Buyers)
    \cup Permutations(Intents)

=============================================================================
