----------------------------- MODULE MCInventory -----------------------------
(* The instances of Inventory that TLC checks. *)
EXTENDS Inventory, TLC

Symmetry ==
  Permutations(Merchants) \cup Permutations(Products) \cup Permutations(Orders)
    \cup Permutations(Buyers) \cup Permutations(Intents)

=============================================================================
