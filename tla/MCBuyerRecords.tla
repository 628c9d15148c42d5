--------------------------- MODULE MCBuyerRecords ---------------------------
EXTENDS BuyerRecords, TLC

Symmetry == Permutations(Buyers) \cup Permutations(Workers)

=============================================================================
