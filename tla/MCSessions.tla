----------------------------- MODULE MCSessions -----------------------------
EXTENDS Sessions, TLC

Symmetry == Permutations(Sessions) \cup Permutations(Workers)

=============================================================================
