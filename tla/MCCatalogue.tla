----------------------------- MODULE MCCatalogue -----------------------------
EXTENDS Catalogue, TLC

Symmetry == Permutations(Products) \cup Permutations(Files) \cup Permutations(Uploads)

=============================================================================
