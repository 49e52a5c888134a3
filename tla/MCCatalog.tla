------------------------------ MODULE MCCatalog ------------------------------
\* The catalog's instance for TLC: sessions are alike, and so are names.
EXTENDS Catalog, TLC

Symmetry == Permutations(Sessions) \cup Permutations(Names)
=============================================================================
