----------------------------- MODULE MCCatalog ------------------------------
EXTENDS Catalog, TLC

\* Calls, the values of a key and the rows referred to are interchangeable
\* (used with invariants and action properties only).
Symmetry == Permutations(Callers) \cup Permutations(Keys) \cup Permutations(Parents)
=============================================================================
