--------------------------- MODULE MCRestrictions ---------------------------
EXTENDS Restrictions, TLC

\* Row ids and call slots are interchangeable.
Symmetry == Permutations(Rows) \cup Permutations(Calls)
=============================================================================
