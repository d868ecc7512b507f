----------------------------- MODULE MCPremium -----------------------------
(* Model values and symmetry for the runs of Premium.                      *)
EXTENDS Premium, TLC

Symmetry == Permutations(Members) \cup Permutations(Keys) \cup Permutations(Calls)
=============================================================================
