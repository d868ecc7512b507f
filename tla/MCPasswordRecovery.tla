------------------------- MODULE MCPasswordRecovery -------------------------
(* Model values and symmetry for the runs of PasswordRecovery.              *)
EXTENDS PasswordRecovery, TLC

Symmetry == Permutations(Sessions) \cup Permutations(Passwords)
            \cup Permutations(Codes) \cup Permutations(Recoveries)
            \cup Permutations(Requests)
=============================================================================
