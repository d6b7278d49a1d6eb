----------------------------- MODULE MCRecovery -----------------------------
(* The instances of Recovery that TLC checks.                              *)
EXTENDS Recovery, TLC

Symmetry == Permutations(Token) \cup Permutations(Link)
            \cup Permutations(Worker) \cup Permutations(Request)
=============================================================================
