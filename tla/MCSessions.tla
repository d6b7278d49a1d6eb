----------------------------- MODULE MCSessions -----------------------------
(* The instances of Sessions that TLC checks.                              *)
EXTENDS Sessions, TLC

\* Users, tokens and slots are interchangeable, and the safety runs check no
\* liveness property.
Symmetry == Permutations(User) \cup Permutations(Token) \cup Permutations(Request)
=============================================================================
