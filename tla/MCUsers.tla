------------------------------ MODULE MCUsers ------------------------------
(* The instance of Users that TLC checks: two accounts, two requests in    *)
(* flight and pages of one.                                                *)
EXTENDS Users, TLC

Symmetry == Permutations(Email) \cup Permutations(Password) \cup Permutations(Worker)
=============================================================================
