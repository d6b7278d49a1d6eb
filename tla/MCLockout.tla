------------------------------ MODULE MCLockout ------------------------------
(* The instances of Lockout that TLC checks.                               *)
EXTENDS Lockout, TLC

Symmetry == Permutations(Email) \cup Permutations(Attempt)
=============================================================================
