------------------------------ MODULE MCAccess ------------------------------
(* The instances of Access that TLC checks.                                *)
EXTENDS Access, TLC

Symmetry == Permutations(User) \cup Permutations(App) \cup Permutations(Org)
            \cup Permutations(Role) \cup Permutations(Permission)
            \cup Permutations(Token) \cup Permutations(Request)
=============================================================================
