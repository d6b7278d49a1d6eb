------------------------------ MODULE MCTenancy ------------------------------
(* The instances of Tenancy that TLC checks.                               *)
EXTENDS Tenancy, TLC

Symmetry == Permutations(User) \cup Permutations(App) \cup Permutations(Org)
            \cup Permutations(Row) \cup Permutations(Request)
=============================================================================
