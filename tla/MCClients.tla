------------------------------ MODULE MCClients ------------------------------
(* Clients on small sets; every set is used symmetrically by the spec.      *)
EXTENDS Clients, TLC

Symmetry == Permutations(Client) \cup Permutations(Secret) \cup Permutations(Permission)
            \cup Permutations(Token) \cup Permutations(Request)
=============================================================================
