--------------------------- MODULE RefreshLineage ---------------------------
(***************************************************************************)
(* What the service promises about refresh tokens, with no tables, no      *)
(* requests and no clock.  A token is issued once, at a sign-in or in      *)
(* exchange for a token that has been spent; it ends once, by being spent  *)
(* in an exchange or by being revoked; and it never comes back.            *)
(* Sessions.tla implements this.                                           *)
(***************************************************************************)
EXTENDS TLAPS

CONSTANTS Token,    \* every refresh token the service will ever draw
          None      \* "no parent": the token of a sign-in

VARIABLES status,   \* status[t]: where token t is in its life
          parent    \* parent[t]: the token t was exchanged for

vars == <<status, parent>>

Status == {"unissued", "active", "spent", "revoked"}

TypeOK == /\ status \in [Token -> Status]
          /\ parent \in [Token -> Token \cup {None}]

Init == /\ status = [t \in Token |-> "unissued"]
        /\ parent = [t \in Token |-> None]

\* A sign-in, a registration or a switch of organization: a new root.
Start(t) == /\ status[t] = "unissued"
            /\ status' = [status EXCEPT ![t] = "active"]
            /\ UNCHANGED parent

\* The first half of an exchange: the old token is given up.
Spend(t) == /\ status[t] = "active"
            /\ status' = [status EXCEPT ![t] = "spent"]
            /\ UNCHANGED parent

\* The second half: a new token for a spent one, never for a revoked one.
Rotate(p, t) == /\ status[p] = "spent"
                /\ status[t] = "unissued"
                /\ status' = [status EXCEPT ![t] = "active"]
                /\ parent' = [parent EXCEPT ![t] = p]

\* Logout, termination, reset or cleanup ends any set of active tokens.
Revoke(S) == /\ \A t \in S : status[t] = "active"
             /\ status' = [t \in Token |-> IF t \in S THEN "revoked"
                                                      ELSE status[t]]
             /\ UNCHANGED parent

Next == \/ \E t \in Token : Start(t) \/ Spend(t)
        \/ \E p, t \in Token : Rotate(p, t)
        \/ \E S \in SUBSET Token : Revoke(S)

Spec == Init /\ [][Next]_vars
-----------------------------------------------------------------------------
(* Every token obtained in an exchange replaces a token that is already    *)
(* spent: at no moment are a token and its replacement both good.          *)
ParentSpent == \A t \in Token : parent[t] # None => parent[t] \in Token
                                                    /\ status[parent[t]] = "spent"

(* What the promise comes to, for any number of tokens: a replaced token   *)
(* stays spent however the other tokens are started, rotated and revoked.  *)
THEOREM ReplacedIsSpent == Spec => [](TypeOK /\ ParentSpent)
<1>1. Init => TypeOK /\ ParentSpent
  BY DEF Init, TypeOK, ParentSpent, Status
<1>2. TypeOK /\ ParentSpent /\ [Next]_vars => (TypeOK /\ ParentSpent)'
  <2> SUFFICES ASSUME TypeOK, ParentSpent, [Next]_vars
               PROVE  TypeOK' /\ ParentSpent'
    OBVIOUS
  <2> USE DEF TypeOK, ParentSpent, Status
  <2>1. ASSUME NEW t \in Token, Start(t) \/ Spend(t)
        PROVE  TypeOK' /\ ParentSpent'
    BY <2>1 DEF Start, Spend
  <2>2. ASSUME NEW p \in Token, NEW t \in Token, Rotate(p, t)
        PROVE  TypeOK' /\ ParentSpent'
    BY <2>2 DEF Rotate
  <2>3. ASSUME NEW S \in SUBSET Token, Revoke(S)
        PROVE  TypeOK' /\ ParentSpent'
    BY <2>3 DEF Revoke
  <2>4. CASE UNCHANGED vars
    BY <2>4 DEF vars
  <2> QED BY <2>1, <2>2, <2>3, <2>4 DEF Next
<1> QED BY <1>1, <1>2, PTL DEF Spec
=============================================================================
