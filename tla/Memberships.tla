----------------------------- MODULE Memberships -----------------------------
(***************************************************************************)
(* What the handlers of organizations, roles and users promise about the   *)
(* tables they share, whatever overlaps: a step touches one membership, or *)
(* one role with what hangs on it, or the application of one organization  *)
(* or role.  Tenancy implements it; Access lets its tables do whatever it  *)
(* allows, so what holds in Access holds above the handlers of Tenancy.    *)
(***************************************************************************)
CONSTANTS User, App, Org, Role, Permission, None

VARIABLES orgApp,   \* the application of each organization, or None
          roleApp,  \* the application of each role, or None
          member,   \* user_roles, as a set: its key is unique
          grants    \* role_permissions, by role

tables == <<orgApp, roleApp, member, grants>>

Scope == App \cup {None}

Membership == [user : User, org : Org, role : Role]

\* Whatever the seed has left.
Init == /\ orgApp \in [Org -> Scope]
        /\ roleApp \in [Role -> Scope]
        /\ member \in SUBSET Membership
        /\ grants \in [Role -> SUBSET Permission]

\* addMember, createWithMembership.
Join(m) == /\ member' = member \cup {m}
           /\ UNCHANGED <<orgApp, roleApp, grants>>

\* removeMember.
Leave(m) == /\ m \in member
            /\ member' = member \ {m}
            /\ UNCHANGED <<orgApp, roleApp, grants>>

\* updateMemberRole.
ChangeRole(m, r) ==
    /\ m \in member
    /\ member' = (member \ {m}) \cup {[m EXCEPT !.role = r]}
    /\ UNCHANGED <<orgApp, roleApp, grants>>

\* register: an organization that has no member yet, and its first one.
Found(m, a) ==
    /\ \A n \in member : n.org # m.org
    /\ orgApp' = [orgApp EXCEPT ![m.org] = a]
    /\ member' = member \cup {m}
    /\ UNCHANGED <<roleApp, grants>>

\* The deletion of a role, with the cascades.
DropRole(r) ==
    /\ roleApp' = [roleApp EXCEPT ![r] = None]
    /\ grants' = [grants EXCEPT ![r] = {}]
    /\ member' = {m \in member : m.role # r}
    /\ UNCHANGED orgApp

\* assignPermissions, removePermission.
Regrant(r, S) == /\ grants' = [grants EXCEPT ![r] = S]
                 /\ UNCHANGED <<orgApp, roleApp, member>>

\* create and update of an organization, and of a role.
PlaceOrg(o, a) == /\ orgApp' = [orgApp EXCEPT ![o] = a]
                  /\ UNCHANGED <<roleApp, member, grants>>

PlaceRole(r, a) == /\ roleApp' = [roleApp EXCEPT ![r] = a]
                   /\ UNCHANGED <<orgApp, member, grants>>

Next == \/ \E m \in Membership : Join(m) \/ \E a \in Scope : Found(m, a)
        \/ \E m \in member : Leave(m) \/ \E r \in Role : ChangeRole(m, r)
        \/ \E r \in Role : DropRole(r) \/ \E S \in SUBSET Permission : Regrant(r, S)
        \/ \E o \in Org, a \in Scope : PlaceOrg(o, a)
        \/ \E r \in Role, a \in Scope : PlaceRole(r, a)

Spec == Init /\ [][Next]_tables
=============================================================================
