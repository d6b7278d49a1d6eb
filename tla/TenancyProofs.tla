---------------------------- MODULE TenancyProofs ----------------------------
(***************************************************************************)
(* The roles of Tenancy fit the organizations they are held in, for any    *)
(* number of users, applications, organizations, roles and concurrent      *)
(* requests, as far as what was read for a membership still holds.         *)
(*                                                                         *)
(* The checks are made in one database call and used in a later one, so    *)
(* the invariant follows what each request has read (InsertsFit): either   *)
(* it is still so, or the request is in `changed' and hands that on to the *)
(* row it inserts.  No id is drawn twice.                                  *)
(***************************************************************************)
EXTENDS Tenancy, TLAPS

\* TenancyInv without the keys of user_roles, which are proved apart.
RolesInv ==
    /\ TenancyTypeOK
    /\ \A r \in Role : role[r] # None => r \in drawn
    /\ \A i \in Row : userRole[i] # None =>
           org[userRole[i].org] # None /\ role[userRole[i].role] # None
    /\ InsertsFit
    /\ AdmittedRolesFit

LEMMA InitRoles == Init => RolesInv
  <1> SUFFICES ASSUME Init PROVE RolesInv
  OBVIOUS
<1> USE TenancyAssumption, NoneIsNoTenancyRow
<1>1. PICK S \in SUBSET Permission, T \in SUBSET Permission :
        grants = [r \in Role |-> IF r = SystemAdmin THEN S
                                ELSE IF r = OrgAdmin THEN T ELSE {}]
  BY DEF Init
<1>2. grants \in [Role -> SUBSET Permission]
  BY <1>1
<1>3. PICK u \in User, o \in Org, i \in Row, n \in 0..3 : SeedAccount(u, o, i, n)
  BY DEF Init
<1>4. [app |-> None] \in OrgRow /\ [app |-> None] # None
  <2>1. [app |-> None] \in OrgRow
    BY DEF OrgRow, Scope
  <2> QED BY <2>1
<1>5. /\ role \in [Role -> RoleRow \cup {None}]
      /\ \A r \in SystemRole : role[r] # None /\ role[r].app = None
      /\ \A r \in Role \ SystemRole : role[r] = None
  <2>1. [app |-> None, isSystem |-> TRUE] \in RoleRow
    BY DEF RoleRow, Scope
  <2>2. role = [r \in Role |-> IF r \in SystemRole
                              THEN [app |-> None, isSystem |-> TRUE] ELSE None]
    BY DEF Init
  <2> HIDE DEF Init
  <2> QED BY <2>1, <2>2
<1>6. Idle \in Slot /\ request = [q \in Request |-> Idle] /\ changed = {}
  BY DEF Init, Idle, Slot, Scope
<1>7. TenancyTypeOK
  BY <1>2, <1>3, <1>4, <1>5, <1>6 DEF TenancyTypeOK, Membership, SeedAccount
<1>8. \A j \in Row : userRole[j] # None =>
        org[userRole[j].org] # None /\ role[userRole[j].role] # None
                                   /\ role[userRole[j].role].app = None
  BY <1>3, <1>4, <1>5 DEF SeedAccount
<1>9. InsertsFit
  BY <1>6 DEF InsertsFit, Inserting, Idle
<1> QED BY <1>3, <1>5, <1>7, <1>8, <1>9
        DEF RolesInv, AdmittedRolesFit, FitsApp, SeedAccount

\* A row is inserted by a request; it fits, or the request is in `changed'.
LEMMA RowInserted ==
    ASSUME RolesInv, NEW q \in Request, NEW i \in Row, NEW m \in Membership,
           role[m.role] # None, org[m.org] # None,
           q \notin changed => FitsApp(m.role, org[m.org].app),
           userRole' = [userRole EXCEPT ![i] = m],
           drawn' = drawn \cup {i},
           EndWith(q, i), known' \in SUBSET User, UNCHANGED <<org, role, grants>>
    PROVE  RolesInv'
<1> USE TenancyAssumption, NoneIsNoTenancyRow
        DEF RolesInv, TenancyTypeOK, AdmittedRolesFit, InsertsFit, Inserting,
            FitsApp, Slot, Idle, Scope, Membership
<1>1. /\ \A j \in Row : userRole'[j] = IF j = i THEN m ELSE userRole[j]
      /\ userRole' \in [Row -> Membership \cup {None}]
  OBVIOUS
<1>2. \A p \in Request : request'[p] = IF p = q THEN Idle ELSE request[p]
  BY DEF EndWith
<1>3. /\ changed' \subseteq Row \cup Request
      /\ \A p \in Request \ {q} : p \in changed' <=> p \in changed
      /\ \A j \in Row \ {i} : j \in changed' <=> j \in changed
      /\ i \notin changed' => q \notin changed
  BY DEF EndWith
<1>4. TenancyTypeOK'
  BY <1>1, <1>3 DEF EndWith
<1>5. AdmittedRolesFit'
  BY <1>1, <1>3
<1>6. InsertsFit'
  BY <1>2, <1>3
<1> QED BY <1>1, <1>4, <1>5, <1>6

LEMMA StepRoles ==
    ASSUME RolesInv, Next
    PROVE  RolesInv'
<1> USE TenancyAssumption, NoneIsNoTenancyRow
        DEF RolesInv, TenancyTypeOK, AdmittedRolesFit, InsertsFit, Inserting,
            FitsApp, Slot, Idle, Scope, OrgRow, RoleRow, Membership
<1>1. ASSUME NEW o \in Org, NEW a \in Scope, CreateOrganization(o, a)
      PROVE  RolesInv'
  BY <1>1 DEF CreateOrganization
<1>2. ASSUME NEW r \in Role, NEW a \in Scope, CreateRole(r, a)
      PROVE  RolesInv'
  BY <1>2 DEF CreateRole
<1>3. ASSUME NEW r \in Role, DeleteRole(r)
      PROVE  RolesInv'
  <2>1. /\ role' \in [Role -> RoleRow \cup {None}] /\ role'[r] = None
        /\ \A s \in Role \ {r} : role'[s] = role[s]
        /\ grants' \in [Role -> SUBSET Permission]
        /\ UNCHANGED <<known, org, drawn, changed, request>>
    BY <1>3 DEF DeleteRole
  <2>2. /\ userRole' \in [Row -> Membership \cup {None}]
        /\ \A i \in Row : userRole'[i] # None =>
               userRole'[i] = userRole[i] /\ userRole[i].role # r
    BY <1>3 DEF DeleteRole
  <2>3. AdmittedRolesFit'
    BY <2>1, <2>2
  <2>4. InsertsFit'
    BY <2>1
  <2> QED BY <2>1, <2>2, <2>3, <2>4
<1>4. ASSUME NEW r \in Role, NEW S \in SUBSET Permission, AssignPermissions(r, S)
      PROVE  RolesInv'
  BY <1>4 DEF AssignPermissions
<1>5. ASSUME NEW r \in Role, NEW p \in Permission, RemovePermission(r, p)
      PROVE  RolesInv'
  BY <1>5 DEF RemovePermission
<1>6. ASSUME NEW u \in User, NEW o \in Org, NEW a \in Scope, NEW i \in Row,
             Register(u, o, a, i)
      PROVE  RolesInv'
  BY <1>6 DEF Register
<1>7. ASSUME NEW q \in Request, NEW u \in User, NEW o \in Org \cup {None},
             BeginCreateUser(q, u, o)
      PROVE  RolesInv'
  <2>1. UNCHANGED <<known, org, role, grants, userRole, drawn, changed>>
    BY <1>7 DEF BeginCreateUser
  <2>2. PICK s \in Slot :
          /\ request' = [request EXCEPT ![q] = s]
          /\ \/ s.pc = "createUser" /\ s.role = None /\ s.user = u
             \/ s.pc = "chooseRole" /\ s.user = u /\ s.org = o /\ o # None
                /\ org[o] # None /\ s.app = org[o].app
    <3>1. CASE o = None
      <4> DEFINE s == [Idle EXCEPT !.pc = "createUser", !.user = u]
      <4>1. s \in Slot /\ s.pc = "createUser" /\ s.role = None /\ s.user = u
        OBVIOUS
      <4>2. request' = [request EXCEPT ![q] = s]
        BY <1>7, <3>1 DEF BeginCreateUser, Start
      <4> HIDE DEF s
      <4> QED BY <4>1, <4>2
    <3>2. CASE o # None
      <4>1. o \in Org /\ org[o] \in OrgRow /\ org[o].app \in Scope
        BY <1>7, <3>2 DEF BeginCreateUser
      <4> DEFINE s == [Idle EXCEPT !.pc = "chooseRole", !.user = u, !.org = o,
                                   !.app = org[o].app]
      <4>2. s \in Slot /\ s.pc = "chooseRole" /\ s.user = u /\ s.org = o
            /\ s.app = org[o].app
        BY <4>1
      <4>3. request' = [request EXCEPT ![q] = s] /\ org[o] # None
        BY <1>7, <3>2 DEF BeginCreateUser, Start
      <4> HIDE DEF s
      <4> QED BY <3>2, <4>2, <4>3
    <3> QED BY <3>1, <3>2
  <2>3. request' \in [Request -> Slot] /\ InsertsFit'
    BY <2>1, <2>2
  <2> QED BY <2>1, <2>3
<1>19. ASSUME NEW q \in Request, NEW r \in Role \cup {None}, ChooseRole(q, r)
       PROVE  RolesInv'
  <2>1. /\ request[q].pc = "chooseRole" /\ request[q] \in Slot
        /\ request' = [request EXCEPT ![q].pc = "createUser", ![q].role = r]
        /\ UNCHANGED <<known, org, role, grants, userRole, drawn, changed>>
    BY <1>19 DEF ChooseRole
  <2>2. r # None => /\ r \in Role /\ role[r] # None
                    /\ role[r].app \in {request[q].app, None}
    BY <1>19 DEF ChooseRole, Assignable, LowestRoles
  <2>3. request' \in [Request -> Slot]
    BY <2>1
  <2>4. InsertsFit'
    BY <2>1, <2>2
  <2> QED BY <2>1, <2>3, <2>4
<1>8. ASSUME NEW q \in Request, NEW i \in Row, CreateUser(q, i)
      PROVE  RolesInv'
  <2> DEFINE m == [user |-> request[q].user, role |-> request[q].role,
                   org |-> request[q].org]
  <2>1. /\ request[q].pc = "createUser" /\ request' = [request EXCEPT ![q] = Idle]
        /\ known' \in SUBSET User
        /\ UNCHANGED <<org, role, grants>>
    BY <1>8 DEF CreateUser, End, EndWith
  <2>2. CASE changed' = changed \ {q} /\ UNCHANGED <<userRole, drawn>>
    BY <2>1, <2>2
  <2>3. CASE /\ m.role # None /\ role[m.role] # None
             /\ userRole' = [userRole EXCEPT ![i] = m]
             /\ drawn' = drawn \cup {i}
             /\ EndWith(q, i)
    <3>1. m.role \in Role /\ m.org \in Org /\ org[m.org] # None
      BY <2>1, <2>3
    <3>2. q \notin changed => FitsApp(m.role, org[m.org].app)
      BY <2>1, <2>3, <3>1
    <3>3. m \in Membership
      BY <1>8, <2>1, <3>1 DEF CreateUser
    <3> QED BY <2>1, <2>3, <3>1, <3>2, <3>3, RowInserted
  <2> QED BY <1>8, <2>2, <2>3 DEF CreateUser, End
<1>9. ASSUME NEW q \in Request, NEW u \in User, NEW r \in Role, NEW o \in Org,
             BeginAddMember(q, u, r, o)
      PROVE  RolesInv'
  <2> DEFINE slot == AddMember(u, r, o)
  <2>1. /\ request' = [request EXCEPT ![q] = slot]
        /\ org[o] # None /\ r \in drawn
        /\ UNCHANGED <<known, org, role, grants, userRole, drawn, changed>>
    BY <1>9 DEF BeginAddMember, Start
  <2>2. org[o].app \in Scope
    BY <2>1
  <2>3. /\ slot \in Slot
        /\ slot.pc = "insert" \/ slot.pc = "checkRole"
        /\ slot.pc = "insert" => org[o].app = None
        /\ slot.role = r /\ slot.org = o /\ slot.app = org[o].app
    <3>1. CASE org[o].app = None
      BY <3>1, <2>2 DEF AddMember
    <3>2. CASE org[o].app # None
      BY <3>2, <2>2 DEF AddMember
    <3> QED BY <3>1, <3>2
  <2> HIDE DEF slot
  <2>4. request' \in [Request -> Slot] /\ InsertsFit'
    BY <2>1, <2>3
  <2> QED BY <2>1, <2>3, <2>4
<1>10. ASSUME NEW q \in Request, CheckRole(q)
       PROVE  RolesInv'
  <2> DEFINE r == request[q].role
  <2>1. /\ request[q].pc = "checkRole" /\ request[q] \in Slot
        /\ UNCHANGED <<known, org, role, grants, userRole, drawn>>
    BY <1>10 DEF CheckRole
  <2>2. CASE request' = [request EXCEPT ![q] = Idle] /\ changed' = changed \ {q}
    BY <2>1, <2>2
  <2>3. CASE /\ role[r] = None \/ FitsApp(r, request[q].app)
             /\ request' = [request EXCEPT ![q].pc = "insert"]
             /\ UNCHANGED changed
    <3>1. request' \in [Request -> Slot]
      BY <2>1, <2>3
    <3>2. InsertsFit'
      BY <2>1, <2>3
    <3> QED BY <2>1, <2>3, <3>1, <3>2
  <2>4. \/ request' = [request EXCEPT ![q] = Idle] /\ changed' = changed \ {q}
        \/ /\ role[r] = None \/ FitsApp(r, request[q].app)
           /\ request' = [request EXCEPT ![q].pc = "insert"]
           /\ UNCHANGED changed
    <3> HIDE DEF Idle, FitsApp, Slot
    <3> QED BY <1>10 DEF CheckRole, End
  <2> QED BY <2>2, <2>3, <2>4
<1>11. ASSUME NEW q \in Request, NEW i \in Row, InsertMember(q, i)
       PROVE  RolesInv'
  <2> DEFINE m == [user |-> request[q].user, role |-> request[q].role,
                   org |-> request[q].org]
  <2>1. request[q].pc = "insert" /\ request' = [request EXCEPT ![q] = Idle]
    BY <1>11 DEF InsertMember, End, EndWith
  <2>2. UNCHANGED <<known, org, role, grants>>
    BY <1>11 DEF InsertMember
  <2>3. CASE changed' = changed \ {q} /\ UNCHANGED <<userRole, drawn>>
    BY <2>1, <2>2, <2>3
  <2>4. CASE /\ Insertable(m)
             /\ userRole' = [userRole EXCEPT ![i] = m]
             /\ drawn' = drawn \cup {i}
             /\ EndWith(q, i)
    <3>1. m \in Membership /\ role[m.role] # None /\ org[m.org] # None
      BY <2>4, <2>1 DEF Insertable
    <3>2. q \notin changed => FitsApp(m.role, org[m.org].app)
      <4>1. m.role = request[q].role /\ m.org = request[q].org
        OBVIOUS
      <4> QED BY <3>1, <2>1, <4>1
    <3> QED BY <2>1, <2>2, <2>4, <3>1, <3>2, RowInserted
  <2> QED BY <1>11, <2>3, <2>4 DEF InsertMember, End
<1>12. ASSUME NEW q \in Request, UpdateMember(q)
       PROVE  RolesInv'
  <2> DEFINE i == request[q].row
             r == request[q].role
             m == [userRole[i] EXCEPT !.role = r]
  <2>1. request' = [request EXCEPT ![q] = Idle]
    BY <1>12 DEF UpdateMember
  <2>2. UNCHANGED <<known, org, role, grants, drawn>>
    BY <1>12 DEF UpdateMember
  <2>3. CASE UNCHANGED <<userRole, changed>>
    BY <2>1, <2>2, <2>3
  <2>4. CASE /\ userRole[i] # None /\ Insertable(m)
             /\ userRole' = [userRole EXCEPT ![i] = m]
             /\ changed' = changed \cup {i}
    <3>1. InsertsFit'
      BY <2>1, <2>2, <2>4
    <3>2. i \in Row /\ r \in Role
      BY <1>12 DEF UpdateMember
    <3>3. userRole[i] \in Membership /\ role[m.role] # None /\ org[m.org] # None
      BY <2>4, <3>2 DEF Insertable
    <3> QED BY <2>1, <2>2, <2>4, <3>1, <3>2, <3>3
  <2> QED BY <1>12, <2>3, <2>4 DEF UpdateMember
<1>13. ASSUME NEW q \in Request, NEW u \in User, NEW o \in Org, NEW i \in Row,
              BeginRemoveMember(q, u, o, i)
       PROVE  RolesInv'
  BY <1>13 DEF BeginRemoveMember, Start
<1>14. ASSUME NEW q \in Request, DeleteMember(q)
       PROVE  RolesInv'
  <2>1. /\ request' = [request EXCEPT ![q] = Idle] /\ changed' = changed \ {q}
        /\ UNCHANGED <<known, org, role, grants, drawn>>
    BY <1>14 DEF DeleteMember, End
  <2>2. /\ userRole' \in [Row -> Membership \cup {None}]
        /\ \A i \in Row : userRole'[i] \in {userRole[i], None}
    BY <1>14 DEF DeleteMember
  <2> QED BY <2>1, <2>2
<1>15. ASSUME NEW q \in Request, Abort(q)
       PROVE  RolesInv'
  BY <1>15 DEF Abort, End
<1>16. ASSUME NEW o \in Org, NEW a \in Scope, UpdateOrganization(o, a)
       PROVE  RolesInv'
  <2>1. /\ org' \in [Org -> OrgRow \cup {None}]
        /\ changed \subseteq changed' /\ changed' \subseteq Row \cup Request
        /\ org'[o].app # org[o].app => RestOnOrg(o) \subseteq changed'
        /\ \A s \in Org \ {o} : org'[s] = org[s]
        /\ org'[o] # None
        /\ UNCHANGED <<known, role, grants, userRole, drawn, request>>
    <3>1. [org[o] EXCEPT !.app = a] \in OrgRow /\ [org[o] EXCEPT !.app = a] # None
      BY <1>16 DEF UpdateOrganization
    <3>2. RestOnOrg(o) \subseteq Row \cup Request
      BY DEF RestOnOrg
    <3> QED BY <1>16, <3>1, <3>2 DEF UpdateOrganization
  <2>2. InsertsFit'
    BY <2>1 DEF RestOnOrg, Adding
  <2>3. AdmittedRolesFit'
    BY <2>1 DEF RestOnOrg
  <2> QED BY <2>1, <2>2, <2>3
<1>17. ASSUME NEW r \in Role, NEW a \in Scope, UpdateRole(r, a)
       PROVE  RolesInv'
  <2>1. /\ role' \in [Role -> RoleRow \cup {None}]
        /\ changed \subseteq changed' /\ changed' \subseteq Row \cup Request
        /\ role'[r].app # role[r].app => RestOnRole(r) \subseteq changed'
        /\ \A s \in Role \ {r} : role'[s] = role[s]
        /\ role[r] # None /\ role'[r] # None
        /\ UNCHANGED <<known, org, grants, userRole, drawn, request>>
    <3>1. [role[r] EXCEPT !.app = a] \in RoleRow /\ [role[r] EXCEPT !.app = a] # None
      BY <1>17 DEF UpdateRole
    <3>2. RestOnRole(r) \subseteq Row \cup Request
      BY DEF RestOnRole
    <3> QED BY <1>17, <3>1, <3>2 DEF UpdateRole
  <2>2. InsertsFit'
    BY <2>1 DEF RestOnRole
  <2>3. AdmittedRolesFit'
    BY <2>1 DEF RestOnRole
  <2> QED BY <2>1, <2>2, <2>3
<1>18. ASSUME NEW q \in Request, NEW u \in User, NEW o \in Org, NEW r \in Role,
              NEW i \in Row, BeginUpdateMemberRole(q, u, o, r, i)
       PROVE  RolesInv'
  BY <1>18 DEF BeginUpdateMemberRole, RowsOf, Start
<1> QED
  BY <1>1, <1>2, <1>3, <1>4, <1>5, <1>6, <1>7, <1>8, <1>9, <1>10, <1>11, <1>12,
     <1>13, <1>14, <1>15, <1>16, <1>17, <1>18, <1>19
     DEF Next, AdminStep, RequestStep

LEMMA RowsShrink ==
    ASSUME RowsAreKeyed, drawn \subseteq drawn', known \subseteq known',
           \A i \in Row : userRole'[i] \in {userRole[i], None}
    PROVE  RowsAreKeyed'
BY DEF RowsAreKeyed

\* A row is written, and nobody else has its contents.
LEMMA RowWritten ==
    ASSUME TenancyTypeOK, RowsAreKeyed, NEW i \in Row, NEW m,
           userRole' = [userRole EXCEPT ![i] = m],
           m \notin {userRole[j] : j \in Row},
           drawn \subseteq drawn', known \subseteq known',
           i \in drawn', m.user \in known'
    PROVE  RowsAreKeyed'
<1>1. \A j \in Row : userRole'[j] = IF j = i THEN m ELSE userRole[j]
  BY DEF TenancyTypeOK
<1> QED BY <1>1 DEF RowsAreKeyed

\* A user that is not known yet is in no row.
LEMMA NewUser ==
    ASSUME RowsAreKeyed, NEW m, m # None, m.user \notin known
    PROVE  m \notin {userRole[j] : j \in Row}
BY DEF RowsAreKeyed

LEMMA StepRows ==
    ASSUME TenancyInv, Next
    PROVE  RowsAreKeyed'
<1>0. TenancyTypeOK /\ RowsAreKeyed
  BY DEF TenancyInv
<1>1. ASSUME NEW r \in Role, DeleteRole(r)
      PROVE  RowsAreKeyed'
  BY <1>0, <1>1, RowsShrink DEF DeleteRole
<1>2. ASSUME NEW u \in User, NEW o \in Org, NEW a \in Scope, NEW i \in Row,
             Register(u, o, a, i)
      PROVE  RowsAreKeyed'
  <2> DEFINE m == [user |-> u, role |-> OrgAdmin, org |-> o]
  <2>1. m # None /\ m.user \notin known
    BY <1>2, TenancyAssumption, NoneIsNoTenancyRow DEF Register, Membership
  <2>2. CASE userRole' = [userRole EXCEPT ![i] = m]
    BY <1>0, <1>2, <2>1, <2>2, NewUser, RowWritten DEF Register
  <2>3. CASE userRole' = [userRole EXCEPT ![i] = None]
    BY <1>0, <1>2, <2>3, RowsShrink DEF Register, TenancyTypeOK
  <2> QED BY <1>2, <2>2, <2>3 DEF Register
<1>3. ASSUME NEW q \in Request, NEW i \in Row, CreateUser(q, i)
      PROVE  RowsAreKeyed'
  <2> DEFINE m == [user |-> request[q].user, role |-> request[q].role,
                   org |-> request[q].org]
  <2>1. CASE userRole' = userRole /\ drawn' = drawn /\ known \subseteq known'
    BY <1>0, <2>1, RowsShrink
  <2>2. CASE /\ m.user \notin known /\ m.role # None
             /\ userRole' = [userRole EXCEPT ![i] = m]
             /\ drawn' = drawn \cup {i} /\ known' = known \cup {m.user}
    <3>1. m \in Membership
      <4>1. request[q].pc = "createUser" /\ request[q] \in Slot
        BY <1>0, <1>3 DEF CreateUser, TenancyTypeOK
      <4>2. m.role \in Role /\ m.org \in Org /\ m.user \in User
        BY <2>2, <4>1 DEF TenancyInv, InsertsFit, Inserting, Slot
      <4> QED BY <4>2 DEF Membership
    <3>2. m # None
      BY <3>1, NoneIsNoTenancyRow
    <3> QED BY <1>0, <2>2, <3>2, NewUser, RowWritten
  <2> QED BY <1>3, <2>1, <2>2 DEF CreateUser
<1>4. ASSUME NEW q \in Request, NEW i \in Row, InsertMember(q, i)
      PROVE  RowsAreKeyed'
  <2> DEFINE m == [user |-> request[q].user, role |-> request[q].role,
                   org |-> request[q].org]
  <2>1. CASE UNCHANGED <<userRole, drawn>>
    BY <1>0, <1>4, <2>1, RowsShrink DEF InsertMember
  <2>2. CASE /\ Insertable(m) /\ userRole' = [userRole EXCEPT ![i] = m]
             /\ drawn' = drawn \cup {i}
    BY <1>0, <1>4, <2>2, RowWritten DEF InsertMember, Insertable
  <2> QED BY <1>4, <2>1, <2>2 DEF InsertMember
<1>5. ASSUME NEW q \in Request, UpdateMember(q)
      PROVE  RowsAreKeyed'
  <2> DEFINE i == request[q].row
             m == [userRole[i] EXCEPT !.role = request[q].role]
  <2>1. CASE UNCHANGED <<userRole, changed>>
    BY <1>0, <1>5, <2>1, RowsShrink DEF UpdateMember
  <2>2. CASE /\ userRole[i] # None /\ Insertable(m)
             /\ userRole' = [userRole EXCEPT ![i] = m]
    <3>1. i \in Row
      BY <1>5 DEF UpdateMember, TenancyInv, InsertsFit
    <3>2. i \in drawn'
      BY <1>0, <1>5, <2>2, <3>1 DEF UpdateMember, RowsAreKeyed
    <3> HIDE DEF m
    <3> QED BY <1>0, <1>5, <2>2, <3>1, <3>2, RowWritten DEF UpdateMember, Insertable
  <2>3. userRole[i] # None /\ Insertable(m) => userRole' = [userRole EXCEPT ![i] = m]
    BY <1>5 DEF UpdateMember
  <2> QED BY <1>5, <2>1, <2>2, <2>3 DEF UpdateMember
<1>6. ASSUME NEW q \in Request, DeleteMember(q)
      PROVE  RowsAreKeyed'
  BY <1>0, <1>6, RowsShrink DEF DeleteMember, TenancyTypeOK
<1>7. CASE userRole' = userRole /\ drawn \subseteq drawn' /\ known' = known
  BY <1>0, <1>7, RowsShrink
<1> QED
  BY <1>1, <1>2, <1>3, <1>4, <1>5, <1>6, <1>7
     DEF Next, AdminStep, RequestStep, CreateOrganization, UpdateOrganization,
         CreateRole, UpdateRole, AssignPermissions, RemovePermission,
         BeginCreateUser, ChooseRole, BeginAddMember, CheckRole, BeginUpdateMemberRole,
         BeginRemoveMember, Abort

LEMMA Parts == TenancyInv <=> RolesInv /\ RowsAreKeyed
BY DEF TenancyInv, RolesInv

LEMMA StepTenancy == TenancyInv /\ [Next]_vars => TenancyInv'
<1>1. ASSUME TenancyInv, UNCHANGED vars PROVE TenancyInv'
  BY <1>1 DEF vars, TenancyInv, TenancyTypeOK, AdmittedRolesFit, InsertsFit,
              Inserting, FitsApp, RowsAreKeyed
<1>2. ASSUME TenancyInv, Next PROVE RolesInv'
  BY <1>2, Parts, StepRoles
<1>3. RolesInv' /\ RowsAreKeyed' => TenancyInv'
  BY DEF TenancyInv, RolesInv
<1> QED BY <1>1, <1>2, <1>3, StepRows

(* Rows refer to organizations and roles that are there, and what a request *)
(* is about to insert is what its checks allowed, whatever runs in between. *)
THEOREM TenancyInvariant == Spec => []TenancyInv
<1>1. Init => TenancyInv
  <2>1. ASSUME Init PROVE RowsAreKeyed
    <3>1. PICK u \in User, o \in Org, i \in Row, n \in 0..3 : SeedAccount(u, o, i, n)
      BY <2>1 DEF Init
    <3>2. \A j \in Row : userRole[j] # None =>
            n = 3 /\ j = i /\ userRole[j].user = u
      BY <3>1 DEF SeedAccount
    <3> QED BY <3>1, <3>2 DEF RowsAreKeyed, SeedAccount
  <2> QED BY <2>1, InitRoles, Parts
<1> QED BY <1>1, StepTenancy, PTL DEF Spec

(* A member holds a role of another application only if the application of  *)
(* the organization or of the role was changed after the request that       *)
(* admitted the member had read it, or the member was given another role.   *)
(* The check of addMember (organizations.service.ts 82-95) and the          *)
(* candidates of create (users.repository.ts 115-125) are not made in the   *)
(* transaction that inserts the row, and the theorem says how far this      *)
(* matters: never by a change that was complete when the request read, nor  *)
(* by anything else that other requests do.                                 *)
THEOREM RolesFitTheorem == Spec => []AdmittedRolesFit
<1>1. TenancyInv => AdmittedRolesFit
  BY DEF TenancyInv
<1> QED BY TenancyInvariant, <1>1, PTL
-----------------------------------------------------------------------------
\* What writing one row does to the set of memberships.
LEMMA RowAdded ==
    ASSUME TenancyTypeOK, NEW i \in Row, userRole[i] = None, NEW m, m # None,
           userRole' = [userRole EXCEPT ![i] = m]
    PROVE  MembersNow' = MembersNow \cup {m}
<1>1. \A j \in Row : userRole'[j] = IF j = i THEN m ELSE userRole[j]
  BY DEF TenancyTypeOK
<1> QED BY <1>1 DEF MembersNow

LEMMA RowReplaced ==
    ASSUME TenancyTypeOK, RowsAreKeyed, NEW i \in Row, userRole[i] # None,
           NEW m, m # None, userRole' = [userRole EXCEPT ![i] = m]
    PROVE  MembersNow' = (MembersNow \ {userRole[i]}) \cup {m}
<1>1. \A j \in Row : userRole'[j] = IF j = i THEN m ELSE userRole[j]
  BY DEF TenancyTypeOK
<1> QED BY <1>1 DEF MembersNow, RowsAreKeyed

LEMMA RowCleared ==
    ASSUME TenancyTypeOK, RowsAreKeyed, NEW i \in Row, userRole[i] # None,
           userRole' = [userRole EXCEPT ![i] = None]
    PROVE  MembersNow' = MembersNow \ {userRole[i]}
<1>1. \A j \in Row : userRole'[j] = IF j = i THEN None ELSE userRole[j]
  BY DEF TenancyTypeOK
<1> QED BY <1>1 DEF MembersNow, RowsAreKeyed

LEMMA NowTypes ==
    ASSUME TenancyTypeOK
    PROVE  /\ OrgAppNow \in [Org -> Scope] /\ RoleAppNow \in [Role -> Scope]
           /\ MembersNow \in SUBSET Membership
BY DEF TenancyTypeOK, OrgAppNow, RoleAppNow, MembersNow, Scope, OrgRow, RoleRow

\* The mapped variables change in the handlers named in Memberships only.
LEMMA StepMemberships ==
    ASSUME TenancyInv, Next
    PROVE  Tables!Next \/ UNCHANGED Tables!tables
<1> USE DEF Tables!Scope, Scope, Tables!Membership, Membership
<1>0. TenancyTypeOK /\ RowsAreKeyed
  BY DEF TenancyInv
<1>1. ASSUME NEW o \in Org, NEW a \in Scope,
             CreateOrganization(o, a) \/ UpdateOrganization(o, a)
      PROVE  Tables!PlaceOrg(o, a)
  <2>1. /\ org'[o] # None /\ org'[o].app = a
        /\ \A p \in Org \ {o} : org'[p] = org[p]
        /\ UNCHANGED <<role, grants, userRole>>
    BY <1>0, <1>1, NoneIsNoTenancyRow
       DEF CreateOrganization, UpdateOrganization, TenancyTypeOK, OrgRow
  <2> QED BY <2>1 DEF Tables!PlaceOrg, OrgAppNow, RoleAppNow, MembersNow
<1>2. ASSUME NEW r \in Role, NEW a \in Scope, CreateRole(r, a) \/ UpdateRole(r, a)
      PROVE  Tables!PlaceRole(r, a)
  <2>1. /\ role'[r] # None /\ role'[r].app = a
        /\ \A s \in Role \ {r} : role'[s] = role[s]
        /\ UNCHANGED <<org, grants, userRole>>
    <3>1. CASE CreateRole(r, a)
      <4>1. [app |-> a, isSystem |-> FALSE] \in RoleRow
        BY DEF RoleRow
      <4>2. [app |-> a, isSystem |-> FALSE] # None
        BY <4>1, NoneIsNoTenancyRow
      <4> QED BY <1>0, <3>1, <4>2 DEF CreateRole, TenancyTypeOK
    <3>2. CASE UpdateRole(r, a)
      <4>1. role[r] \in RoleRow /\ [role[r] EXCEPT !.app = a] \in RoleRow
        BY <1>0, <3>2 DEF UpdateRole, TenancyTypeOK, RoleRow
      <4>2. role' = [role EXCEPT ![r] = [role[r] EXCEPT !.app = a]]
        BY <3>2 DEF UpdateRole
      <4>3. role'[r] = [role[r] EXCEPT !.app = a]
        BY <1>0, <4>2 DEF TenancyTypeOK
      <4> QED BY <1>0, <3>2, <4>1, <4>2, <4>3, NoneIsNoTenancyRow
              DEF UpdateRole, TenancyTypeOK, RoleRow
    <3> QED BY <1>2, <3>1, <3>2
  <2> QED BY <2>1 DEF Tables!PlaceRole, OrgAppNow, RoleAppNow, MembersNow
<1>3. ASSUME NEW r \in Role, DeleteRole(r)
      PROVE  Tables!DropRole(r)
  <2>1. /\ RoleAppNow' = [RoleAppNow EXCEPT ![r] = None]
        /\ OrgAppNow' = OrgAppNow
    BY <1>0, <1>3 DEF DeleteRole, RoleAppNow, OrgAppNow, TenancyTypeOK
  <2>2. MembersNow' = {m \in MembersNow : m.role # r}
    BY <1>0, <1>3 DEF DeleteRole, MembersNow, TenancyTypeOK
  <2> QED BY <1>3, <2>1, <2>2 DEF Tables!DropRole, DeleteRole
<1>4. ASSUME NEW r \in Role, NEW S \in SUBSET Permission, AssignPermissions(r, S)
      PROVE  Tables!Regrant(r, grants[r] \cup S)
  BY <1>4 DEF AssignPermissions, Tables!Regrant, OrgAppNow, RoleAppNow, MembersNow
<1>5. ASSUME NEW r \in Role, NEW p \in Permission, RemovePermission(r, p)
      PROVE  Tables!Regrant(r, grants[r] \ {p})
  BY <1>5 DEF RemovePermission, Tables!Regrant, OrgAppNow, RoleAppNow, MembersNow
<1>6. ASSUME NEW u \in User, NEW o \in Org, NEW a \in Scope, NEW i \in Row,
             Register(u, o, a, i)
      PROVE  Tables!PlaceOrg(o, a) \/ \E m \in Membership : Tables!Found(m, a)
  <2> DEFINE m == [user |-> u, role |-> OrgAdmin, org |-> o]
  <2>1. /\ OrgAppNow' = [OrgAppNow EXCEPT ![o] = a]
        /\ UNCHANGED <<RoleAppNow, grants>>
    <3>1. org' = [org EXCEPT ![o] = [app |-> a]] /\ UNCHANGED <<role, grants>>
      BY <1>6 DEF Register
    <3>2. [app |-> a] \in OrgRow /\ [app |-> a] # None
      <4>1. [app |-> a] \in OrgRow
        BY DEF OrgRow
      <4> QED BY <4>1, NoneIsNoTenancyRow
    <3>3. /\ org'[o] # None /\ org'[o].app = a
          /\ \A p \in Org \ {o} : org'[p] = org[p]
      BY <1>0, <3>1, <3>2 DEF TenancyTypeOK
    <3>4. OrgAppNow' = [OrgAppNow EXCEPT ![o] = a]
      BY <3>3 DEF OrgAppNow
    <3> QED BY <3>1, <3>4 DEF RoleAppNow
  <2>2. userRole[i] = None /\ org[o] = None
    BY <1>0, <1>6 DEF Register, RowsAreKeyed
  <2>3. CASE userRole' = [userRole EXCEPT ![i] = m]
    <3>1. m \in Membership /\ m # None
      BY TenancyAssumption, NoneIsNoTenancyRow
    <3>2. MembersNow' = MembersNow \cup {m}
      BY <1>0, <2>2, <2>3, <3>1, RowAdded
    <3>3. \A n \in MembersNow : n.org # m.org
      BY <2>2 DEF MembersNow, TenancyInv
    <3> QED BY <2>1, <3>1, <3>2, <3>3 DEF Tables!Found
  <2>4. CASE userRole' = [userRole EXCEPT ![i] = None]
    <3>1. userRole' = userRole
      BY <1>0, <2>2, <2>4 DEF TenancyTypeOK
    <3> QED BY <2>1, <3>1 DEF Tables!PlaceOrg, MembersNow
  <2> QED BY <1>6, <2>3, <2>4 DEF Register
\* An insertion, by addMember or with a new user.
<1>ins. ASSUME NEW i \in Row, i \notin drawn, NEW m \in Membership,
               userRole' = [userRole EXCEPT ![i] = m], UNCHANGED <<org, role, grants>>
        PROVE  Tables!Join(m)
  <2>1. MembersNow' = MembersNow \cup {m}
    BY <1>0, <1>ins, RowAdded, NoneIsNoTenancyRow DEF RowsAreKeyed
  <2> QED BY <1>ins, <2>1 DEF Tables!Join, OrgAppNow, RoleAppNow
<1>7. ASSUME NEW q \in Request, NEW i \in Row, CreateUser(q, i)
      PROVE  UNCHANGED Tables!tables \/ \E m \in Membership : Tables!Join(m)
  <2> DEFINE m == [user |-> request[q].user, role |-> request[q].role,
                   org |-> request[q].org]
  <2>1. CASE userRole' = userRole
    BY <1>7, <2>1 DEF CreateUser, Tables!tables, OrgAppNow, RoleAppNow, MembersNow
  <2>2. CASE m.role # None /\ userRole' = [userRole EXCEPT ![i] = m]
    <3>1. request[q].pc = "createUser" /\ request[q] \in Slot
      BY <1>0, <1>7 DEF CreateUser, TenancyTypeOK
    <3>2. m \in Membership
      BY <2>2, <3>1 DEF TenancyInv, InsertsFit, Inserting, Slot
    <3> QED BY <1>7, <1>ins, <2>2, <3>2 DEF CreateUser
  <2> QED BY <1>7, <2>1, <2>2 DEF CreateUser
<1>8. ASSUME NEW q \in Request, NEW i \in Row, InsertMember(q, i)
      PROVE  UNCHANGED Tables!tables \/ \E m \in Membership : Tables!Join(m)
  <2> DEFINE m == [user |-> request[q].user, role |-> request[q].role,
                   org |-> request[q].org]
  <2>1. CASE userRole' = userRole
    BY <1>8, <2>1 DEF InsertMember, Tables!tables, OrgAppNow, RoleAppNow, MembersNow
  <2>2. CASE Insertable(m) /\ userRole' = [userRole EXCEPT ![i] = m]
    <3>1. request[q].pc = "insert" /\ request[q] \in Slot
      BY <1>0, <1>8 DEF InsertMember, TenancyTypeOK
    <3>2. m \in Membership
      <4>1. m.user \in User
        BY <1>0, <2>2 DEF Insertable, TenancyTypeOK
      <4>2. m.role \in Role /\ m.org \in Org
        BY <3>1 DEF TenancyInv, InsertsFit, Inserting
      <4> QED BY <4>1, <4>2
    <3> QED BY <1>8, <1>ins, <2>2, <3>2 DEF InsertMember
  <2> QED BY <1>8, <2>1, <2>2 DEF InsertMember
<1>9. ASSUME NEW q \in Request, UpdateMember(q)
      PROVE  UNCHANGED Tables!tables \/
             \E m \in MembersNow, r \in Role : Tables!ChangeRole(m, r)
  <2> DEFINE i == request[q].row
             r == request[q].role
             m == [userRole[i] EXCEPT !.role = r]
  <2>0. i \in Row /\ r \in Role /\ UNCHANGED <<org, role, grants>>
    BY <1>9 DEF UpdateMember, TenancyInv, InsertsFit
  <2>1. CASE userRole' = userRole
    BY <2>0, <2>1 DEF Tables!tables, OrgAppNow, RoleAppNow, MembersNow
  <2>2. CASE userRole[i] # None /\ userRole' = [userRole EXCEPT ![i] = m]
    <3>1. userRole[i] \in MembersNow /\ m \in Membership
      BY <1>0, <2>0, <2>2 DEF MembersNow, TenancyTypeOK
    <3>2. MembersNow' = (MembersNow \ {userRole[i]}) \cup {m}
      <4>1. m # None
        BY <3>1, NoneIsNoTenancyRow
      <4> HIDE DEF m
      <4> QED BY <1>0, <2>0, <2>2, <4>1, RowReplaced
    <3> QED BY <2>0, <3>1, <3>2 DEF Tables!ChangeRole, OrgAppNow, RoleAppNow
  <2>3. userRole' = userRole \/ (userRole[i] # None /\ userRole' = [userRole EXCEPT ![i] = m])
    BY <1>9 DEF UpdateMember
  <2> QED BY <2>1, <2>2, <2>3
<1>10. ASSUME NEW q \in Request, DeleteMember(q)
       PROVE  UNCHANGED Tables!tables \/ \E m \in MembersNow : Tables!Leave(m)
  <2> DEFINE i == request[q].row
  <2>0. UNCHANGED <<org, role, grants>> /\ userRole' = [userRole EXCEPT ![i] = None]
    BY <1>10 DEF DeleteMember
  <2>1. CASE i \in Row /\ userRole[i] # None
    <3>1. MembersNow' = MembersNow \ {userRole[i]} /\ userRole[i] \in MembersNow
      BY <1>0, <2>0, <2>1, RowCleared DEF MembersNow
    <3> QED BY <2>0, <3>1 DEF Tables!Leave, OrgAppNow, RoleAppNow
  <2>2. CASE i \notin Row \/ userRole[i] = None
    <3>1. userRole' = userRole
      BY <1>0, <2>0, <2>2 DEF TenancyTypeOK
    <3> QED BY <2>0, <3>1 DEF Tables!tables, OrgAppNow, RoleAppNow, MembersNow
  <2> QED BY <2>1, <2>2
<1>11. CASE UNCHANGED <<org, role, grants, userRole>>
  BY <1>11 DEF Tables!tables, OrgAppNow, RoleAppNow, MembersNow
<1>12. MembersNow \in SUBSET Membership /\ \A r \in Role : grants[r] \in SUBSET Permission
  BY <1>0, NowTypes DEF TenancyTypeOK
<1>13. Tables!Next <=>
         \/ \E m \in Membership : Tables!Join(m) \/ \E a \in Scope : Tables!Found(m, a)
         \/ \E m \in MembersNow : Tables!Leave(m) \/ \E r \in Role : Tables!ChangeRole(m, r)
         \/ \E r \in Role : Tables!DropRole(r) \/ \E S \in SUBSET Permission : Tables!Regrant(r, S)
         \/ \E o \in Org, a \in Scope : Tables!PlaceOrg(o, a)
         \/ \E r \in Role, a \in Scope : Tables!PlaceRole(r, a)
  BY DEF Tables!Next
<1> QED
  <2>1. CASE AdminStep
    <3>1. ASSUME NEW r \in Role, NEW S \in SUBSET Permission, AssignPermissions(r, S)
          PROVE  Tables!Next
      BY <1>4, <1>12, <1>13, <3>1
    <3>2. ASSUME NEW r \in Role, NEW p \in Permission, RemovePermission(r, p)
          PROVE  Tables!Next
      BY <1>5, <1>12, <1>13, <3>2
    <3> QED BY <1>1, <1>2, <1>3, <1>6, <1>13, <2>1, <3>1, <3>2 DEF AdminStep
  <2>2. CASE \E q \in Request : RequestStep(q)
    BY <1>7, <1>8, <1>9, <1>10, <1>11, <1>13, <2>2
       DEF RequestStep, BeginCreateUser, ChooseRole, BeginAddMember, CheckRole,
           BeginUpdateMemberRole, BeginRemoveMember, Abort
  <2> QED BY <2>1, <2>2 DEF Next

(* The handlers keep the promise of Memberships: however removals, changes  *)
(* of role, additions and the administration of roles and organizations     *)
(* overlap (organizations.repository.ts 94-127), no step touches more than  *)
(* one membership, but for the cascade of a deleted role.                   *)
THEOREM MembershipsTheorem == Spec => ImplementsMemberships
<1>1. Init => Tables!Init
  <2>1. Init => TenancyTypeOK
    BY InitRoles DEF RolesInv
  <2> QED BY <2>1, NowTypes
          DEF TenancyTypeOK, Tables!Init, Tables!Scope, Scope, Tables!Membership, Membership
<1>2. TenancyInv /\ [Next]_vars => [Tables!Next]_(Tables!tables)
  <2>1. UNCHANGED vars => UNCHANGED Tables!tables
    BY DEF vars, Tables!tables, OrgAppNow, RoleAppNow, MembersNow
  <2> QED BY <2>1, StepMemberships
<1> QED BY <1>1, <1>2, TenancyInvariant, PTL DEF Spec, ImplementsMemberships, Tables!Spec
=============================================================================
