------------------------------- MODULE Tenancy -------------------------------
(***************************************************************************)
(* Organizations, roles and memberships: the tables organizations, roles,  *)
(* role_permissions and user_roles of src/prisma/schema.prisma, and the    *)
(* handlers of the organizations, roles and users services that write      *)
(* them.  An organization and a role belong to one application or to none  *)
(* ("global").                                                             *)
(*                                                                         *)
(* Handlers that read before they write are requests: what was read is     *)
(* kept, and other requests run before the write.  The foreign keys and    *)
(* the unique key of user_roles are those of the schema.                   *)
(***************************************************************************)
EXTENDS Integers, FiniteSets

CONSTANTS User, App, Org, Role, Permission,
          Row,          \* ids of user_roles rows
          Request,      \* slots for the requests in flight
          None,         \* null
          SystemRole,   \* the roles of the seed: isSystem, global
          SystemAdmin, OrgAdmin   \* two of them, "system_admin" and "org_admin"

ASSUME TenancyAssumption ==
    /\ None \notin App \cup User \cup Org \cup Role \cup Row
    /\ {SystemAdmin, OrgAdmin} \subseteq SystemRole /\ SystemRole \subseteq Role
    /\ Row \cap Request = {}

VARIABLES known,      \* the users
          org,        \* org[o]: the organizations table
          role,       \* role[r]: the roles table
          grants,     \* grants[r]: role_permissions, by role
          userRole,   \* userRole[i]: the user_roles table
          drawn,      \* history: the ids of roles and memberships ever drawn
          changed,    \* history: the requests and rows whose organization or
                      \* role was given another application after it was read
                      \* for them, and the rows given another role
          request     \* the requests in flight

vars == <<known, org, role, grants, userRole, drawn, changed, request>>

Scope == App \cup {None}

Membership == [user : User, role : Role, org : Org]

OrgRow == [app : Scope]
RoleRow == [app : Scope, isSystem : BOOLEAN]

ASSUME NoneIsNoTenancyRow == None \notin OrgRow \cup RoleRow \cup Membership

\* pc: the next call; the rest is what the handler has been given or has read.
Slot == [pc : {"idle", "checkRole", "insert", "update", "delete",
               "chooseRole", "createUser"},
         user : User \cup {None}, role : Role \cup {None}, org : Org \cup {None},
         app : Scope, row : Row \cup {None}]

Idle == [pc |-> "idle", user |-> None, role |-> None, org |-> None,
         app |-> None, row |-> None]

TenancyTypeOK ==
    /\ known \in SUBSET User
    /\ org \in [Org -> OrgRow \cup {None}]
    /\ role \in [Role -> RoleRow \cup {None}]
    /\ grants \in [Role -> SUBSET Permission]
    /\ userRole \in [Row -> Membership \cup {None}]
    /\ drawn \in SUBSET (Role \cup Row)
    /\ changed \in SUBSET (Row \cup Request)
    /\ request \in [Request -> Slot]
-----------------------------------------------------------------------------
\* A role may be held in an organization if either is global or both are of
\* one application.
FitsApp(r, a) == role[r].app = None \/ a = None \/ role[r].app = a

RowsOf(u, o) == {i \in Row : /\ userRole[i] # None
                             /\ userRole[i].user = u /\ userRole[i].org = o}

\* The unique key (userId, roleId, organizationId), and the foreign keys.
Insertable(m) == /\ m \notin {userRole[i] : i \in Row}
                 /\ m.user \in known
                 /\ role[m.role] # None
                 /\ org[m.org] # None

\* FAULT: every role is a candidate.
Assignable_AnyApp(a) == {r \in Role : role[r] # None}

\* findRolesWithPermissionCount: the roles of the application and the global ones.
Assignable(a) == {r \in Role : role[r] # None /\ role[r].app \in {a, None}}

\* findLowestRole: fewest permissions; of several, the first one created.
LowestRoles(S) == {r \in S : \A s \in S : Cardinality(grants[r]) <= Cardinality(grants[s])}
-----------------------------------------------------------------------------
\* What rests on the application read of an organization, or of a role; the
\* role only counts where the organization has an application.
Adding(s) == s.pc \in {"checkRole", "insert", "chooseRole", "createUser"}

RestOnOrg(o) == {i \in Row : userRole[i] # None /\ userRole[i].org = o}
                \cup {q \in Request : Adding(request[q]) /\ request[q].org = o}

RestOnRole(r) == {i \in Row : userRole[i] # None /\ userRole[i].role = r}
                 \cup {q \in Request : /\ request[q].pc \in {"insert", "createUser"}
                                       /\ request[q].role = r /\ request[q].app # None}
-----------------------------------------------------------------------------
\* The super admin's organization, account and membership, the first n of them.
SeedAccount(u, o, i, n) ==
    /\ org = [p \in Org |-> IF n >= 1 /\ p = o THEN [app |-> None] ELSE None]
    /\ known = IF n >= 2 THEN {u} ELSE {}
    /\ userRole = [j \in Row |-> IF n = 3 /\ j = i
                                 THEN [user |-> u, role |-> SystemAdmin, org |-> o]
                                 ELSE None]
    /\ drawn = IF n = 3 THEN SystemRole \cup {i} ELSE SystemRole

\* What the seed leaves: it grants the permissions one by one, creates the
\* account step by step, and may end after any of these steps.
Init == /\ role = [r \in Role |-> IF r \in SystemRole
                                  THEN [app |-> None, isSystem |-> TRUE] ELSE None]
        /\ \E S \in SUBSET Permission : \E T \in SUBSET S :
             grants = [r \in Role |-> IF r = SystemAdmin THEN S
                                     ELSE IF r = OrgAdmin THEN T ELSE {}]
        /\ \E u \in User, o \in Org, i \in Row, n \in 0..3 : SeedAccount(u, o, i, n)
        /\ changed = {}
        /\ request = [q \in Request |-> Idle]

Start(q, slot) == request[q] = Idle /\ request' = [request EXCEPT ![q] = slot]

End(q) == /\ request' = [request EXCEPT ![q] = Idle]
          /\ changed' = changed \ {q}

\* The request ends with a row written, which is as good as what it had read.
EndWith(q, i) == /\ request' = [request EXCEPT ![q] = Idle]
                 /\ changed' = IF q \in changed THEN (changed \ {q}) \cup {i} ELSE changed

\* organizations.service create, for an active application or none.
CreateOrganization(o, a) ==
    /\ org[o] = None
    /\ org' = [org EXCEPT ![o] = [app |-> a]]
    /\ UNCHANGED <<known, role, grants, userRole, drawn, changed, request>>

\* update with an applicationId: the dto is that of create, all optional.
UpdateOrganization(o, a) ==
    /\ org[o] # None
    /\ org' = [org EXCEPT ![o].app = a]
    /\ changed' = IF org[o].app = a THEN changed ELSE changed \cup RestOnOrg(o)
    /\ UNCHANGED <<known, role, grants, userRole, drawn, request>>

\* roles.service create: isSystem is always false.
CreateRole(r, a) ==
    /\ r \notin drawn /\ drawn' = drawn \cup {r}
    /\ role' = [role EXCEPT ![r] = [app |-> a, isSystem |-> FALSE]]
    /\ UNCHANGED <<known, org, grants, userRole, changed, request>>

\* update: isSystem is neither asked nor changed.
UpdateRole(r, a) ==
    /\ role[r] # None
    /\ role' = [role EXCEPT ![r].app = a]
    /\ changed' = IF role[r].app = a THEN changed ELSE changed \cup RestOnRole(r)
    /\ UNCHANGED <<known, org, grants, userRole, drawn, request>>

\* delete: refused for system roles; the foreign keys cascade.
DeleteRole(r) ==
    /\ role[r] # None /\ ~role[r].isSystem
    /\ role' = [role EXCEPT ![r] = None]
    /\ grants' = [grants EXCEPT ![r] = {}]
    /\ userRole' = [i \in Row |-> IF userRole[i] # None /\ userRole[i].role = r
                                  THEN None ELSE userRole[i]]
    /\ UNCHANGED <<known, org, drawn, changed, request>>

\* assignPermissions: one transaction of upserts.
AssignPermissions(r, S) ==
    /\ role[r] # None
    /\ grants' = [grants EXCEPT ![r] = @ \cup S]
    /\ UNCHANGED <<known, org, role, userRole, drawn, changed, request>>

RemovePermission(r, p) ==
    /\ role[r] # None
    /\ grants' = [grants EXCEPT ![r] = @ \ {p}]
    /\ UNCHANGED <<known, org, role, userRole, drawn, changed, request>>

\* register: user, organization and membership in one transaction; the role
\* is looked up by name inside it.
Register(u, o, a, i) ==
    /\ u \notin known /\ org[o] = None
    /\ i \notin drawn /\ drawn' = drawn \cup {i}
    /\ known' = known \cup {u}
    /\ org' = [org EXCEPT ![o] = [app |-> a]]
    /\ userRole' = [userRole EXCEPT ![i] =
                      IF role[OrgAdmin] # None /\ role[OrgAdmin].app = None
                      THEN [user |-> u, role |-> OrgAdmin, org |-> o] ELSE None]
    /\ UNCHANGED <<role, grants, changed, request>>

\* users.service create: the organization, when there is one, is read.
BeginCreateUser(q, u, o) ==
    /\ u \notin known
    /\ IF o = None THEN Start(q, [Idle EXCEPT !.pc = "createUser", !.user = u])
       ELSE /\ org[o] # None
            /\ Start(q, [Idle EXCEPT !.pc = "chooseRole", !.user = u, !.org = o,
                                     !.app = org[o].app])
    /\ UNCHANGED <<known, org, role, grants, userRole, drawn, changed>>

\* Then its lowest role; without a candidate the user gets no role.
ChooseRole(q, r) ==
    LET S == Assignable(request[q].app) IN
    /\ request[q].pc = "chooseRole"
    /\ IF S = {} THEN r = None ELSE r \in LowestRoles(S)
    /\ request' = [request EXCEPT ![q].pc = "createUser", ![q].role = r]
    /\ UNCHANGED <<known, org, role, grants, userRole, drawn, changed>>

\* createWithMembership: one transaction, all or nothing.
CreateUser(q, i) ==
    LET m == [user |-> request[q].user, role |-> request[q].role,
              org |-> request[q].org] IN
    /\ request[q].pc = "createUser"
    /\ i \notin drawn
    /\ IF m.user \in known \/ (m.role # None /\ role[m.role] = None)
       THEN End(q) /\ UNCHANGED <<known, userRole, drawn>>
       ELSE /\ known' = known \cup {m.user}
            /\ IF m.role = None THEN End(q) /\ UNCHANGED <<userRole, drawn>>
               ELSE /\ userRole' = [userRole EXCEPT ![i] = m]
                    /\ drawn' = drawn \cup {i}
                    /\ EndWith(q, i)
    /\ UNCHANGED <<org, role, grants>>

\* addMember: the organization, and the application it has now; the role of a
\* global organization is not checked.
AddMember(u, r, o) ==
    [Idle EXCEPT !.pc = IF org[o].app = None THEN "insert" ELSE "checkRole",
                 !.user = u, !.role = r, !.org = o, !.app = org[o].app]

BeginAddMember(q, u, r, o) ==
    /\ org[o] # None /\ r \in drawn
    /\ Start(q, AddMember(u, r, o))
    /\ UNCHANGED <<known, org, role, grants, userRole, drawn, changed>>

\* FAULT: the role check only asks that the role exists.
CheckRole_Exists(q) ==
    /\ request[q].pc = "checkRole"
    /\ IF role[request[q].role] # None
       THEN UNCHANGED changed /\ request' = [request EXCEPT ![q].pc = "insert"] ELSE End(q)
    /\ UNCHANGED <<known, org, role, grants, userRole, drawn>>

\* The role-app check; a role that is not there passes and fails at the insert.
CheckRole(q) ==
    LET r == request[q].role IN
    /\ request[q].pc = "checkRole"
    /\ IF role[r] = None \/ FitsApp(r, request[q].app)
       THEN UNCHANGED changed /\ request' = [request EXCEPT ![q].pc = "insert"] ELSE End(q)
    /\ UNCHANGED <<known, org, role, grants, userRole, drawn>>

InsertMember(q, i) ==
    LET m == [user |-> request[q].user, role |-> request[q].role,
              org |-> request[q].org] IN
    /\ request[q].pc = "insert"
    /\ i \notin drawn
    /\ IF Insertable(m)
       THEN /\ userRole' = [userRole EXCEPT ![i] = m]
            /\ drawn' = drawn \cup {i}
            /\ EndWith(q, i)
       ELSE End(q) /\ UNCHANGED <<userRole, drawn>>
    /\ UNCHANGED <<known, org, role, grants>>

\* updateMemberRole and removeMember: findFirst takes any row of the member.
BeginUpdateMemberRole(q, u, o, r, i) ==
    /\ i \in RowsOf(u, o) /\ r \in drawn
    /\ Start(q, [Idle EXCEPT !.pc = "update", !.role = r, !.row = i])
    /\ UNCHANGED <<known, org, role, grants, userRole, drawn, changed>>

\* update by id: throws if the row or the role is gone, or on a duplicate.
UpdateMember(q) ==
    LET i == request[q].row  r == request[q].role IN
    /\ request[q].pc = "update"
    /\ IF userRole[i] # None /\ Insertable([userRole[i] EXCEPT !.role = r])
       THEN /\ userRole' = [userRole EXCEPT ![i].role = r]
            /\ changed' = changed \cup {i}
       ELSE UNCHANGED <<userRole, changed>>
    /\ request' = [request EXCEPT ![q] = Idle]
    /\ UNCHANGED <<known, org, role, grants, drawn>>

BeginRemoveMember(q, u, o, i) ==
    /\ i \in RowsOf(u, o)
    /\ Start(q, [Idle EXCEPT !.pc = "delete", !.user = u, !.org = o, !.row = i])
    /\ UNCHANGED <<known, org, role, grants, userRole, drawn, changed>>

\* FAULT: the member is deleted by user id.
DeleteMember_ByUser(q) ==
    /\ request[q].pc = "delete"
    /\ userRole' = [i \in Row |-> IF userRole[i] # None
                                     /\ userRole[i].user = request[q].user
                                  THEN None ELSE userRole[i]]
    /\ End(q)
    /\ UNCHANGED <<known, org, role, grants, drawn>>

\* delete by id; throws if the row is gone.
DeleteMember(q) ==
    /\ request[q].pc = "delete"
    /\ userRole' = [userRole EXCEPT ![request[q].row] = None]
    /\ End(q)
    /\ UNCHANGED <<known, org, role, grants, drawn>>

\* A failure between two calls of a handler.
Abort(q) == /\ request[q] # Idle
            /\ End(q)
            /\ UNCHANGED <<known, org, role, grants, userRole, drawn>>

RequestStep(q) ==
    \/ \E u \in User, o \in Org :
         \/ \E r \in Role : BeginAddMember(q, u, r, o)
         \/ \E r \in Role, i \in Row : BeginUpdateMemberRole(q, u, o, r, i)
         \/ \E i \in Row : BeginRemoveMember(q, u, o, i)
    \/ \E u \in User, o \in Org \cup {None} : BeginCreateUser(q, u, o)
    \/ \E r \in Role \cup {None} : ChooseRole(q, r)
    \/ \E i \in Row : CreateUser(q, i) \/ InsertMember(q, i)
    \/ CheckRole(q)
    \/ UpdateMember(q)
    \/ DeleteMember(q)
    \/ Abort(q)

AdminStep ==
    \/ \E o \in Org, a \in Scope : CreateOrganization(o, a) \/ UpdateOrganization(o, a)
    \/ \E r \in Role, a \in Scope : CreateRole(r, a) \/ UpdateRole(r, a)
    \/ \E r \in Role : DeleteRole(r)
    \/ \E r \in Role, S \in SUBSET Permission : AssignPermissions(r, S)
    \/ \E r \in Role, p \in Permission : RemovePermission(r, p)
    \/ \E u \in User, o \in Org, a \in Scope, i \in Row : Register(u, o, a, i)

Next == AdminStep \/ \E q \in Request : RequestStep(q)

Spec == Init /\ [][Next]_vars
-----------------------------------------------------------------------------
(* A role held in an organization is global, or the organization is, or     *)
(* both are of one application: unless one of the two was given another     *)
(* application after it was read for this very membership, or the member    *)
(* another role since.  addMember (80-97) and create (98-135) read the two  *)
(* in calls of their own before they insert, so a change that comes in      *)
(* between does admit a role that does not fit; one that came before the    *)
(* request, or that other requests overlapped with, never does.             *)
AdmittedRolesFit ==
    \A i \in Row \ changed :
        userRole[i] # None => FitsApp(userRole[i].role, org[userRole[i].org].app)

\* What a request is about to insert is what its checks allow.
Inserting(s) == s.pc = "insert" \/ (s.pc = "createUser" /\ s.role # None)

InsertsFit ==
    \A q \in Request :
        LET s == request[q] IN
        /\ s.pc = "checkRole" \/ Inserting(s) => s.role \in drawn \cap Role
        /\ s.pc \in {"checkRole", "chooseRole"} \/ Inserting(s) =>
               /\ s.org \in Org /\ org[s.org] # None
               /\ q \notin changed => s.app = org[s.org].app
        /\ s.pc \in {"chooseRole", "createUser"} => s.user \in User
        /\ s.pc = "update" => s.role \in Role /\ s.row \in Row
        /\ Inserting(s) /\ q \notin changed =>
               role[s.role] = None \/ FitsApp(s.role, s.app)

\* The rows of user_roles are those of known users, and no two are equal.
RowsAreKeyed ==
    /\ \A i \in Row : userRole[i] # None => i \in drawn /\ userRole[i].user \in known
    /\ \A i, j \in Row : userRole[i] # None /\ userRole[i] = userRole[j] => i = j

\* The inductive invariant: the foreign keys and the unique key hold, and what
\* AdmittedRolesFit rests on.
TenancyInv ==
    /\ TenancyTypeOK
    /\ \A r \in Role : role[r] # None => r \in drawn
    /\ \A i \in Row : userRole[i] # None =>
           org[userRole[i].org] # None /\ role[userRole[i].role] # None
    /\ RowsAreKeyed
    /\ InsertsFit
    /\ AdmittedRolesFit

(* However the calls of the handlers overlap, the tables change as the     *)
(* abstract Memberships says: a removal takes one membership away and a     *)
(* change of role alters one, even when the row found by findFirst          *)
(* (organizations.repository.ts 102-127) was changed or deleted before it   *)
(* is written; only the deletion of a role reaches further.                 *)
OrgAppNow == [o \in Org |-> IF org[o] = None THEN None ELSE org[o].app]
RoleAppNow == [r \in Role |-> IF role[r] = None THEN None ELSE role[r].app]
MembersNow == {userRole[i] : i \in Row} \ {None}

Tables == INSTANCE Memberships
            WITH orgApp <- OrgAppNow, roleApp <- RoleAppNow, member <- MembersNow

ImplementsMemberships == Tables!Spec
=============================================================================
