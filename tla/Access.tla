------------------------------- MODULE Access -------------------------------
(***************************************************************************)
(* What a user may do, as the service answers it in two places: the claims *)
(* of an access token, which PermissionsGuard reads, and AccessService,    *)
(* which /iam/check and /iam/my-permissions ask and which keeps its        *)
(* answers in a cache in memory.  Both are copies of what the tables said  *)
(* when they were read; the tables change underneath in any way that       *)
(* Memberships allows, which is what the handlers of Tenancy implement.    *)
(*                                                                         *)
(* A token stands for the pair handed out together: the claims of the      *)
(* access token are also the organization and application stored with the  *)
(* refresh token.                                                          *)
(***************************************************************************)
EXTENDS Integers, FiniteSets

CONSTANTS User, App, Org, Role, Permission,
          Token,      \* token pairs, each drawn at most once
          Request,    \* slots for the requests in flight
          None,       \* null; for an organization, the '' of buildAuthUser
          AccessTtl,  \* JWT_ACCESS_EXPIRATION, in ticks
          CacheTtl,   \* TTL of AccessService, five minutes, in ticks
          QueryTime,  \* longest time from the reading of the tables to the
                      \* use of what was read, in ticks
          MaxTime     \* bound on the clock

ASSUME AccessAssumption ==
    /\ None \notin User \cup App \cup Org \cup Role \cup Token
    /\ AccessTtl \in Nat \ {0} /\ CacheTtl \in Nat \ {0}
    /\ QueryTime \in Nat /\ MaxTime \in Nat

VARIABLES now,      \* Date.now()
          orgApp,   \* the application of each organization, or None
          roleApp,  \* the application of each role, or None
          member,   \* user_roles
          grants,   \* role_permissions, by role
          token,    \* the token pairs
          cache,    \* AccessService.cache: a set of entries, one per key
          request,  \* the requests in flight
          had       \* history: who had which permissions, and when

tables == <<orgApp, roleApp, member, grants>>
vars == <<now, tables, token, cache, request, had>>

Scope == App \cup {None}
Place == Org \cup {None}
Membership == [user : User, org : Org, role : Role]

\* The key: user, organization, application, sorted names of the roles.
Key == [user : User, org : Place, app : Scope, roles : SUBSET Role]

\* What has been read of a user in a context, and when (readAt is history).
Reading == [user : User, org : Place, app : Scope, roles : SUBSET Role,
            permissions : SUBSET Permission, readAt : Nat]

\* parent: the token refreshed, or None.
Claims == [reading : Reading, exp : Nat, parent : Token \cup {None}]
Entry == [key : Key, reading : Reading, expiresAt : Nat]

Slot == [pc : {"switch", "resolve", "sign", "fill"}, reading : Reading,
         parent : Token \cup {None}]

ASSUME NoneIsNoAccessRecord == None \notin Claims \cup Slot

TypeOK == /\ now \in Nat
          /\ orgApp \in [Org -> Scope]
          /\ roleApp \in [Role -> Scope]
          /\ member \in SUBSET Membership
          /\ grants \in [Role -> SUBSET Permission]
          /\ token \in [Token -> Claims \cup {None}]
          /\ cache \in SUBSET Entry
          /\ request \in [Request -> Slot \cup {None}]
          /\ had \in SUBSET [user : User, org : Place, app : Scope,
                             permissions : SUBSET Permission, at : Nat]
-----------------------------------------------------------------------------
\* The roles a user holds in an organization, less those of an application
\* other than a; with no application, all of them.
RolesIn(u, o, a) ==
    {r \in Role : /\ [user |-> u, org |-> o, role |-> r] \in member
                  /\ a = None \/ roleApp[r] \in {None, a}}

PermissionsIn(u, o, a) == UNION {grants[r] : r \in RolesIn(u, o, a)}

Showing == {[user |-> u, org |-> o, app |-> a,
             permissions |-> PermissionsIn(u, o, a), at |-> now] :
               u \in User, o \in Place, a \in Scope}

Remember == had' = had \cup Showing'

Valid(t) == token[t] # None /\ now < token[t].exp

KeyOf(u, o, a, roles) == [user |-> u, org |-> o, app |-> a, roles |-> roles]

\* FAULT: an entry is good at the instant it expires.
Hits_AtExpiry(k) == {e \in cache : e.key = k /\ e.expiresAt >= now}

\* `cached.expiresAt > Date.now()'.
Hits(k) == {e \in cache : e.key = k /\ e.expiresAt > now}

\* userRoles[0]: the organization of some membership, or none.
FirstOrg(u) == LET O == {m.org : m \in {n \in member : n.user = u}}
               IN  IF O = {} THEN {None} ELSE O

AppOf(o) == IF o = None THEN None ELSE orgApp[o]
-----------------------------------------------------------------------------
Init == /\ now = 0
        /\ orgApp \in [Org -> Scope]
        /\ roleApp \in [Role -> Scope]
        /\ member = {}
        /\ grants = [r \in Role |-> {}]
        /\ token = [t \in Token |-> None]
        /\ cache = {}
        /\ request = [q \in Request |-> None]
        /\ had = Showing

\* The tables change as Memberships allows, and with it the handlers of Tenancy;
\* none of them touches the cache.
Tables == INSTANCE Memberships

ChangeTables == /\ Tables!Next
                /\ UNCHANGED <<now, token, cache, request>>
                /\ Remember

Start(q, pc, reading, parent) ==
    /\ request[q] = None
    /\ request' = [request EXCEPT
                     ![q] = [pc |-> pc, reading |-> reading, parent |-> parent]]

\* A context whose claims are not resolved yet.
Context(u, o, a) == [user |-> u, org |-> o, app |-> a, roles |-> {},
                     permissions |-> {}, readAt |-> 0]

Read(u, o, a, roles) == [user |-> u, org |-> o, app |-> a, roles |-> roles,
                         permissions |-> PermissionsIn(u, o, a), readAt |-> now]

\* FAULT: nobody asks for the membership.
IsMember_Anyone(u, o) == TRUE

IsMember(u, o) == \E m \in member : m.user = u /\ m.org = o

\* switchOrganization: the membership is looked up, and then the organization.
SwitchOrganization(q, u, o) ==
    /\ IsMember(u, o)
    /\ Start(q, "switch", Context(u, o, None), None)
    /\ UNCHANGED <<now, tables, token, cache, had>>

FindOrganization(q) ==
    LET s == request[q].reading IN
    /\ request[q] # None /\ request[q].pc = "switch"
    /\ request' = [request EXCEPT
         ![q] = [pc |-> "resolve", reading |-> Context(s.user, s.org, AppOf(s.org)),
                 parent |-> None]]
    /\ UNCHANGED <<now, tables, token, cache, had>>

\* login, without an application in the query or with that of the
\* organization found.
Login(q, u, o) ==
    /\ o \in FirstOrg(u)
    /\ Start(q, "resolve", Context(u, o, AppOf(o)), None)
    /\ UNCHANGED <<now, tables, token, cache, had>>

\* FAULT: a refresh signs for the first organization of the user.
RefreshTokens_FirstOrg(q, t) ==
    /\ token[t] # None
    /\ LET s == token[t].reading IN
       \E o \in FirstOrg(s.user) :
         Start(q, "resolve", Context(s.user, o, AppOf(o)), t)
    /\ UNCHANGED <<now, tables, token, cache, had>>

\* refreshTokens, from the stored row to `applicationId': what is null there
\* is taken from the first organization of the user.
RefreshTokens(q, t) ==
    /\ token[t] # None
    /\ LET s == token[t].reading IN
       \E o \in FirstOrg(s.user) :
         Start(q, "resolve",
               Context(s.user, s.org, IF s.app = None THEN AppOf(o) ELSE s.app), t)
    /\ UNCHANGED <<now, tables, token, cache, had>>

\* FAULT: a refresh carries the claims over.
ResolveUserClaims_CarryOver(q) ==
    LET s == request[q].reading  p == request[q].parent IN
    /\ request[q] # None /\ request[q].pc = "resolve"
    /\ request' = [request EXCEPT
         ![q].pc = "sign",
         ![q].reading = IF p # None THEN [token[p].reading EXCEPT !.readAt = now]
                        ELSE Read(s.user, s.org, s.app, RolesIn(s.user, s.org, s.app))]
    /\ UNCHANGED <<now, tables, token, cache, had>>

\* resolveUserClaims: one query, filtered afterwards.
ResolveUserClaims(q) ==
    LET s == request[q].reading IN
    /\ request[q] # None /\ request[q].pc = "resolve"
    /\ request' = [request EXCEPT
         ![q] = [pc |-> "sign", parent |-> @.parent,
                 reading |-> Read(s.user, s.org, s.app, RolesIn(s.user, s.org, s.app))]]
    /\ UNCHANGED <<now, tables, token, cache, had>>

\* generateTokens, with what was read.
GenerateTokens(q, t) ==
    /\ request[q] # None /\ request[q].pc = "sign"
    /\ token[t] = None
    /\ token' = [token EXCEPT ![t] = [reading |-> request[q].reading,
                                      exp |-> now + AccessTtl,
                                      parent |-> request[q].parent]]
    /\ request' = [request EXCEPT ![q] = None]
    /\ UNCHANGED <<now, tables, cache, had>>

\* getUserPermissions on a miss: findRolesByUserAndOrg.
FindRoles(q, t, o, a) ==
    /\ Valid(t)
    /\ LET s == token[t].reading IN
       /\ Hits(KeyOf(s.user, o, a, s.roles)) = {}
       /\ Start(q, "fill", Read(s.user, o, a, s.roles), None)
    /\ UNCHANGED <<now, tables, token, cache, had>>

\* cache.set, when the query has returned; whatever is there is replaced.
FillCache(q) ==
    LET s == request[q].reading
        k == KeyOf(s.user, s.org, s.app, s.roles) IN
    /\ request[q] # None /\ request[q].pc = "fill"
    /\ cache' = {e \in cache : e.key # k}
                \cup {[key |-> k, reading |-> s, expiresAt |-> now + CacheTtl]}
    /\ request' = [request EXCEPT ![q] = None]
    /\ UNCHANGED <<now, tables, token, had>>

\* The process restarts: the cache and the requests are gone.
Restart == /\ cache' = {}
           /\ request' = [q \in Request |-> None]
           /\ UNCHANGED <<now, tables, token, had>>

\* A request does not sit on what it has read for longer than QueryTime.
Tick == /\ now < MaxTime
        /\ \A q \in Request : request[q] # None /\ request[q].pc \in {"sign", "fill"} =>
                                  now < request[q].reading.readAt + QueryTime
        /\ now' = now + 1
        /\ UNCHANGED <<tables, token, cache, request>>
        /\ Remember

RequestStep(q) ==
    \/ \E u \in User, o \in Place : Login(q, u, o)
    \/ \E t \in Token : \/ RefreshTokens(q, t)
                        \/ GenerateTokens(q, t)
                        \/ \E o \in Place, a \in Scope : FindRoles(q, t, o, a)
    \/ \E u \in User, o \in Org : SwitchOrganization(q, u, o)
    \/ FindOrganization(q)
    \/ ResolveUserClaims(q)
    \/ FillCache(q)

\* All that happens as long as the process runs.
Running == ChangeTables \/ (\E q \in Request : RequestStep(q)) \/ Tick

Next == Running \/ Restart

Spec == Init /\ [][Next]_vars
-----------------------------------------------------------------------------
\* The user had exactly these permissions in the context of the reading, at
\* some moment less than `age' ticks ago.
Recently(reading, age) ==
    \E h \in had : /\ h.user = reading.user /\ h.org = reading.org
                   /\ h.app = reading.app
                   /\ h.permissions = reading.permissions
                   /\ now < h.at + age

(* An answer from the cache is what the tables said of this user, in this   *)
(* organization and for this application, less than the TTL and the time of *)
(* one query ago; a lookup that was overtaken by a change, and by other     *)
(* lookups, may still put the older answer in their place.                  *)
CheckIsHonest ==
    \A e \in cache : e \in Hits(e.key) =>
        Recently([user |-> e.key.user, org |-> e.key.org, app |-> e.key.app,
                  permissions |-> e.reading.permissions], CacheTtl + QueryTime)

(* As long as a token is accepted, the permissions PermissionsGuard reads   *)
(* from it were those of its user in its context no longer ago than its     *)
(* lifetime and the time of one query; a refresh does not prolong it.       *)
GuardIsHonest ==
    \A t \in Token : Valid(t) => Recently(token[t].reading, AccessTtl + QueryTime)

\* The inductive invariant behind the two.
ReadTrue(reading) ==
    [user |-> reading.user, org |-> reading.org, app |-> reading.app,
     permissions |-> reading.permissions, at |-> reading.readAt] \in had

AccessInv ==
    /\ TypeOK
    /\ Showing \subseteq had
    /\ \A q \in Request : request[q] # None /\ request[q].pc \in {"sign", "fill"} =>
           /\ ReadTrue(request[q].reading)
           /\ now <= request[q].reading.readAt + QueryTime
    /\ \A t \in Token : token[t] # None =>
           /\ ReadTrue(token[t].reading)
           /\ token[t].exp <= token[t].reading.readAt + QueryTime + AccessTtl
    /\ \A e \in cache :
           /\ e.key = KeyOf(e.reading.user, e.reading.org, e.reading.app, e.reading.roles)
           /\ ReadTrue(e.reading)
           /\ e.expiresAt <= e.reading.readAt + QueryTime + CacheTtl

\* What a refresh may make of a context: a null application is filled in once.
Stays(before, after) == /\ after.user = before.user
                        /\ after.org = before.org
                        /\ before.app \in {None, after.app}

(* Refreshed however often, and whatever becomes of the memberships and of  *)
(* the organization meanwhile, a session stays with its user and in its     *)
(* organization; its application changes once at most, from null.           *)
ContextIsKept ==
    \A t \in Token : token[t] # None /\ token[t].parent # None =>
        /\ token[token[t].parent] # None
        /\ Stays(token[token[t].parent].reading, token[t].reading)

\* Together with ContextIsKept: a refresh in flight keeps to it already.
RefreshesKeepContext ==
    \A q \in Request : request[q] # None /\ request[q].parent # None =>
        /\ token[request[q].parent] # None
        /\ Stays(token[request[q].parent].reading, request[q].reading)
-----------------------------------------------------------------------------
(* docs/api-frontend-guide.md:318, "context is preserved across refreshes": *)
(* a session opened in an organization stays in it, and in its application. *)
(* It does not hold.                                                        *)
ContextIsPreserved ==
    \A t \in Token :
        token[t] # None /\ token[t].parent # None =>
            LET before == token[token[t].parent].reading IN
            before.org # None => /\ token[t].reading.org = before.org
                                 /\ token[t].reading.app = before.app
=============================================================================
