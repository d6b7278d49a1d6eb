---------------------------- MODULE AccessProofs ----------------------------
(***************************************************************************)
(* Both copies of a user's permissions are honest about the past: for any  *)
(* users, organizations, roles, concurrent requests and lifetimes, what a  *)
(* valid token or a valid cache entry says was true recently.              *)
(*                                                                         *)
(* Everything rests on AccessInv: whatever a request, a token or an entry  *)
(* holds was read from the tables at a known time (ReadTrue), the history  *)
(* forgets nothing, and the expiry set when it was stored is bounded by    *)
(* the time it was read.                                                   *)
(*                                                                         *)
(* The second half is about Delivery, which runs on top of Access: who is  *)
(* in a room, and who hears what is sent to it.  DeliveryInv carries the   *)
(* membership a room was earned by from the sign-in to the socket.         *)
(***************************************************************************)
EXTENDS Delivery, TLAPS

LEMMA PermissionsType ==
    ASSUME TypeOK, NEW u \in User, NEW o \in Place, NEW a \in Scope
    PROVE  PermissionsIn(u, o, a) \in SUBSET Permission /\ RolesIn(u, o, a) \in SUBSET Role
BY DEF TypeOK, PermissionsIn, RolesIn

\* What happens to be true now is part of the history, and well typed.
LEMMA ShowingType ==
    ASSUME TypeOK
    PROVE  Showing \subseteq [user : User, org : Place, app : Scope,
                              permissions : SUBSET Permission, at : Nat]
BY PermissionsType DEF TypeOK, Showing

LEMMA ReadIsTrue ==
    ASSUME AccessInv, NEW u \in User, NEW o \in Place, NEW a \in Scope,
           NEW R \in SUBSET Role
    PROVE  /\ Read(u, o, a, R) \in Reading
           /\ ReadTrue(Read(u, o, a, R))
           /\ Read(u, o, a, R).readAt = now
<1>1. Read(u, o, a, R) \in Reading
  BY PermissionsType DEF Read, Reading, AccessInv, TypeOK
<1>2. [user |-> u, org |-> o, app |-> a,
       permissions |-> PermissionsIn(u, o, a), at |-> now] \in Showing
  BY DEF Showing
<1>3. ReadTrue(Read(u, o, a, R))
  BY <1>2 DEF Read, ReadTrue, AccessInv
<1> QED BY <1>1, <1>3 DEF Read

LEMMA FirstOrgType ==
    ASSUME TypeOK, NEW u \in User
    PROVE  FirstOrg(u) \subseteq Place
BY DEF FirstOrg, TypeOK, Membership, Place

LEMMA InitAccess == Init => AccessInv
<1> SUFFICES ASSUME Init PROVE AccessInv
  OBVIOUS
<1> USE AccessAssumption
<1>1. /\ now \in Nat /\ orgApp \in [Org -> Scope] /\ roleApp \in [Role -> Scope]
      /\ member \in SUBSET Membership /\ grants \in [Role -> SUBSET Permission]
      /\ token \in [Token -> Claims \cup {None}]
      /\ cache \in SUBSET Entry
      /\ request \in [Request -> Slot \cup {None}]
  BY DEF Init
<1>2. ASSUME NEW u \in User, NEW o \in Place, NEW a \in Scope
      PROVE  PermissionsIn(u, o, a) \in SUBSET Permission
  <2>1. RolesIn(u, o, a) \in SUBSET Role
    BY DEF RolesIn
  <2> QED BY <1>1, <2>1 DEF PermissionsIn
<1>3. Showing \subseteq [user : User, org : Place, app : Scope,
                         permissions : SUBSET Permission, at : Nat]
  BY <1>1, <1>2 DEF Showing
<1>4. TypeOK
  BY <1>1, <1>3 DEF Init, TypeOK
<1> QED BY <1>4 DEF Init, AccessInv

\* Steps that change the tables or the clock, and nothing that was read.
LEMMA TablesStep ==
    ASSUME AccessInv, UNCHANGED <<token, cache, request>>, Remember,
           now' \in Nat, now' >= now,
           \A q \in Request : request[q] # None /\ request[q].pc \in {"sign", "fill"} =>
                                  now' <= request[q].reading.readAt + QueryTime,
           orgApp' \in [Org -> Scope], roleApp' \in [Role -> Scope],
           member' \in SUBSET Membership, grants' \in [Role -> SUBSET Permission]
    PROVE  AccessInv'
<1>1. \A u \in User, o \in Place, a \in Scope :
         PermissionsIn(u, o, a)' \in SUBSET Permission
  BY DEF PermissionsIn, RolesIn
<1>2. Showing' \subseteq [user : User, org : Place, app : Scope,
                          permissions : SUBSET Permission, at : Nat]
  BY <1>1 DEF Showing
<1>3. TypeOK'
  BY <1>2 DEF AccessInv, TypeOK, Remember
<1>4. had \subseteq had' /\ Showing' \subseteq had'
  BY DEF Remember
<1> QED BY <1>3, <1>4 DEF AccessInv, ReadTrue, KeyOf

\* What the invariant says of one request, one token, one entry.
SoundRequest(s) == s # None /\ s.pc \in {"sign", "fill"} =>
                       ReadTrue(s.reading) /\ now <= s.reading.readAt + QueryTime

SoundToken(c) == c # None =>
                     /\ ReadTrue(c.reading)
                     /\ c.exp <= c.reading.readAt + QueryTime + AccessTtl

SoundEntry(e) ==
    /\ e.key = KeyOf(e.reading.user, e.reading.org, e.reading.app, e.reading.roles)
    /\ ReadTrue(e.reading)
    /\ e.expiresAt <= e.reading.readAt + QueryTime + CacheTtl

LEMMA Sound == AccessInv <=> /\ TypeOK
                             /\ Showing \subseteq had
                             /\ \A q \in Request : SoundRequest(request[q])
                             /\ \A t \in Token : SoundToken(token[t])
                             /\ \A e \in cache : SoundEntry(e)
BY DEF AccessInv, SoundRequest, SoundToken, SoundEntry

\* Steps that leave the tables, the clock and the history alone.
LEMMA QuietStep ==
    ASSUME AccessInv, UNCHANGED <<now, tables, had>>,
           token' \in [Token -> Claims \cup {None}],
           cache' \in SUBSET Entry,
           request' \in [Request -> Slot \cup {None}],
           \A q \in Request : SoundRequest(request'[q]),
           \A t \in Token : SoundToken(token'[t]),
           \A e \in cache' : SoundEntry(e)
    PROVE  AccessInv'
<1>1. TypeOK'
  BY DEF AccessInv, TypeOK, tables
<1>2. \A u \in User, o \in Place, a \in Scope :
         PermissionsIn(u, o, a)' = PermissionsIn(u, o, a)
  BY DEF tables, PermissionsIn, RolesIn
<1>3. (Showing \subseteq had)'
  BY <1>2 DEF AccessInv, Showing
<1> QED BY <1>1, <1>3 DEF AccessInv, SoundRequest, SoundToken, SoundEntry, ReadTrue, KeyOf

TypedTables == /\ orgApp \in [Org -> Scope] /\ roleApp \in [Role -> Scope]
               /\ member \in SUBSET Membership /\ grants \in [Role -> SUBSET Permission]

\* Whatever the handlers do to the tables, they stay tables.
LEMMA TablesType ==
    ASSUME TypeOK, Tables!Next
    PROVE  TypedTables'
<1> USE DEF TypeOK, TypedTables, Tables!Scope, Scope, Tables!Membership, Membership
<1>1. ASSUME NEW m \in Tables!Membership,
             Tables!Join(m) \/ \E a \in Tables!Scope : Tables!Found(m, a)
      PROVE  TypedTables'
  BY <1>1 DEF Tables!Join, Tables!Found
<1>2. ASSUME NEW m \in member, Tables!Leave(m)
      PROVE  TypedTables'
  BY <1>2 DEF Tables!Leave
<1>3. ASSUME NEW m \in member, NEW r \in Role, Tables!ChangeRole(m, r)
      PROVE  TypedTables'
  <2>1. m \in Membership /\ [m EXCEPT !.role = r] \in Membership
    BY <1>3
  <2> QED BY <1>3, <2>1 DEF Tables!ChangeRole
<1>4. ASSUME NEW r \in Role, Tables!DropRole(r)
      PROVE  TypedTables'
  BY <1>4 DEF Tables!DropRole
<1>5. ASSUME NEW r \in Role, NEW S \in SUBSET Permission, Tables!Regrant(r, S)
      PROVE  TypedTables'
  BY <1>5 DEF Tables!Regrant
<1>6. ASSUME NEW o \in Org, NEW a \in Tables!Scope, Tables!PlaceOrg(o, a)
      PROVE  TypedTables'
  BY <1>6 DEF Tables!PlaceOrg
<1>7. ASSUME NEW r \in Role, NEW a \in Tables!Scope, Tables!PlaceRole(r, a)
      PROVE  TypedTables'
  BY <1>7 DEF Tables!PlaceRole
<1> QED BY <1>1, <1>2, <1>3, <1>4, <1>5, <1>6, <1>7 DEF Tables!Next

LEMMA StepAccess ==
    ASSUME AccessInv, Next
    PROVE  AccessInv'
<1> USE AccessAssumption, NoneIsNoAccessRecord
<1>a. TypeOK
  BY DEF AccessInv
<1>1. CASE ChangeTables
  BY <1>1, <1>a, TablesType, TablesStep DEF ChangeTables, TypedTables, TypeOK, AccessInv
<1>5. CASE Tick
  BY <1>5, <1>a, TablesStep DEF Tick, TypeOK, AccessInv, tables, Slot, Reading
<1>b. /\ \A q \in Request : SoundRequest(request[q])
      /\ \A t \in Token : SoundToken(token[t])
      /\ \A e \in cache : SoundEntry(e)
  BY Sound
<1>3. ASSUME NEW q \in Request, NEW u \in User, NEW o \in Org,
             SwitchOrganization(q, u, o)
      PROVE  AccessInv'
  <2> DEFINE slot == [pc |-> "switch", reading |-> Context(u, o, None), parent |-> None]
  <2>1. slot \in Slot
    BY <1>a DEF Slot, Context, Reading, Place, Scope
  <2>2. request' = [request EXCEPT ![q] = slot]
    BY <1>3 DEF SwitchOrganization, Start
  <2>3. SoundRequest(slot)
    BY DEF SoundRequest
  <2> HIDE DEF slot
  <2>4. request' \in [Request -> Slot \cup {None}]
        /\ \A p \in Request : SoundRequest(request'[p])
    BY <1>a, <1>b, <2>1, <2>2, <2>3 DEF TypeOK
  <2> QED BY <1>3, <1>a, <1>b, <2>4, QuietStep DEF SwitchOrganization, TypeOK
<1>4. ASSUME NEW q \in Request, FindOrganization(q)
      PROVE  AccessInv'
  <2> DEFINE s == request[q].reading
             slot == [pc |-> "resolve", reading |-> Context(s.user, s.org, AppOf(s.org)),
                      parent |-> None]
  <2>1. request[q] \in Slot
    BY <1>4, <1>a DEF FindOrganization, TypeOK
  <2>2. s.user \in User /\ s.org \in Place
    BY <2>1 DEF Slot, Reading
  <2>3. AppOf(s.org) \in Scope
    BY <2>2, <1>a DEF AppOf, Place, Scope, TypeOK
  <2>4. slot \in Slot
    BY <2>2, <2>3 DEF Slot, Context, Reading
  <2>5. request' = [request EXCEPT ![q] = slot]
    BY <1>4 DEF FindOrganization
  <2>6. SoundRequest(slot)
    BY DEF SoundRequest
  <2> HIDE DEF slot
  <2>7. request' \in [Request -> Slot \cup {None}]
        /\ \A p \in Request : SoundRequest(request'[p])
    BY <1>a, <1>b, <2>4, <2>5, <2>6 DEF TypeOK
  <2> QED BY <1>4, <1>a, <1>b, <2>7, QuietStep DEF FindOrganization, TypeOK
<1>6. ASSUME NEW q \in Request, NEW u \in User, NEW o \in Place, Login(q, u, o)
      PROVE  AccessInv'
  <2> DEFINE slot == [pc |-> "resolve", reading |-> Context(u, o, AppOf(o)),
                      parent |-> None]
  <2>1. slot \in Slot
    BY <1>a DEF TypeOK, Slot, Context, Reading, AppOf, Place, Scope
  <2>2. request' = [request EXCEPT ![q] = slot]
    BY <1>6 DEF Login, Start
  <2>3. SoundRequest(slot)
    BY DEF SoundRequest
  <2> HIDE DEF slot
  <2>4. request' \in [Request -> Slot \cup {None}]
        /\ \A p \in Request : SoundRequest(request'[p])
    BY <1>a, <1>b, <2>1, <2>2, <2>3 DEF TypeOK
  <2> QED BY <1>6, <1>a, <1>b, <2>4, QuietStep DEF Login, TypeOK
<1>7. ASSUME NEW q \in Request, NEW t \in Token, RefreshTokens(q, t)
      PROVE  AccessInv'
  <2> DEFINE s == token[t].reading
             slot(o) == [pc |-> "resolve", parent |-> t,
                         reading |-> Context(s.user, s.org,
                                       IF s.app = None THEN AppOf(o) ELSE s.app)]
  <2>1. PICK o \in FirstOrg(s.user) : request' = [request EXCEPT ![q] = slot(o)]
    BY <1>7 DEF RefreshTokens, Start
  <2>2. s \in Reading
    BY <1>7, <1>a DEF RefreshTokens, TypeOK, Claims
  <2>c. o \in Place
    BY <2>1, <2>2, <1>a, FirstOrgType DEF Reading
  <2>3. AppOf(o) \in Scope
    BY <2>c, <1>a DEF AppOf, Place, Scope, TypeOK
  <2>4. slot(o) \in Slot
    BY <2>2, <2>3, <1>a DEF Slot, Context, Reading
  <2>5. SoundRequest(slot(o))
    BY DEF SoundRequest
  <2> HIDE DEF slot
  <2>6. request' \in [Request -> Slot \cup {None}]
        /\ \A p \in Request : SoundRequest(request'[p])
    BY <1>a, <1>b, <2>1, <2>4, <2>5 DEF TypeOK
  <2> QED BY <1>7, <1>a, <1>b, <2>6, QuietStep DEF RefreshTokens, TypeOK
<1>8. ASSUME NEW q \in Request, NEW t \in Token, GenerateTokens(q, t)
      PROVE  AccessInv'
  <2> DEFINE claims == [reading |-> request[q].reading, exp |-> now + AccessTtl,
                        parent |-> request[q].parent]
  <2>1. request[q] \in Slot /\ request[q].pc = "sign"
    BY <1>8, <1>a DEF GenerateTokens, TypeOK
  <2>2. claims \in Claims
    BY <2>1, <1>a DEF Slot, Claims, TypeOK
  <2>3. request[q].reading.readAt \in Nat /\ now \in Nat
    BY <2>1, <1>a DEF Slot, Reading, TypeOK
  <2>4. SoundToken(claims)
    BY <1>b, <2>1, <2>3 DEF SoundRequest, SoundToken
  <2>5. /\ token' = [token EXCEPT ![t] = claims]
        /\ request' = [request EXCEPT ![q] = None]
        /\ UNCHANGED <<now, tables, cache, had>>
    BY <1>8 DEF GenerateTokens
  <2>6. SoundRequest(None)
    BY DEF SoundRequest
  <2> HIDE DEF claims
  <2>7. /\ token' \in [Token -> Claims \cup {None}]
        /\ request' \in [Request -> Slot \cup {None}]
        /\ \A p \in Request : SoundRequest(request'[p])
        /\ \A x \in Token : SoundToken(token'[x])
    BY <1>a, <1>b, <2>2, <2>4, <2>5, <2>6 DEF TypeOK
  <2> QED BY <1>a, <1>b, <2>5, <2>7, QuietStep DEF TypeOK
<1>9. ASSUME NEW q \in Request, NEW t \in Token, NEW o \in Place, NEW a \in Scope,
             FindRoles(q, t, o, a)
      PROVE  AccessInv'
  <2> DEFINE s == token[t].reading
             slot == [pc |-> "fill", reading |-> Read(s.user, o, a, s.roles),
                      parent |-> None]
  <2>1. s \in Reading
    BY <1>9, <1>a DEF FindRoles, Valid, TypeOK, Claims
  <2>2. /\ Read(s.user, o, a, s.roles) \in Reading
        /\ ReadTrue(Read(s.user, o, a, s.roles))
        /\ Read(s.user, o, a, s.roles).readAt = now
    BY <2>1, ReadIsTrue DEF Reading
  <2>3. slot \in Slot
    BY <2>2 DEF Slot
  <2>4. SoundRequest(slot)
    BY <2>2, <1>a DEF SoundRequest, TypeOK
  <2>5. request' = [request EXCEPT ![q] = slot]
    BY <1>9 DEF FindRoles, Start
  <2> HIDE DEF slot
  <2>6. request' \in [Request -> Slot \cup {None}]
        /\ \A p \in Request : SoundRequest(request'[p])
    BY <1>a, <1>b, <2>3, <2>4, <2>5 DEF TypeOK
  <2> QED BY <1>9, <1>a, <1>b, <2>6, QuietStep DEF FindRoles, TypeOK
<1>10. ASSUME NEW q \in Request, ResolveUserClaims(q)
       PROVE  AccessInv'
  <2> DEFINE s == request[q].reading
             R == RolesIn(s.user, s.org, s.app)
             slot == [pc |-> "sign", reading |-> Read(s.user, s.org, s.app, R),
                      parent |-> request[q].parent]
  <2>1. request[q] \in Slot
    BY <1>10, <1>a DEF ResolveUserClaims, TypeOK
  <2>2. /\ s.user \in User /\ s.org \in Place /\ s.app \in Scope
        /\ request[q].parent \in Token \cup {None}
    BY <2>1 DEF Slot, Reading
  <2>3. R \in SUBSET Role
    BY <2>2, <1>a, PermissionsType
  <2>4. /\ Read(s.user, s.org, s.app, R) \in Reading
        /\ ReadTrue(Read(s.user, s.org, s.app, R))
        /\ Read(s.user, s.org, s.app, R).readAt = now
    BY <2>2, <2>3, ReadIsTrue
  <2>5. slot \in Slot
    BY <2>2, <2>4 DEF Slot
  <2>6. SoundRequest(slot)
    BY <2>4, <1>a DEF SoundRequest, TypeOK
  <2>7. request' = [request EXCEPT ![q] = slot]
    BY <1>10, <1>a, <2>1 DEF ResolveUserClaims, TypeOK
  <2> HIDE DEF slot
  <2>8. request' \in [Request -> Slot \cup {None}]
        /\ \A p \in Request : SoundRequest(request'[p])
    BY <1>a, <1>b, <2>5, <2>6, <2>7 DEF TypeOK
  <2> QED BY <1>10, <1>a, <1>b, <2>8, QuietStep DEF ResolveUserClaims, TypeOK
<1>11. ASSUME NEW q \in Request, FillCache(q)
       PROVE  AccessInv'
  <2> DEFINE s == request[q].reading
             k == KeyOf(s.user, s.org, s.app, s.roles)
             e == [key |-> k, reading |-> s, expiresAt |-> now + CacheTtl]
  <2>1. request[q] \in Slot /\ request[q].pc = "fill"
    BY <1>11, <1>a DEF FillCache, TypeOK
  <2>2. s \in Reading /\ s.readAt \in Nat /\ now \in Nat
    BY <2>1, <1>a DEF Slot, Reading, TypeOK
  <2>3. k \in Key
    BY <2>2 DEF Reading, Key, KeyOf
  <2>4. e \in Entry
    BY <2>2, <2>3 DEF Entry
  <2>5. SoundEntry(e)
    BY <1>b, <2>1, <2>2 DEF SoundRequest, SoundEntry
  <2>6. /\ cache' \subseteq cache \cup {e}
        /\ request' = [request EXCEPT ![q] = None]
        /\ UNCHANGED <<now, tables, token, had>>
    BY <1>11 DEF FillCache
  <2>7. SoundRequest(None)
    BY DEF SoundRequest
  <2> HIDE DEF e
  <2>8. /\ cache' \in SUBSET Entry /\ \A x \in cache' : SoundEntry(x)
        /\ request' \in [Request -> Slot \cup {None}]
        /\ \A p \in Request : SoundRequest(request'[p])
    BY <1>a, <1>b, <2>4, <2>5, <2>6, <2>7 DEF TypeOK
  <2> QED BY <1>a, <1>b, <2>6, <2>8, QuietStep DEF TypeOK
<1>12. CASE Restart
  <2>1. SoundRequest(None)
    BY DEF SoundRequest
  <2> QED BY <1>12, <1>a, <1>b, <2>1, QuietStep DEF Restart, TypeOK
<1> QED BY <1>1, <1>3, <1>4, <1>5, <1>6, <1>7, <1>8, <1>9, <1>10, <1>11, <1>12
        DEF Next, Running, RequestStep

THEOREM AccessInvariant == Spec => []AccessInv
<1>1. ASSUME AccessInv, UNCHANGED vars PROVE AccessInv'
  BY <1>1, Sound, QuietStep DEF vars, AccessInv, TypeOK
<1>2. AccessInv /\ [Next]_vars => AccessInv'
  BY <1>1, StepAccess
<1> QED BY InitAccess, <1>2, PTL DEF Spec

(* A valid cache entry of AccessService (access.service.ts 26-49) tells     *)
(* what its user had, in its organization and application, less than the   *)
(* TTL and one query ago: the key separates what the answer depends on, and *)
(* an overtaken lookup cannot make an answer older than that.               *)
THEOREM CheckTheorem == Spec => []CheckIsHonest
<1>1. ASSUME AccessInv PROVE CheckIsHonest
  <2> SUFFICES ASSUME NEW e \in cache, e \in Hits(e.key)
               PROVE  Recently([user |-> e.key.user, org |-> e.key.org,
                                app |-> e.key.app,
                                permissions |-> e.reading.permissions],
                               CacheTtl + QueryTime)
    BY DEF CheckIsHonest
  <2> DEFINE h == [user |-> e.reading.user, org |-> e.reading.org,
                   app |-> e.reading.app, permissions |-> e.reading.permissions,
                   at |-> e.reading.readAt]
  <2>1. h \in had
    BY <1>1 DEF AccessInv, ReadTrue
  <2>2. /\ e.key.user = h.user /\ e.key.org = h.org /\ e.key.app = h.app
        /\ now < e.expiresAt /\ e.expiresAt <= h.at + QueryTime + CacheTtl
    <3>1. e.key = KeyOf(h.user, h.org, h.app, e.reading.roles)
          /\ e.expiresAt <= h.at + QueryTime + CacheTtl
      BY <1>1 DEF AccessInv
    <3>2. now < e.expiresAt
      BY <1>1 DEF Hits, AccessInv, TypeOK, Entry
    <3> QED BY <3>1, <3>2 DEF KeyOf
  <2>3. e.reading.readAt \in Nat /\ e.expiresAt \in Nat /\ now \in Nat
    BY <1>1 DEF AccessInv, TypeOK, Entry, Reading
  <2>4. now < h.at + (CacheTtl + QueryTime)
    BY <2>2, <2>3, AccessAssumption
  <2> QED BY <2>1, <2>2, <2>4 DEF Recently
<1> QED BY <1>1, AccessInvariant, PTL

(* What PermissionsGuard (permissions.guard.ts 35-36) reads from a valid    *)
(* token was true of its user and context less than a lifetime and one      *)
(* query ago, however often the session was refreshed and whatever was      *)
(* changed in the meantime.                                                 *)
THEOREM GuardTheorem == Spec => []GuardIsHonest
<1>1. ASSUME AccessInv PROVE GuardIsHonest
  <2> SUFFICES ASSUME NEW t \in Token, Valid(t)
               PROVE  Recently(token[t].reading, AccessTtl + QueryTime)
    BY DEF GuardIsHonest
  <2> DEFINE s == token[t].reading
             h == [user |-> s.user, org |-> s.org, app |-> s.app,
                   permissions |-> s.permissions, at |-> s.readAt]
  <2>1. h \in had /\ token[t].exp <= s.readAt + QueryTime + AccessTtl
    BY <1>1 DEF AccessInv, ReadTrue, Valid
  <2>2. s.readAt \in Nat /\ token[t].exp \in Nat /\ now \in Nat
    BY <1>1 DEF AccessInv, TypeOK, Claims, Reading, Valid
  <2>3. now < h.at + (AccessTtl + QueryTime)
    BY <2>1, <2>2, AccessAssumption DEF Valid
  <2> QED BY <2>1, <2>3 DEF Recently
<1> QED BY <1>1, AccessInvariant, PTL
-----------------------------------------------------------------------------
ContextInv == ContextIsKept /\ RefreshesKeepContext

\* What ContextInv says of one token and of one request; p is the parent.
Kept(p, reading) == p # None => token[p] # None /\ Stays(token[p].reading, reading)

KeptSlot(s) == s # None => Kept(s.parent, s.reading)
KeptClaims(c) == c # None => Kept(c.parent, c.reading)

LEMMA ContextParts == ContextInv <=> /\ \A t \in Token : KeptClaims(token[t])
                                     /\ \A q \in Request : KeptSlot(request[q])
BY DEF ContextInv, ContextIsKept, RefreshesKeepContext, KeptSlot, KeptClaims, Kept

\* A token once handed out says the same forever.
LEMMA TokensStay ==
    ASSUME TypeOK, Next, NEW t \in Token, token[t] # None
    PROVE  token'[t] = token[t]
BY DEF Next, Running, RequestStep, ChangeTables, Tick, Restart, SwitchOrganization,
       FindOrganization, Login, RefreshTokens, ResolveUserClaims, FindRoles, FillCache,
       GenerateTokens, TypeOK

\* A request for a refresh sets out in the context of the token, and stays.
LEMMA RequestsKeepContext ==
    ASSUME TypeOK, ContextInv, Next
    PROVE  \A q \in Request : KeptSlot(request'[q])
<1> USE AccessAssumption
<1>a. request \in [Request -> Slot \cup {None}] /\ token \in [Token -> Claims \cup {None}]
  BY DEF TypeOK
<1>b. \A q \in Request : KeptSlot(request[q])
  BY ContextParts
<1>1. ASSUME NEW q \in Request, NEW slot, KeptSlot(slot),
             request' = [request EXCEPT ![q] = slot]
      PROVE  \A p \in Request : KeptSlot(request'[p])
  BY <1>1, <1>a, <1>b
<1>n. KeptSlot(None)
  BY DEF KeptSlot
<1>o. ASSUME NEW q \in Request, NEW pc, NEW reading, Start(q, pc, reading, None)
      PROVE  \A p \in Request : KeptSlot(request'[p])
  <2> DEFINE slot == [pc |-> pc, reading |-> reading, parent |-> None]
  <2>1. KeptSlot(slot) /\ request' = [request EXCEPT ![q] = slot]
    BY <1>o DEF Start, KeptSlot, Kept
  <2> HIDE DEF slot
  <2> QED BY <2>1, <1>1
<1>2. ASSUME NEW q \in Request, NEW t \in Token, RefreshTokens(q, t)
      PROVE  \A p \in Request : KeptSlot(request'[p])
  <2> DEFINE s == token[t].reading
             slot(o) == [pc |-> "resolve", parent |-> t,
                         reading |-> Context(s.user, s.org,
                                       IF s.app = None THEN AppOf(o) ELSE s.app)]
  <2>1. PICK o \in FirstOrg(s.user) : request' = [request EXCEPT ![q] = slot(o)]
    BY <1>2 DEF RefreshTokens, Start
  <2>2. KeptSlot(slot(o))
    BY <1>2 DEF RefreshTokens, KeptSlot, Kept, Stays, Context
  <2> HIDE DEF slot
  <2> QED BY <2>1, <2>2, <1>1
<1>3. ASSUME NEW q \in Request, ResolveUserClaims(q)
      PROVE  \A p \in Request : KeptSlot(request'[p])
  <2> DEFINE s == request[q].reading
             slot == [pc |-> "sign", parent |-> request[q].parent,
                      reading |-> Read(s.user, s.org, s.app, RolesIn(s.user, s.org, s.app))]
  <2>1. request' = [request EXCEPT ![q] = slot] /\ KeptSlot(request[q]) /\ request[q] # None
    BY <1>3, <1>a, <1>b DEF ResolveUserClaims
  <2>2. KeptSlot(slot)
    BY <2>1 DEF KeptSlot, Kept, Stays, Read
  <2> HIDE DEF slot
  <2> QED BY <2>1, <2>2, <1>1
<1>4. ASSUME NEW q \in Request, FindOrganization(q)
      PROVE  \A p \in Request : KeptSlot(request'[p])
  <2> DEFINE s == request[q].reading
             slot == [pc |-> "resolve", reading |-> Context(s.user, s.org, AppOf(s.org)),
                      parent |-> None]
  <2>1. KeptSlot(slot) /\ request' = [request EXCEPT ![q] = slot]
    BY <1>4 DEF FindOrganization, KeptSlot, Kept
  <2> HIDE DEF slot
  <2> QED BY <2>1, <1>1
<1>5. CASE Restart
  BY <1>5, <1>n DEF Restart
<1>6. ASSUME NEW q \in Request, request' = [request EXCEPT ![q] = None]
      PROVE  \A p \in Request : KeptSlot(request'[p])
  BY <1>6, <1>1, <1>n
<1>7. CASE UNCHANGED request
  BY <1>7, <1>b
<1> QED BY <1>o, <1>2, <1>3, <1>4, <1>5, <1>6, <1>7
        DEF Next, Running, RequestStep, ChangeTables, Tick, SwitchOrganization, Login,
            FindRoles, GenerateTokens, FillCache

LEMMA ContextStep ==
    ASSUME AccessInv, ContextInv, [Next]_vars
    PROVE  ContextInv'
<1>a. TypeOK
  BY DEF AccessInv
<1>b. /\ \A t \in Token : KeptClaims(token[t])
      /\ \A q \in Request : KeptSlot(request[q])
  BY ContextParts
<1>1. CASE UNCHANGED vars
  BY <1>1 DEF vars, ContextInv, ContextIsKept, RefreshesKeepContext
<1>2. CASE Next
  <2>1. ASSUME NEW p, NEW reading, p \in Token \cup {None}, Kept(p, reading)
        PROVE  p # None => token'[p] # None /\ Stays(token'[p].reading, reading)
    BY <1>2, <1>a, <2>1, TokensStay DEF Kept
  <2>2. \A t \in Token : token'[t] = token[t] \/ KeptClaims(token'[t])
    <3>1. ASSUME NEW q \in Request, NEW t \in Token, GenerateTokens(q, t), NEW x \in Token
          PROVE  token'[x] = token[x] \/ KeptClaims(token'[x])
      <4> DEFINE claims == [reading |-> request[q].reading, exp |-> now + AccessTtl,
                            parent |-> request[q].parent]
      <4>1. KeptClaims(claims) /\ token' = [token EXCEPT ![t] = claims]
        BY <3>1, <1>b DEF GenerateTokens, KeptClaims, KeptSlot
      <4> HIDE DEF claims
      <4> QED BY <4>1, <1>a DEF TypeOK
    <3>2. CASE UNCHANGED token
      BY <3>2
    <3> QED BY <1>2, <3>1, <3>2
            DEF Next, Running, RequestStep, ChangeTables, Tick, Restart, SwitchOrganization,
                FindOrganization, Login, RefreshTokens, ResolveUserClaims, FindRoles, FillCache
  <2>3. \A q \in Request : KeptSlot(request'[q])
    BY <1>2, <1>a, RequestsKeepContext
  <2>4. TypeOK'
    BY <1>2, StepAccess DEF AccessInv
  <2>5. \A t \in Token : KeptClaims(token[t])'
    <3> SUFFICES ASSUME NEW t \in Token, token'[t] # None
                 PROVE  Kept(token[t].parent, token[t].reading)'
      BY DEF KeptClaims
    <3>1. token'[t].parent \in Token \cup {None}
      BY <2>4 DEF TypeOK, Claims
    <3>2. Kept(token'[t].parent, token'[t].reading)
      BY <2>2, <1>b DEF KeptClaims
    <3> QED BY <3>1, <3>2, <2>1 DEF Kept
  <2>6. \A q \in Request : KeptSlot(request[q])'
    <3> SUFFICES ASSUME NEW q \in Request, request'[q] # None
                 PROVE  Kept(request[q].parent, request[q].reading)'
      BY DEF KeptSlot
    <3>1. request'[q].parent \in Token \cup {None}
      BY <2>4 DEF TypeOK, Slot
    <3>2. Kept(request'[q].parent, request'[q].reading)
      BY <2>3 DEF KeptSlot
    <3> QED BY <3>1, <3>2, <2>1 DEF Kept
  <2> QED BY <2>5, <2>6 DEF ContextInv, ContextIsKept, RefreshesKeepContext, KeptClaims,
                            KeptSlot, Kept
<1> QED BY <1>1, <1>2

(* A session keeps its user and its organization through every refresh, and *)
(* its application once it has one, for any number of sessions, requests in *)
(* flight and changes of the tables: refreshTokens (auth.service.ts).       *)
THEOREM ContextTheorem == Spec => []ContextIsKept
<1>1. Init => ContextInv
  BY DEF Init, ContextInv, ContextIsKept, RefreshesKeepContext
<1>2. AccessInv /\ ContextInv /\ [Next]_vars => ContextInv'
  BY ContextStep
<1>3. ContextInv => ContextIsKept
  BY DEF ContextInv
<1> QED BY <1>1, <1>2, <1>3, AccessInvariant, PTL DEF Spec
-----------------------------------------------------------------------------
\* What DeliveryInv says of one request and of one token.
EarnedRequest(s) == s # None /\ s.pc # "fill" => Earned(s.reading)
EarnedToken(c) == c # None => Earned(c.reading)

LEMMA FirstOrgIsEarned ==
    ASSUME DeliveryInv, NEW u \in User, NEW o \in FirstOrg(u), o # None
    PROVE  <<u, o>> \in belonged
BY DEF DeliveryInv, FirstOrg

\* A request sets out with what was earned, and keeps it.
LEMMA RequestsEarn ==
    ASSUME AccessInv, DeliveryInv, Running
    PROVE  \A q \in Request : EarnedRequest(request'[q])
<1>a. request \in [Request -> Slot \cup {None}] /\ token \in [Token -> Claims \cup {None}]
  BY DEF AccessInv, TypeOK
<1>b. /\ \A q \in Request : EarnedRequest(request[q])
      /\ \A t \in Token : EarnedToken(token[t])
  BY DEF DeliveryInv, EarnedRequest, EarnedToken
<1>1. ASSUME NEW q \in Request, NEW slot, EarnedRequest(slot),
             request' = [request EXCEPT ![q] = slot]
      PROVE  \A p \in Request : EarnedRequest(request'[p])
  BY <1>1, <1>a, <1>b
<1>n. EarnedRequest(None)
  BY DEF EarnedRequest
<1>2. ASSUME NEW q \in Request, NEW u \in User, NEW o \in Org, SwitchOrganization(q, u, o)
      PROVE  \A p \in Request : EarnedRequest(request'[p])
  <2> DEFINE slot == [pc |-> "switch", reading |-> Context(u, o, None), parent |-> None]
  <2>1. EarnedRequest(slot)
    BY <1>2 DEF SwitchOrganization, IsMember, DeliveryInv, EarnedRequest, Earned, Context
  <2>2. request' = [request EXCEPT ![q] = slot]
    BY <1>2 DEF SwitchOrganization, Start
  <2> HIDE DEF slot
  <2> QED BY <2>1, <2>2, <1>1
<1>3. ASSUME NEW q \in Request, FindOrganization(q)
      PROVE  \A p \in Request : EarnedRequest(request'[p])
  <2> DEFINE s == request[q].reading
             slot == [pc |-> "resolve", reading |-> Context(s.user, s.org, AppOf(s.org)),
                      parent |-> None]
  <2>1. EarnedRequest(slot)
    BY <1>3, <1>b DEF FindOrganization, EarnedRequest, Earned, Context
  <2>2. request' = [request EXCEPT ![q] = slot]
    BY <1>3 DEF FindOrganization
  <2> HIDE DEF slot
  <2> QED BY <2>1, <2>2, <1>1
<1>4. ASSUME NEW q \in Request, NEW u \in User, NEW o \in Place, Login(q, u, o)
      PROVE  \A p \in Request : EarnedRequest(request'[p])
  <2> DEFINE slot == [pc |-> "resolve", reading |-> Context(u, o, AppOf(o)),
                      parent |-> None]
  <2>1. EarnedRequest(slot)
    BY <1>4, FirstOrgIsEarned DEF Login, EarnedRequest, Earned, Context
  <2>2. request' = [request EXCEPT ![q] = slot]
    BY <1>4 DEF Login, Start
  <2> HIDE DEF slot
  <2> QED BY <2>1, <2>2, <1>1
<1>5. ASSUME NEW q \in Request, NEW t \in Token, RefreshTokens(q, t)
      PROVE  \A p \in Request : EarnedRequest(request'[p])
  <2> DEFINE s == token[t].reading
             slot(o) == [pc |-> "resolve", parent |-> t,
                         reading |-> Context(s.user, s.org,
                                       IF s.app = None THEN AppOf(o) ELSE s.app)]
  <2>1. PICK o \in FirstOrg(s.user) : request' = [request EXCEPT ![q] = slot(o)]
    BY <1>5 DEF RefreshTokens, Start
  <2>2. EarnedRequest(slot(o))
    BY <1>5, <1>b DEF RefreshTokens, EarnedToken, EarnedRequest, Earned, Context
  <2> HIDE DEF slot
  <2> QED BY <2>1, <2>2, <1>1
<1>6. ASSUME NEW q \in Request, ResolveUserClaims(q)
      PROVE  \A p \in Request : EarnedRequest(request'[p])
  <2> DEFINE s == request[q].reading
             slot == [pc |-> "sign", parent |-> request[q].parent,
                      reading |-> Read(s.user, s.org, s.app, RolesIn(s.user, s.org, s.app))]
  <2>1. EarnedRequest(slot)
    BY <1>6, <1>b DEF ResolveUserClaims, EarnedRequest, Earned, Read
  <2>2. request' = [request EXCEPT ![q] = slot]
    BY <1>6, <1>a DEF ResolveUserClaims
  <2> HIDE DEF slot
  <2> QED BY <2>1, <2>2, <1>1
<1>7. ASSUME NEW q \in Request, NEW t \in Token, NEW o \in Place, NEW a \in Scope,
             FindRoles(q, t, o, a)
      PROVE  \A p \in Request : EarnedRequest(request'[p])
  <2> DEFINE s == token[t].reading
             slot == [pc |-> "fill", reading |-> Read(s.user, o, a, s.roles),
                      parent |-> None]
  <2>1. EarnedRequest(slot)
    BY DEF EarnedRequest
  <2>2. request' = [request EXCEPT ![q] = slot]
    BY <1>7 DEF FindRoles, Start
  <2> HIDE DEF slot
  <2> QED BY <2>1, <2>2, <1>1
<1>8. CASE UNCHANGED request
  BY <1>8, <1>b
<1> QED BY <1>1, <1>n, <1>2, <1>3, <1>4, <1>5, <1>6, <1>7, <1>8
        DEF Running, RequestStep, ChangeTables, Tick, GenerateTokens, FillCache

\* A token carries what its request has earned.
LEMMA TokensEarn ==
    ASSUME AccessInv, DeliveryInv, Running
    PROVE  \A t \in Token : EarnedToken(token'[t])
<1>b. /\ \A q \in Request : EarnedRequest(request[q])
      /\ \A t \in Token : EarnedToken(token[t])
  BY DEF DeliveryInv, EarnedRequest, EarnedToken
<1>1. CASE UNCHANGED token
  BY <1>1, <1>b
<1>2. ASSUME NEW q \in Request, NEW t \in Token, GenerateTokens(q, t)
      PROVE  \A x \in Token : EarnedToken(token'[x])
  <2> DEFINE claims == [reading |-> request[q].reading, exp |-> now + AccessTtl,
                        parent |-> request[q].parent]
  <2>1. EarnedToken(claims)
    BY <1>2, <1>b DEF GenerateTokens, EarnedToken, EarnedRequest
  <2>2. token' = [token EXCEPT ![t] = claims] /\ token \in [Token -> Claims \cup {None}]
    BY <1>2 DEF GenerateTokens, AccessInv, TypeOK
  <2> HIDE DEF claims
  <2> QED BY <2>1, <2>2, <1>b
<1> QED BY <1>1, <1>2
        DEF Running, RequestStep, ChangeTables, Tick, SwitchOrganization, FindOrganization,
            Login, RefreshTokens, ResolveUserClaims, FindRoles, FillCache

\* The rooms, and what is heard in them.
LEMMA RoomsType ==
    ASSUME AccessInv, NEW k \in Socket, NEW t \in Token, HandleConnection(k, t)
    PROVE  [user |-> token[t].reading.user, org |-> token[t].reading.org,
            app |-> token[t].reading.app] \in Rooms
BY DEF HandleConnection, Valid, AccessInv, TypeOK, Claims, Reading, Rooms, Nobody

LEMMA HearStep ==
    ASSUME DeliveryInv, NEW o \in Place, NEW u \in Nobody, Hear(o, u),
           NEW h \in heard'
    PROVE  /\ h \in [by : Nobody, org : Place, user : Nobody]
           /\ IF h.org # None THEN <<h.by, h.org>> \in belonged ELSE h.by = h.user
<1>1. CASE h \in heard
  BY <1>1 DEF DeliveryInv, DeliveryTypeOK, MessagesStayInside
<1>2. CASE h \notin heard
  <2>1. PICK k \in Audience(o, u) :
            h = [by |-> socket[k].user, org |-> o, user |-> IF o # None THEN None ELSE u]
    BY <1>2 DEF Hear
  <2>2. k \in Open /\ k \in Socket /\ socket[k] \in Rooms
    BY <2>1 DEF Audience, InOrgRoom, InUserRoom, Open, DeliveryInv, DeliveryTypeOK
  <2>3. IF o # None THEN socket[k].org = o ELSE socket[k].user = u
    BY <2>1 DEF Audience, InOrgRoom, InUserRoom
  <2>4. o # None => <<socket[k].user, o>> \in belonged
    BY <2>2, <2>3 DEF DeliveryInv, RoomsAreEarned
  <2> QED BY <2>1, <2>2, <2>3, <2>4 DEF Rooms, Nobody
<1> QED BY <1>1, <1>2

\* A step of the sockets and the notifications.
LEMMA DeliverStep ==
    ASSUME AccessInv, DeliveryInv, Deliver, UNCHANGED <<vars, belonged>>
    PROVE  DeliveryInv'
<1> USE NoneIsNoRooms, AccessAssumption
<1>1. /\ \A m \in member : <<m.user, m.org>> \in belonged
      /\ \A t \in Token : token[t] # None => Earned(token[t].reading)
      /\ \A q \in Request : request[q] # None /\ request[q].pc # "fill" =>
                               Earned(request[q].reading)
  BY DEF DeliveryInv
<1>2. UNCHANGED <<member, token, request, belonged>>
  BY DEF vars, tables
<1>3. ASSUME NEW k \in Socket, NEW r \in Rooms \cup {None},
             r # None => (r.org # None => <<r.user, r.org>> \in belonged),
             socket' = [socket EXCEPT ![k] = r], UNCHANGED <<handler, heard>>
      PROVE  DeliveryInv'
  <2>1. DeliveryTypeOK'
    BY <1>2, <1>3 DEF DeliveryInv, DeliveryTypeOK
  <2>2. RoomsAreEarned'
    BY <1>2, <1>3 DEF DeliveryInv, DeliveryTypeOK, RoomsAreEarned, Open
  <2>3. MessagesStayInside'
    BY <1>2, <1>3 DEF DeliveryInv, MessagesStayInside
  <2> QED BY <1>1, <1>2, <2>1, <2>2, <2>3 DEF DeliveryInv, Earned
<1>4. ASSUME NEW k \in Socket, NEW t \in Token, HandleConnection(k, t)
      PROVE  DeliveryInv'
  <2> DEFINE r == [user |-> token[t].reading.user, org |-> token[t].reading.org,
                   app |-> token[t].reading.app]
  <2>1. r \in Rooms
    BY <1>4, RoomsType
  <2>2. r.org # None => <<r.user, r.org>> \in belonged
    BY <1>1, <1>4 DEF HandleConnection, Valid, Earned
  <2>3. socket' = [socket EXCEPT ![k] = r] /\ UNCHANGED <<handler, heard>>
    BY <1>4 DEF HandleConnection
  <2> HIDE DEF r
  <2> QED BY <2>1, <2>2, <2>3, <1>3
<1>5. ASSUME NEW k \in Socket, HandleService(k)
      PROVE  DeliveryInv'
  <2>1. NoRooms \in Rooms /\ NoRooms.org = None
    BY DEF NoRooms, Rooms, Nobody, Place, Scope
  <2> QED BY <1>5, <2>1, <1>3 DEF HandleService
<1>6. ASSUME NEW k \in Socket, HandleDisconnect(k)
      PROVE  DeliveryInv'
  BY <1>6, <1>3 DEF HandleDisconnect
<1>7. ASSUME UNCHANGED socket, handler' \in [User -> Handler],
             \A h \in heard' :
               /\ h \in [by : Nobody, org : Place, user : Nobody]
               /\ IF h.org # None THEN <<h.by, h.org>> \in belonged ELSE h.by = h.user
      PROVE  DeliveryInv'
  <2>1. DeliveryTypeOK'
    BY <1>2, <1>7 DEF DeliveryInv, DeliveryTypeOK
  <2>2. RoomsAreEarned' /\ MessagesStayInside'
    BY <1>2, <1>7 DEF DeliveryInv, RoomsAreEarned, MessagesStayInside, Open
  <2> QED BY <1>1, <1>2, <2>1, <2>2 DEF DeliveryInv, Earned
<1>h. handler \in [User -> Handler]
  BY DEF DeliveryInv, DeliveryTypeOK
<1>8. ASSUME NEW u \in User, EmitRegistered(u)
      PROVE  DeliveryInv'
  <2>1. handler' \in [User -> Handler] /\ UNCHANGED <<socket, heard>>
    BY <1>8, <1>h DEF EmitRegistered, Handler
  <2> QED BY <2>1, <1>7 DEF DeliveryInv, DeliveryTypeOK, MessagesStayInside
<1>9. ASSUME NEW u \in User, HandleUserRegistered(u)
      PROVE  DeliveryInv'
  <2>1. handler' \in [User -> Handler] /\ UNCHANGED socket /\ Hear(None, u)
    BY <1>9, <1>h DEF HandleUserRegistered, Handler
  <2> QED BY <2>1, <1>7, HearStep DEF Nobody, Place
<1>10. ASSUME NEW o \in Place, NEW u \in Nobody, Push(o, u)
       PROVE  DeliveryInv'
  BY <1>10, <1>h, <1>7, HearStep DEF Push
<1> QED BY <1>4, <1>5, <1>6, <1>8, <1>9, <1>10 DEF Deliver

\* A step of everything else.
LEMMA RunningStep ==
    ASSUME AccessInv, AccessInv', DeliveryInv, Running,
           belonged' = belonged \cup {<<m.user, m.org>> : m \in member'},
           UNCHANGED <<socket, handler, heard>>
    PROVE  DeliveryInv'
<1>1. member' \subseteq Membership
  BY DEF AccessInv, TypeOK
<1>2. DeliveryTypeOK'
  BY <1>1 DEF DeliveryInv, DeliveryTypeOK, Membership
<1>3. \A m \in member' : <<m.user, m.org>> \in belonged'
  OBVIOUS
<1>4. \A t \in Token : token'[t] # None => Earned(token[t].reading)'
  BY TokensEarn DEF EarnedToken, Earned
<1>5. \A q \in Request : request'[q] # None /\ request'[q].pc # "fill" =>
                             Earned(request[q].reading)'
  BY RequestsEarn DEF EarnedRequest, Earned
<1>6. RoomsAreEarned' /\ MessagesStayInside'
  BY DEF DeliveryInv, RoomsAreEarned, MessagesStayInside, Open
<1> QED BY <1>2, <1>3, <1>4, <1>5, <1>6 DEF DeliveryInv

LEMMA CloseStep ==
    ASSUME AccessInv, DeliveryInv, Restart, CloseAll
    PROVE  DeliveryInv'
<1>1. DeliveryTypeOK'
  BY DEF CloseAll, DeliveryInv, DeliveryTypeOK, Handler
<1>2. RoomsAreEarned' /\ MessagesStayInside'
  BY DEF CloseAll, DeliveryInv, RoomsAreEarned, MessagesStayInside, Open
<1>3. UNCHANGED <<member, token, belonged>> /\ \A q \in Request : request'[q] = None
  BY DEF Restart, CloseAll, tables
<1> QED BY <1>1, <1>2, <1>3 DEF DeliveryInv, Earned

THEOREM DeliveryInvariant == DeliverySpec => [](AccessInv /\ DeliveryInv)
<1>1. DeliveryInit => AccessInv /\ DeliveryInv
  <2> SUFFICES ASSUME DeliveryInit PROVE AccessInv /\ DeliveryInv
    OBVIOUS
  <2>1. AccessInv
    BY InitAccess DEF DeliveryInit
  <2>2. DeliveryInv
    BY DEF DeliveryInit, Init, DeliveryInv, DeliveryTypeOK, Handler, RoomsAreEarned,
           MessagesStayInside, Open
  <2> QED BY <2>1, <2>2
<1>2. AccessInv /\ UNCHANGED vars => AccessInv'
  BY Sound, QuietStep DEF vars, AccessInv, TypeOK
<1>3. AccessInv /\ DeliveryNext => AccessInv'
  BY <1>2, StepAccess DEF DeliveryNext, Next
<1>4. AccessInv /\ DeliveryInv /\ DeliveryNext => DeliveryInv'
  BY <1>3, RunningStep, CloseStep, DeliverStep DEF DeliveryNext
<1>5. DeliveryInv /\ UNCHANGED <<vars, deliveryVars>> => DeliveryInv'
  BY DEF vars, tables, deliveryVars, DeliveryInv, DeliveryTypeOK, Earned, RoomsAreEarned,
         MessagesStayInside, Open
<1>6. AccessInv /\ DeliveryInv /\ [DeliveryNext]_<<vars, deliveryVars>>
          => (AccessInv /\ DeliveryInv)'
  BY <1>2, <1>3, <1>4, <1>5
<1> QED BY <1>1, <1>6, PTL DEF DeliverySpec

\* By the way DeliveryNext is composed: the sockets are not there to the tokens,
\* the cache and the tables, and what is proved of Access holds beside them.
LEMMA DeliveryImplementsAccess == DeliverySpec => Spec
<1>1. DeliveryInit => Init
  BY DEF DeliveryInit
<1>2. [DeliveryNext]_<<vars, deliveryVars>> => [Next]_vars
  BY DEF DeliveryNext, Next
<1> QED BY <1>1, <1>2, PTL DEF DeliverySpec, Spec

(* Whoever is in the room of an organization has been a member of it, for   *)
(* any users, sockets and changes of the memberships: handleConnection      *)
(* (websocket.gateway.ts) trusts claims that were earned.                   *)
THEOREM RoomsTheorem == DeliverySpec => []RoomsAreEarned
<1>1. DeliveryInv => RoomsAreEarned
  BY DEF DeliveryInv
<1> QED BY <1>1, DeliveryInvariant, PTL

(* What is pushed to an organization is heard by its members, past or       *)
(* present, only, and what is pushed to a user by that user only            *)
(* (notifications.service.ts).                                              *)
THEOREM MessagesTheorem == DeliverySpec => []MessagesStayInside
<1>1. DeliveryInv => MessagesStayInside
  BY DEF DeliveryInv
<1> QED BY <1>1, DeliveryInvariant, PTL
=============================================================================
