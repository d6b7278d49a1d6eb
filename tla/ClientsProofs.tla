---------------------------- MODULE ClientsProofs ----------------------------
(***************************************************************************)
(* For any applications, secrets, permissions and concurrent requests: a   *)
(* replaced secret is never stored again, an application that is off stays *)
(* off until it is switched on, and a service token that is accepted tells *)
(* what its application's catalogue recently was.                          *)
(*                                                                         *)
(* ClientsInv has three parts.  The types and the requests; the secrets,   *)
(* where a secret waiting to be stored is drawn, in no row, not retired,   *)
(* and waiting in one request only; and the readings, as in AccessProofs.  *)
(***************************************************************************)
EXTENDS Clients, FiniteSetTheorems, TLAPS

LEMMA InitClients == Init => ClientsInv
<1> SUFFICES ASSUME Init PROVE ClientsInv
  OBVIOUS
<1> USE ClientsAssumption
<1>1. Showing \subseteq [client : Client, permissions : SUBSET Permission, at : Nat]
  BY DEF Init, Showing, Catalogue
<1>2. ClientsTypeOK
  BY <1>1 DEF Init, ClientsTypeOK
<1>3. SecretsAreFresh /\ RequestsAreSound /\ RetiredStaysRetired
  BY DEF Init, SecretsAreFresh, RequestsAreSound, RetiredStaysRetired, Pending, At
<1> QED BY <1>2, <1>3 DEF Init, ClientsInv

\* A slot that is filled holds a request that is about to do its work.
LEMMA StartType ==
    ASSUME ClientsInv, NEW q \in Request,
           NEW pc \in {"create", "regenerate", "activate", "deactivate", "findMany"},
           NEW c \in Client \cup {None}, NEW row \in Row \cup {None},
           NEW s \in Secret \cup {None},
           Start(q, pc, c, row, s)
    PROVE  /\ request' \in [Request -> Slot \cup {None}]
           /\ request[q] = None /\ request'[q] # None
           /\ request'[q].pc = pc /\ request'[q].client = c
           /\ request'[q].row = row /\ request'[q].secret = s
           /\ \A r \in Request \ {q} : request'[r] = request[r]
<1> DEFINE slot == [pc |-> pc, client |-> c, row |-> row, secret |-> s,
                    permissions |-> {}, readAt |-> 0]
<1>1. slot \in Slot
  BY DEF Slot
<1>2. slot # None
  BY <1>1, NoneIsNoClientRecord
<1>3. request' = [request EXCEPT ![q] = slot] /\ request[q] = None
  BY DEF Start
<1> HIDE DEF slot
<1>4. /\ request' \in [Request -> Slot \cup {None}]
      /\ request'[q] = slot
      /\ \A r \in Request \ {q} : request'[r] = request[r]
  BY <1>1, <1>3 DEF ClientsInv, ClientsTypeOK
<1> QED BY <1>2, <1>3, <1>4 DEF slot

\* The readings survive a step that neither reads nor signs.
Readings ==
    /\ Showing \subseteq had
    /\ \A q \in Request : At(q, "sign") =>
           /\ [client |-> request[q].client, at |-> request[q].readAt,
               permissions |-> request[q].permissions] \in had
           /\ now <= request[q].readAt + QueryTime
    /\ \A t \in Token : token[t] # None =>
           /\ [client |-> token[t].client, permissions |-> token[t].permissions,
               at |-> token[t].readAt] \in had
           /\ token[t].exp <= token[t].readAt + QueryTime + AccessTtl

Secrets == /\ retired \subseteq drawn
           /\ SecretsAreFresh
           /\ RetiredStaysRetired

\* What the handlers past their first query know of their client.
Sound ==
    \A q \in Request :
        /\ At(q, "activate") \/ At(q, "deactivate") \/ At(q, "regenerate") =>
               request[q].client \in Client /\ application[request[q].client] # None
        /\ At(q, "findMany") \/ At(q, "sign") =>
               request[q].client \in Client /\ request[q].row \in Row

LEMMA Parts == ClientsInv <=> ClientsTypeOK /\ Readings /\ Secrets /\ Sound
BY DEF ClientsInv, Readings, Secrets, Sound, RequestsAreSound

LEMMA PartsNext ==
    ASSUME ClientsTypeOK', Readings', Secrets', Sound'
    PROVE  ClientsInv'
BY DEF ClientsInv, Readings, Secrets, Sound, RequestsAreSound

LEMMA ReadingsKept ==
    ASSUME Readings, UNCHANGED <<now, permission, token, had>>,
           \A q \in Request : At(q, "sign")' => At(q, "sign") /\ request'[q] = request[q]
    PROVE  Readings'
BY DEF Readings, Showing, Catalogue

\* The steps that begin a request.
LEMMA BeginStep ==
    ASSUME ClientsInv, NEW q \in Request,
           \/ \E s \in Secret : BeginCreate(q, s)
           \/ \E c \in Client, s \in Secret : BeginRegenerateSecret(q, c, s)
           \/ \E c \in Client, isActive \in BOOLEAN : BeginUpdateStatus(q, c, isActive)
           \/ \E c \in Client, s \in Secret : ValidateClientCredentials(q, c, s)
    PROVE  ClientsInv'
<1> USE Parts, PartsNext, ClientsAssumption
<1>1. ASSUME NEW s \in Secret, BeginCreate(q, s)
      PROVE  ClientsInv'
  <2>1. Start(q, "create", None, None, s) /\ s \notin drawn /\ drawn' = drawn \cup {s}
        /\ UNCHANGED <<now, application, permission, token, retired, had>>
    BY <1>1 DEF BeginCreate
  <2>2. /\ request' \in [Request -> Slot \cup {None}]
        /\ request'[q] # None /\ request'[q].pc = "create" /\ request'[q].secret = s
        /\ \A r \in Request \ {q} : request'[r] = request[r]
    BY <2>1, StartType
  <2>3. ClientsTypeOK'
    BY <2>1, <2>2 DEF ClientsTypeOK
  <2>4. Readings'
    BY <2>1, <2>2, ReadingsKept DEF At
  <2>5. Secrets'
    BY <2>1, <2>2 DEF Secrets, SecretsAreFresh, RetiredStaysRetired, Pending, At, Current
  <2>6. Sound'
    BY <2>1, <2>2 DEF Sound, At
  <2> QED BY <2>3, <2>4, <2>5, <2>6
<1>2. ASSUME NEW c \in Client, NEW s \in Secret, BeginRegenerateSecret(q, c, s)
      PROVE  ClientsInv'
  <2>1. /\ application[c] # None /\ application[c] \in Row
        /\ Start(q, "regenerate", c, application[c], s)
        /\ s \notin drawn /\ drawn' = drawn \cup {s}
        /\ UNCHANGED <<now, application, permission, token, retired, had>>
    BY <1>2 DEF BeginRegenerateSecret, ClientsTypeOK
  <2>2. /\ request' \in [Request -> Slot \cup {None}]
        /\ request'[q] # None /\ request'[q].pc = "regenerate"
        /\ request'[q].secret = s /\ request'[q].client = c
        /\ \A r \in Request \ {q} : request'[r] = request[r]
    BY <2>1, StartType
  <2>3. ClientsTypeOK'
    BY <2>1, <2>2 DEF ClientsTypeOK
  <2>4. Readings'
    BY <2>1, <2>2, ReadingsKept DEF At
  <2>5. Secrets'
    BY <2>1, <2>2 DEF Secrets, SecretsAreFresh, RetiredStaysRetired, Pending, At, Current
  <2>6. Sound'
    BY <2>1, <2>2 DEF Sound, At
  <2> QED BY <2>3, <2>4, <2>5, <2>6
<1>3. ASSUME NEW c \in Client, NEW pc \in {"activate", "deactivate", "findMany"},
             application[c] # None, Start(q, pc, c, application[c], None),
             UNCHANGED <<now, application, permission, token, drawn, retired, had>>
      PROVE  ClientsInv'
  <2>1. application[c] \in Row
    BY <1>3 DEF ClientsTypeOK
  <2>2. /\ request' \in [Request -> Slot \cup {None}]
        /\ request'[q] # None /\ request'[q].pc = pc
        /\ request'[q].client = c /\ request'[q].row = application[c]
        /\ \A r \in Request \ {q} : request'[r] = request[r]
    BY <1>3, <2>1, StartType
  <2>3. ClientsTypeOK'
    BY <1>3, <2>2 DEF ClientsTypeOK
  <2>4. Readings'
    BY <1>3, <2>2, ReadingsKept DEF At
  <2>5. Secrets'
    BY <1>3, <2>2 DEF Secrets, SecretsAreFresh, RetiredStaysRetired, Pending, At, Current
  <2>6. Sound'
    BY <1>3, <2>1, <2>2 DEF Sound, At
  <2> QED BY <2>3, <2>4, <2>5, <2>6
<1>4. ASSUME NEW c \in Client, NEW isActive \in BOOLEAN, BeginUpdateStatus(q, c, isActive)
      PROVE  ClientsInv'
  BY <1>3, <1>4 DEF BeginUpdateStatus
<1>5. ASSUME NEW c \in Client, NEW s \in Secret, ValidateClientCredentials(q, c, s)
      PROVE  ClientsInv'
  BY <1>3, <1>5 DEF ValidateClientCredentials, Accepts
<1> QED BY <1>1, <1>2, <1>4, <1>5

\* The steps that end a request with a write to the applications table, or
\* with none.
LEMMA EndStep ==
    ASSUME ClientsInv, NEW q \in Request,
           \/ \E c \in Client : Create(q, c)
           \/ UpdateStatus(q)
           \/ RegenerateSecret(q)
           \/ Abort(q)
    PROVE  ClientsInv'
<1> USE Parts, PartsNext, ClientsAssumption
<1>1. ASSUME End(q)
      PROVE  /\ request' \in [Request -> Slot \cup {None}]
             /\ request'[q] = None
             /\ \A r \in Request \ {q} : request'[r] = request[r]
  BY <1>1 DEF End, ClientsTypeOK
<1>2. ASSUME NEW c \in Client, Create(q, c)
      PROVE  ClientsInv'
  <2> DEFINE s == request[q].secret
             row == [secret |-> s, isActive |-> TRUE]
  <2>1. At(q, "create") /\ application[c] = None /\ End(q)
        /\ application' = [application EXCEPT ![c] = row]
        /\ UNCHANGED <<now, permission, token, drawn, retired, had>>
    BY <1>2 DEF Create
  <2>2. s \in drawn \ retired /\ ~Current(s) /\ s \in Secret
        /\ \A r \in Pending \ {q} : request[r].secret # s
    <3>1. q \in Pending
      BY <2>1 DEF Pending
    <3> QED BY <3>1 DEF Secrets, SecretsAreFresh, ClientsTypeOK
  <2>3. row \in Row /\ row # None /\ row.secret = s
    <3>1. row \in Row
      BY <2>2 DEF Row
    <3> QED BY <3>1, NoneIsNoClientRecord
  <2> HIDE DEF row, s
  <2>4. /\ application' \in [Client -> Row \cup {None}] /\ application'[c] = row
        /\ \A d \in Client \ {c} : application'[d] = application[d]
    BY <2>1, <2>3 DEF ClientsTypeOK
  <2>5. ClientsTypeOK'
    BY <1>1, <2>1, <2>4 DEF ClientsTypeOK
  <2>6. Readings'
    BY <1>1, <2>1, ReadingsKept DEF At
  <2>7. Secrets'
    BY <1>1, <2>1, <2>2, <2>3, <2>4
       DEF Secrets, SecretsAreFresh, RetiredStaysRetired, Pending, At, Current
  <2>8. Sound'
    BY <1>1, <2>1, <2>3, <2>4 DEF Sound, At
  <2> QED BY <2>5, <2>6, <2>7, <2>8
<1>3. ASSUME UpdateStatus(q)
      PROVE  ClientsInv'
  <2> DEFINE c == request[q].client
             row == [application[c] EXCEPT !.isActive = At(q, "activate")]
  <2>1. (At(q, "activate") \/ At(q, "deactivate")) /\ End(q)
        /\ application' = [application EXCEPT ![c] = row]
        /\ UNCHANGED <<now, permission, token, drawn, retired, had>>
    BY <1>3 DEF UpdateStatus
  <2>2. c \in Client /\ application[c] \in Row
    BY <2>1 DEF Sound, ClientsTypeOK
  <2>3. At(q, "activate") \in BOOLEAN
    BY DEF At
  <2>4. row \in Row /\ row # None /\ row.secret = application[c].secret
    BY <2>2, <2>3, NoneIsNoClientRecord DEF Row
  <2> HIDE DEF row, c
  <2>5. /\ application' \in [Client -> Row \cup {None}] /\ application'[c] = row
        /\ \A d \in Client \ {c} : application'[d] = application[d]
    BY <2>1, <2>2, <2>4 DEF ClientsTypeOK
  <2>6. ClientsTypeOK'
    BY <1>1, <2>1, <2>5 DEF ClientsTypeOK
  <2>7. Readings'
    BY <1>1, <2>1, ReadingsKept DEF At
  <2>8. application[c] # None
    BY <2>2, NoneIsNoClientRecord
  <2>9. Secrets'
    BY <1>1, <2>1, <2>2, <2>4, <2>5, <2>8
       DEF Secrets, SecretsAreFresh, RetiredStaysRetired, Pending, At, Current
  <2>10. Sound'
    BY <1>1, <2>1, <2>4, <2>5 DEF Sound, At
  <2> QED BY <2>6, <2>7, <2>9, <2>10
<1>4. ASSUME RegenerateSecret(q)
      PROVE  ClientsInv'
  <2> DEFINE c == request[q].client
             s == request[q].secret
             row == [application[c] EXCEPT !.secret = s]
  <2>1. At(q, "regenerate") /\ End(q)
        /\ application' = [application EXCEPT ![c] = row]
        /\ retired' = retired \cup {application[c].secret}
        /\ UNCHANGED <<now, permission, token, drawn, had>>
    BY <1>4 DEF RegenerateSecret
  <2>2. c \in Client /\ application[c] \in Row /\ application[c] # None
    BY <2>1, NoneIsNoClientRecord DEF Sound, ClientsTypeOK
  <2>3. s \in drawn \ retired /\ ~Current(s) /\ s \in Secret
        /\ \A r \in Pending \ {q} : request[r].secret # s
    BY <2>1 DEF Secrets, SecretsAreFresh, Pending, ClientsTypeOK
  <2>4. row \in Row /\ row # None /\ row.secret = s
    BY <2>2, <2>3, NoneIsNoClientRecord DEF Row
  <2>5. application[c].secret \in drawn /\ application[c].secret \in Secret
        /\ application[c].secret # s
    BY <2>2, <2>3 DEF Secrets, SecretsAreFresh, Row, Current
  <2> HIDE DEF row, c, s
  <2>6. /\ application' \in [Client -> Row \cup {None}] /\ application'[c] = row
        /\ \A d \in Client \ {c} : application'[d] = application[d]
    BY <2>1, <2>2, <2>4 DEF ClientsTypeOK
  <2>7. ClientsTypeOK'
    BY <1>1, <2>1, <2>5, <2>6 DEF ClientsTypeOK
  <2>8. Readings'
    BY <1>1, <2>1, ReadingsKept DEF At
  <2>9. SecretsAreFresh'
    <3>1. \A r \in Pending' : r \in Pending \ {q} /\ request'[r] = request[r]
      BY <1>1, <2>1 DEF Pending, At
    <3>2. \A r \in Pending' : request'[r].secret # application[c].secret
      BY <2>2, <3>1 DEF Secrets, SecretsAreFresh, Current
    <3> QED BY <2>1, <2>2, <2>3, <2>4, <2>6, <3>1, <3>2
            DEF Secrets, SecretsAreFresh, Current
  <2>10. RetiredStaysRetired'
    BY <2>1, <2>2, <2>3, <2>4, <2>5, <2>6
       DEF Secrets, SecretsAreFresh, RetiredStaysRetired, Current
  <2>11. Secrets'
    BY <2>1, <2>5, <2>9, <2>10 DEF Secrets
  <2>12. Sound'
    BY <1>1, <2>1, <2>4, <2>6 DEF Sound, At
  <2> QED BY <2>7, <2>8, <2>11, <2>12
<1>5. ASSUME Abort(q)
      PROVE  ClientsInv'
  <2>1. End(q) /\ UNCHANGED <<now, application, permission, token, drawn, retired, had>>
    BY <1>5 DEF Abort
  <2>2. ClientsTypeOK'
    BY <1>1, <2>1 DEF ClientsTypeOK
  <2>3. Readings'
    BY <1>1, <2>1, ReadingsKept DEF At
  <2>4. Secrets'
    BY <1>1, <2>1 DEF Secrets, SecretsAreFresh, RetiredStaysRetired, Pending, At, Current
  <2>5. Sound'
    BY <1>1, <2>1 DEF Sound, At
  <2> QED BY <2>2, <2>3, <2>4, <2>5
<1> QED BY <1>2, <1>3, <1>4, <1>5

\* The two queries of the grant that follow the first one.
LEMMA GrantStep ==
    ASSUME ClientsInv, NEW q \in Request,
           FindPermissions(q) \/ \E t \in Token : Sign(q, t)
    PROVE  ClientsInv'
<1> USE Parts, PartsNext, ClientsAssumption
<1>1. ASSUME FindPermissions(q)
      PROVE  ClientsInv'
  <2> DEFINE c == request[q].client
             new == [request[q] EXCEPT !.pc = "sign", !.permissions = Catalogue(c),
                                       !.readAt = now]
  <2>1. At(q, "findMany") /\ request' = [request EXCEPT ![q] = new]
        /\ UNCHANGED <<now, application, permission, token, drawn, retired, had>>
    BY <1>1 DEF FindPermissions
  <2>2. request[q] \in Slot /\ c \in Client /\ request[q].row \in Row /\ now \in Nat
    BY <2>1 DEF Sound, ClientsTypeOK, At
  <2>3. Catalogue(c) \in SUBSET Permission
    BY DEF Catalogue
  <2>4. /\ new \in Slot /\ new.pc = "sign" /\ new.client = c
        /\ new.row = request[q].row /\ new.permissions = Catalogue(c)
        /\ new.readAt = now
    BY <2>2, <2>3 DEF Slot
  <2>5. [client |-> c, permissions |-> Catalogue(c), at |-> now] \in had
    BY <2>2 DEF Readings, Showing
  <2> HIDE DEF new
  <2>6. /\ request' \in [Request -> Slot \cup {None}] /\ request'[q] = new
        /\ new # None
        /\ \A r \in Request \ {q} : request'[r] = request[r]
    BY <2>1, <2>4, NoneIsNoClientRecord DEF ClientsTypeOK
  <2>7. ClientsTypeOK'
    BY <2>1, <2>6 DEF ClientsTypeOK
  <2>8. Readings'
    <3>1. \A r \in Request : At(r, "sign")' =>
             /\ [client |-> request'[r].client, at |-> request'[r].readAt,
                 permissions |-> request'[r].permissions] \in had
             /\ now <= request'[r].readAt + QueryTime
      <4> SUFFICES ASSUME NEW r \in Request, At(r, "sign")'
                   PROVE  /\ [client |-> request'[r].client, at |-> request'[r].readAt,
                              permissions |-> request'[r].permissions] \in had
                          /\ now <= request'[r].readAt + QueryTime
        OBVIOUS
      <4>1. CASE r = q
        BY <4>1, <2>2, <2>4, <2>5, <2>6
      <4>2. CASE r # q
        BY <4>2, <2>6 DEF Readings, At
      <4> QED BY <4>1, <4>2
    <3> QED BY <3>1, <2>1 DEF Readings, Showing, Catalogue
  <2>9. Secrets'
    BY <2>1, <2>4, <2>6 DEF Secrets, SecretsAreFresh, RetiredStaysRetired, Pending, At, Current
  <2>10. Sound'
    BY <2>1, <2>2, <2>4, <2>6 DEF Sound, At
  <2> QED BY <2>7, <2>8, <2>9, <2>10
<1>2. ASSUME NEW t \in Token, Sign(q, t)
      PROVE  ClientsInv'
  <2> DEFINE new == [client |-> request[q].client, opened |-> request[q].row.secret,
                     readAt |-> request[q].readAt,
                     permissions |-> request[q].permissions, exp |-> now + AccessTtl]
  <2>1. At(q, "sign") /\ End(q) /\ token' = [token EXCEPT ![t] = new]
        /\ UNCHANGED <<now, application, permission, drawn, retired, had>>
    BY <1>2 DEF Sign
  <2>2. /\ request' \in [Request -> Slot \cup {None}]
        /\ request'[q] = None
        /\ \A r \in Request \ {q} : request'[r] = request[r]
    BY <2>1 DEF End, ClientsTypeOK
  <2>3. request[q] \in Slot /\ request[q].client \in Client /\ now \in Nat
        /\ request[q].row.secret \in Secret
    BY <2>1 DEF Sound, ClientsTypeOK, At, Row
  <2>4. new \in ServiceToken
    BY <2>3 DEF ServiceToken, Slot
  <2>5. /\ [client |-> new.client, permissions |-> new.permissions,
            at |-> new.readAt] \in had
        /\ now <= request[q].readAt + QueryTime
    BY <2>1 DEF Readings
  <2>6. new.exp <= new.readAt + QueryTime + AccessTtl
    BY <2>3, <2>5 DEF Slot
  <2> HIDE DEF new
  <2>7. /\ token' \in [Token -> ServiceToken \cup {None}] /\ token'[t] = new
        /\ \A s \in Token \ {t} : token'[s] = token[s]
    BY <2>1, <2>4 DEF ClientsTypeOK
  <2>8. ClientsTypeOK'
    BY <2>1, <2>2, <2>7 DEF ClientsTypeOK
  <2>9. Readings'
    BY <2>1, <2>2, <2>5, <2>6, <2>7 DEF Readings, Showing, Catalogue, At
  <2>10. Secrets'
    BY <2>1, <2>2 DEF Secrets, SecretsAreFresh, RetiredStaysRetired, Pending, At, Current
  <2>11. Sound'
    BY <2>1, <2>2 DEF Sound, At
  <2> QED BY <2>8, <2>9, <2>10, <2>11
<1> QED BY <1>1, <1>2

\* The catalogue changes, or time passes.
LEMMA CatalogueStep ==
    ASSUME ClientsInv,
           \/ \E p \in Permission, a \in Client \cup {None} : CreatePermission(p, a)
           \/ \E p \in Permission : DeletePermission(p)
           \/ Tick
    PROVE  ClientsInv'
<1> USE Parts, PartsNext, ClientsAssumption
<1>1. ASSUME UNCHANGED <<application, token, request, drawn, retired>>, Remember,
             permission' \in [Permission -> Client \cup {None, Absent}],
             now' \in Nat,
             \A q \in Request : At(q, "sign") => now' <= request[q].readAt + QueryTime
      PROVE  ClientsInv'
  <2>1. Showing' \subseteq [client : Client, permissions : SUBSET Permission, at : Nat]
    BY <1>1 DEF Showing, Catalogue
  <2>2. had \subseteq had' /\ Showing' \subseteq had'
    BY <1>1 DEF Remember
  <2>3. ClientsTypeOK'
    BY <1>1, <2>1 DEF ClientsTypeOK, Remember
  <2>4. Readings'
    BY <1>1, <2>2 DEF Readings, At
  <2>5. Secrets'
    BY <1>1 DEF Secrets, SecretsAreFresh, RetiredStaysRetired, Pending, At, Current
  <2>6. Sound'
    BY <1>1 DEF Sound, At
  <2> QED BY <2>3, <2>4, <2>5, <2>6
<1>2. \A q \in Request : At(q, "sign") => /\ now <= request[q].readAt + QueryTime
                                         /\ request[q].readAt \in Nat
  <2>1. \A q \in Request : At(q, "sign") => request[q] \in Slot
    BY DEF ClientsTypeOK, At
  <2> QED BY <2>1 DEF Readings, Slot
<1>3. now \in Nat /\ permission \in [Permission -> Client \cup {None, Absent}]
  BY DEF ClientsTypeOK
<1>4. CASE \E p \in Permission, a \in Client \cup {None} : CreatePermission(p, a)
  BY <1>1, <1>2, <1>3, <1>4 DEF CreatePermission
<1>5. CASE \E p \in Permission : DeletePermission(p)
  BY <1>1, <1>2, <1>3, <1>5 DEF DeletePermission
<1>6. CASE Tick
  <2>1. \A q \in Request : At(q, "sign") => now + 1 <= request[q].readAt + QueryTime
    BY <1>2, <1>3, <1>6 DEF Tick
  <2>2. now' = now + 1 /\ Remember
        /\ UNCHANGED <<application, permission, token, request, drawn, retired>>
    BY <1>6 DEF Tick
  <2> QED BY <1>1, <1>3, <2>1, <2>2
<1> QED BY <1>4, <1>5, <1>6
-----------------------------------------------------------------------------
(* ClientsInv is inductive: whatever requests overlap, a reading of the     *)
(* catalogue under way is one it gave, no two applications and no            *)
(* regeneration under way share a secret, and the retired ones stay out.    *)
THEOREM ClientsInvariant == Spec => []ClientsInv
<1>1. ClientsInv /\ [Next]_vars => ClientsInv'
  <2> SUFFICES ASSUME ClientsInv, [Next]_vars PROVE ClientsInv'
    OBVIOUS
  <2>1. ASSUME NEW q \in Request, RequestStep(q)
        PROVE  ClientsInv'
    BY <2>1, BeginStep, EndStep, GrantStep DEF RequestStep
  <2>2. CASE UNCHANGED vars
    BY <2>2 DEF vars, ClientsInv, ClientsTypeOK, Showing, Catalogue, SecretsAreFresh,
                RequestsAreSound, RetiredStaysRetired, Pending, At, Current
  <2> QED BY <2>1, <2>2, CatalogueStep DEF Next
<1> QED BY <1>1, InitClients, PTL DEF Spec

(* A secret that a regeneration replaced opens no client again, however     *)
(* regenerations and changes of status overlap.                             *)
THEOREM RetiredTheorem == Spec => []RetiredStaysRetired
<1>1. ClientsInv => RetiredStaysRetired
  BY DEF ClientsInv
<1> QED BY <1>1, ClientsInvariant, PTL

(* What a service token carries is what the catalogue of its application    *)
(* said within the lifetime of the token and the time of one query.         *)
THEOREM ServiceTokenTheorem == Spec => []ServiceTokenIsHonest
<1>1. ClientsInv => ServiceTokenIsHonest
  <2> SUFFICES ASSUME ClientsInv, NEW t \in Token, Valid(t)
               PROVE  \E h \in had : /\ h.client = token[t].client
                                     /\ h.permissions = token[t].permissions
                                     /\ now < h.at + AccessTtl + QueryTime
    BY DEF ServiceTokenIsHonest
  <2> DEFINE h == [client |-> token[t].client, permissions |-> token[t].permissions,
                   at |-> token[t].readAt]
  <2>1. h \in had /\ token[t].exp <= token[t].readAt + QueryTime + AccessTtl
    BY DEF Valid, ClientsInv
  <2>2. now \in Nat /\ token[t] \in ServiceToken
    BY DEF Valid, ClientsInv, ClientsTypeOK
  <2>3. now < token[t].readAt + AccessTtl + QueryTime
    BY <2>1, <2>2, ClientsAssumption DEF Valid, ServiceToken
  <2> QED BY <2>1, <2>3
<1> QED BY <1>1, ClientsInvariant, PTL

(* Only a request to activate it makes an application active again; neither *)
(* a new secret nor anything else does.                                     *)
THEOREM DeactivationTheorem == Spec => DeactivationHolds
<1>1. ClientsInv /\ [Next]_vars =>
        [\A c \in Client :
           application[c] # None /\ ~application[c].isActive /\ application'[c].isActive
             => \E q \in Request : At(q, "activate") /\ request[q].client = c]_vars
  <2> SUFFICES ASSUME ClientsInv, [Next]_vars, NEW c \in Client,
                      application[c] # None, ~application[c].isActive,
                      application'[c].isActive
               PROVE  \E q \in Request : At(q, "activate") /\ request[q].client = c
    OBVIOUS
  <2>1. application \in [Client -> Row \cup {None}] /\ application[c] \in Row
    BY DEF ClientsInv, ClientsTypeOK
  <2>2. application' # application
    OBVIOUS
  <2>3. PICK q \in Request : UpdateStatus(q) \/ RegenerateSecret(q)
                             \/ \E d \in Client : Create(q, d)
    BY <2>2 DEF Next, vars, RequestStep, BeginCreate, BeginUpdateStatus,
       BeginRegenerateSecret, ValidateClientCredentials, FindPermissions, Sign,
       Abort, CreatePermission, DeletePermission, Tick
  <2>4. CASE UpdateStatus(q)
    BY <2>1, <2>4 DEF UpdateStatus, Row
  <2>5. CASE RegenerateSecret(q)
    BY <2>1, <2>5 DEF RegenerateSecret, Row
  <2>6. CASE \E d \in Client : Create(q, d)
    BY <2>1, <2>6 DEF Create
  <2> QED BY <2>3, <2>4, <2>5, <2>6
<1>2. Spec => []ClientsInv
  BY ClientsInvariant, PTL
<1> QED BY <1>1, <1>2, PTL DEF Spec, DeactivationHolds
-----------------------------------------------------------------------------
(* What was granted on a secret, and what will be: signing moves a request  *)
(* from the second set to add a token to the first.                         *)
Granted(s) == {t \in Token : token[t] # None /\ token[t].opened = s}

Due(s) == {q \in Request : /\ At(q, "findMany") \/ At(q, "sign")
                           /\ request[q].row.secret = s}

LEMMA CreditIsTraded ==
    ASSUME NEW A, NEW B, NEW A1, NEW B1, IsFiniteSet(A), IsFiniteSet(B),
           \/ A1 \subseteq A /\ B1 \subseteq B
           \/ \E t, r : /\ A1 \subseteq A \cup {t}
                        /\ r \in B /\ B1 \subseteq B \ {r}
    PROVE  Cardinality(A1) + Cardinality(B1) <= Cardinality(A) + Cardinality(B)
<1>1. Cardinality(A) \in Nat /\ Cardinality(B) \in Nat
  BY FS_CardinalityType
<1>2. CASE A1 \subseteq A /\ B1 \subseteq B
  <2>1. IsFiniteSet(A1) /\ Cardinality(A1) <= Cardinality(A)
    BY <1>2, FS_Subset
  <2>2. IsFiniteSet(B1) /\ Cardinality(B1) <= Cardinality(B)
    BY <1>2, FS_Subset
  <2>3. Cardinality(A1) \in Nat /\ Cardinality(B1) \in Nat
    BY <2>1, <2>2, FS_CardinalityType
  <2> QED BY <1>1, <2>1, <2>2, <2>3
<1>3. CASE \E t, r : /\ A1 \subseteq A \cup {t}
                     /\ r \in B /\ B1 \subseteq B \ {r}
  <2>1. PICK t, r : /\ A1 \subseteq A \cup {t}
                    /\ r \in B /\ B1 \subseteq B \ {r}
    BY <1>3
  <2>2. /\ IsFiniteSet(A \cup {t})
        /\ Cardinality(A \cup {t}) \in {Cardinality(A), Cardinality(A) + 1}
    BY FS_AddElement
  <2>3. IsFiniteSet(B \ {r}) /\ Cardinality(B \ {r}) = Cardinality(B) - 1
    BY <2>1, FS_RemoveElement
  <2>4. IsFiniteSet(A1) /\ Cardinality(A1) <= Cardinality(A \cup {t})
    BY <2>1, <2>2, FS_Subset
  <2>5. IsFiniteSet(B1) /\ Cardinality(B1) <= Cardinality(B \ {r})
    BY <2>1, <2>3, FS_Subset
  <2>6. Cardinality(A1) \in Nat /\ Cardinality(B1) \in Nat
    BY <2>4, <2>5, FS_CardinalityType
  <2> QED BY <1>1, <2>2, <2>3, <2>4, <2>5, <2>6
<1> QED BY <1>2, <1>3

\* No step makes a request due that was not.
LEMMA DueKept ==
    ASSUME ClientsTypeOK, NEW s \in Secret, NEW q \in Request,
           \A r \in Request \ {q} : request'[r] = request[r],
           (At(q, "findMany") \/ At(q, "sign"))' /\ request'[q].row.secret = s
               => q \in Due(s)
    PROVE  Due(s)' \subseteq Due(s)
BY DEF Due, At

LEMMA ClosedStep ==
    ASSUME ClientsInv, [Next]_vars, NEW s \in Secret, ~Open(s)
    PROVE  \/ Granted(s)' \subseteq Granted(s) /\ Due(s)' \subseteq Due(s)
           \/ \E t, r : /\ Granted(s)' \subseteq Granted(s) \cup {t}
                        /\ r \in Due(s) /\ Due(s)' \subseteq Due(s) \ {r}
<1>0. ClientsTypeOK
  BY DEF ClientsInv
<1>end. ASSUME NEW q \in Request, End(q)
        PROVE  Due(s)' \subseteq Due(s) \ {q}
  BY <1>0, <1>end DEF End, Due, At, ClientsTypeOK
<1>1. ASSUME NEW q \in Request,
             \/ \E x \in Secret : BeginCreate(q, x)
             \/ \E c \in Client, x \in Secret : BeginRegenerateSecret(q, c, x)
             \/ \E c \in Client, isActive \in BOOLEAN :
                  BeginUpdateStatus(q, c, isActive)
      PROVE  Granted(s)' \subseteq Granted(s) /\ Due(s)' \subseteq Due(s)
  <2>1. PICK pc \in {"create", "regenerate", "activate", "deactivate"},
             c \in Client \cup {None}, row \in Row \cup {None},
             x \in Secret \cup {None} : Start(q, pc, c, row, x)
    BY <1>0, <1>1 DEF BeginCreate, BeginRegenerateSecret, BeginUpdateStatus,
                      ClientsTypeOK
  <2>2. /\ \A r \in Request \ {q} : request'[r] = request[r]
        /\ request'[q].pc = pc
    BY <2>1, StartType
  <2>3. Due(s)' \subseteq Due(s)
    BY <1>0, <2>2, DueKept DEF At
  <2>4. token' = token
    BY <1>1 DEF BeginCreate, BeginRegenerateSecret, BeginUpdateStatus
  <2> QED BY <2>3, <2>4 DEF Granted
<1>2. ASSUME NEW q \in Request, NEW c \in Client, NEW x \in Secret,
             ValidateClientCredentials(q, c, x)
      PROVE  Granted(s)' \subseteq Granted(s) /\ Due(s)' \subseteq Due(s)
  <2>1. application[c] \in Row \cup {None} /\ application[c].secret # s
    BY <1>0, <1>2 DEF ValidateClientCredentials, Accepts, Open, ClientsTypeOK
  <2>2. Start(q, "findMany", c, application[c], None)
    BY <1>2 DEF ValidateClientCredentials
  <2>3. /\ \A r \in Request \ {q} : request'[r] = request[r]
        /\ request'[q].row = application[c]
    BY <2>1, <2>2, StartType
  <2>4. Due(s)' \subseteq Due(s)
    BY <1>0, <2>1, <2>3, DueKept
  <2> QED BY <1>2, <2>4 DEF ValidateClientCredentials, Granted
<1>3. ASSUME NEW q \in Request,
             \/ \E c \in Client : Create(q, c)
             \/ UpdateStatus(q)
             \/ RegenerateSecret(q)
             \/ Abort(q)
      PROVE  Granted(s)' \subseteq Granted(s) /\ Due(s)' \subseteq Due(s)
  <2>1. End(q) /\ token' = token
    BY <1>3 DEF Create, UpdateStatus, RegenerateSecret, Abort
  <2> QED BY <2>1, <1>end DEF Granted
<1>4. ASSUME NEW q \in Request, FindPermissions(q)
      PROVE  Granted(s)' \subseteq Granted(s) /\ Due(s)' \subseteq Due(s)
  <2>1. At(q, "findMany") /\ request[q] \in Slot /\ token' = token
    BY <1>0, <1>4 DEF FindPermissions, At, ClientsTypeOK
  <2>2. \A r \in Request \ {q} : request'[r] = request[r]
    BY <1>0, <1>4 DEF FindPermissions, ClientsTypeOK
  <2>3. request'[q].row = request[q].row
    BY <1>0, <1>4, <2>1 DEF FindPermissions, ClientsTypeOK, Slot
  <2>4. Due(s)' \subseteq Due(s)
    BY <1>0, <2>1, <2>2, <2>3, DueKept DEF Due
  <2> QED BY <2>1, <2>4 DEF Granted
<1>5. ASSUME NEW q \in Request, NEW t \in Token, Sign(q, t)
      PROVE  \/ Granted(s)' \subseteq Granted(s) /\ Due(s)' \subseteq Due(s)
             \/ \E u, r : /\ Granted(s)' \subseteq Granted(s) \cup {u}
                          /\ r \in Due(s) /\ Due(s)' \subseteq Due(s) \ {r}
  <2>1. Due(s)' \subseteq Due(s) \ {q}
    BY <1>5, <1>end DEF Sign
  <2>2. \A u \in Token \ {t} : token'[u] = token[u]
    BY <1>0, <1>5 DEF Sign, ClientsTypeOK
  <2>3. CASE request[q].row.secret = s
    <3>1. q \in Due(s)
      BY <1>5, <2>3 DEF Sign, Due
    <3>2. Granted(s)' \subseteq Granted(s) \cup {t}
      BY <2>2 DEF Granted
    <3> QED BY <2>1, <3>1, <3>2
  <2>4. CASE request[q].row.secret # s
    <3>1. token'[t].opened = request[q].row.secret
      BY <1>0, <1>5 DEF Sign, ClientsTypeOK
    <3>2. Granted(s)' \subseteq Granted(s)
      BY <2>2, <2>4, <3>1 DEF Granted
    <3> QED BY <2>1, <3>2
  <2> QED BY <2>3, <2>4
<1>6. ASSUME \/ \E p \in Permission, a \in Client \cup {None} :
                  CreatePermission(p, a)
             \/ \E p \in Permission : DeletePermission(p)
             \/ Tick
             \/ UNCHANGED vars
      PROVE  Granted(s)' \subseteq Granted(s) /\ Due(s)' \subseteq Due(s)
  <2>1. UNCHANGED <<token, request>>
    BY <1>6 DEF CreatePermission, DeletePermission, Tick, vars
  <2> QED BY <2>1 DEF Granted, Due, At
<1> QED BY <1>1, <1>2, <1>3, <1>4, <1>5, <1>6 DEF Next, RequestStep

(* A secret that was replaced, or whose application is off, yields no more  *)
(* tokens than the requests that read it in time will sign: for any finite  *)
(* numbers of tokens and of requests.                                       *)
THEOREM ClosedTheorem ==
    ASSUME IsFiniteSet(Token), IsFiniteSet(Request)
    PROVE  Spec => ClosedClientsGetNothing
<1>1. ASSUME ClientsInv, [Next]_vars, NEW s \in Secret, ~Open(s)
      PROVE  Credit(s)' <= Credit(s)
  <2>1. IsFiniteSet(Granted(s)) /\ IsFiniteSet(Due(s))
    BY FS_Subset DEF Granted, Due
  <2>2. \/ Granted(s)' \subseteq Granted(s) /\ Due(s)' \subseteq Due(s)
        \/ \E t, r : /\ Granted(s)' \subseteq Granted(s) \cup {t}
                     /\ r \in Due(s) /\ Due(s)' \subseteq Due(s) \ {r}
    BY <1>1, ClosedStep
  <2>3. Cardinality(Granted(s)') + Cardinality(Due(s)')
          <= Cardinality(Granted(s)) + Cardinality(Due(s))
    BY <2>1, <2>2, CreditIsTraded
  <2> QED BY <2>3 DEF Credit, Granted, Due
<1>2. ClientsInv /\ [Next]_vars
        => [\A s \in Secret : ~Open(s) => Credit(s)' <= Credit(s)]_vars
  BY <1>1
<1> QED BY <1>2, ClientsInvariant, PTL DEF Spec, ClosedClientsGetNothing
=============================================================================
