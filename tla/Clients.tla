------------------------------- MODULE Clients -------------------------------
(***************************************************************************)
(* Applications as clients of the service: the applications and the        *)
(* permissions tables of src/prisma/schema.prisma, the handlers of the     *)
(* applications and permissions services that write them, and the grant    *)
(* clientCredentials, which turns a client id and a secret into a service  *)
(* token.                                                                  *)
(*                                                                         *)
(* A handler that reads before it writes, or hashes before it writes, is a *)
(* request; others run in between.  Names and descriptions are left out:   *)
(* the lookup by name that precedes a creation only chooses the error, the *)
(* unique keys of the tables decide.  bcrypt tells secrets apart exactly.  *)
(***************************************************************************)
EXTENDS Integers, FiniteSets

CONSTANTS Client,      \* applications, by id; clientId is as good a key
          Secret,      \* plain secrets, each drawn at most once
          Permission,  \* permissions, by name (@unique)
          Token,       \* service tokens, each drawn at most once
          Request,     \* slots for the requests in flight
          None, Absent,
          AccessTtl,   \* JWT_ACCESS_EXPIRATION, in ticks
          QueryTime,   \* longest time from the findMany to the sign, in ticks
          MaxTime      \* bound on the clock

ASSUME ClientsAssumption ==
    /\ None \notin Client \cup Secret /\ Absent \notin Client \cup {None}
    /\ AccessTtl \in Nat \ {0} /\ QueryTime \in Nat /\ MaxTime \in Nat

VARIABLES now,          \* Date.now()
          application,  \* the applications table
          permission,   \* the application of each permission; None: global
          token,        \* the service tokens signed
          request,      \* the requests in flight
          drawn,        \* history: the secrets drawn so far
          retired,      \* history: the secrets that were replaced
          had           \* history: the catalogue of each client, over time

vars == <<now, application, permission, token, request, drawn, retired, had>>

Row == [secret : Secret, isActive : BOOLEAN]

\* opened (history): the secret the client has presented; readAt (history):
\* when its permissions were read.
ServiceToken == [client : Client, opened : Secret, readAt : Nat,
                 permissions : SUBSET Permission, exp : Nat]

\* row: what the first query returned; secret: drawn, not stored yet.
Slot == [pc : {"create", "regenerate", "activate", "deactivate",
               "findMany", "sign"},
         client : Client \cup {None}, row : Row \cup {None},
         secret : Secret \cup {None}, permissions : SUBSET Permission,
         readAt : Nat]

ASSUME NoneIsNoClientRecord == None \notin Row \cup ServiceToken \cup Slot

ClientsTypeOK ==
    /\ now \in Nat
    /\ application \in [Client -> Row \cup {None}]
    /\ permission \in [Permission -> Client \cup {None, Absent}]
    /\ token \in [Token -> ServiceToken \cup {None}]
    /\ request \in [Request -> Slot \cup {None}]
    /\ drawn \in SUBSET Secret /\ retired \in SUBSET Secret
    /\ had \in SUBSET [client : Client, permissions : SUBSET Permission, at : Nat]
-----------------------------------------------------------------------------
\* findMany({ where: { applicationId } }): those of the application alone.
Catalogue(c) == {p \in Permission : permission[p] = c}

Showing == {[client |-> c, permissions |-> Catalogue(c), at |-> now] : c \in Client}

Remember == had' = had \cup Showing'

Current(s) == \E c \in Client : application[c] # None /\ application[c].secret = s

\* FAULT: a client that was switched off is let in.
Accepts_Inactive(c, s) == application[c] # None /\ application[c].secret = s

\* What validateClientCredentials asks of the row it has read.
Accepts(c, s) == /\ application[c] # None
                 /\ application[c].isActive
                 /\ application[c].secret = s
-----------------------------------------------------------------------------
Init == /\ now = 0
        /\ application = [c \in Client |-> None]
        /\ permission = [p \in Permission |-> Absent]
        /\ token = [t \in Token |-> None]
        /\ request = [q \in Request |-> None]
        /\ drawn = {} /\ retired = {}
        /\ had = Showing

Start(q, pc, c, row, s) ==
    /\ request[q] = None
    /\ request' = [request EXCEPT
         ![q] = [pc |-> pc, client |-> c, row |-> row, secret |-> s,
                 permissions |-> {}, readAt |-> 0]]

At(q, pc) == request[q] # None /\ request[q].pc = pc

End(q) == request' = [request EXCEPT ![q] = None]

\* create, up to the insert: a secret is drawn and hashed.
BeginCreate(q, s) ==
    /\ s \notin drawn /\ drawn' = drawn \cup {s}
    /\ Start(q, "create", None, None, s)
    /\ UNCHANGED <<now, application, permission, token, retired, had>>

Create(q, c) ==
    /\ At(q, "create")
    /\ application[c] = None
    /\ application' = [application EXCEPT
                         ![c] = [secret |-> request[q].secret, isActive |-> TRUE]]
    /\ End(q)
    /\ UNCHANGED <<now, permission, token, drawn, retired, had>>

\* updateStatus and regenerateSecret: findById; what it returns is not used.
BeginUpdateStatus(q, c, isActive) ==
    /\ application[c] # None
    /\ Start(q, IF isActive THEN "activate" ELSE "deactivate", c,
             application[c], None)
    /\ UNCHANGED <<now, application, permission, token, drawn, retired, had>>

\* FAULT: the row is written back as it was read.
UpdateStatus_WholeRow(q) ==
    /\ At(q, "activate") \/ At(q, "deactivate")
    /\ application' = [application EXCEPT
         ![request[q].client] = [request[q].row EXCEPT !.isActive = At(q, "activate")]]
    /\ retired' = retired \cup ({application[request[q].client].secret}
                            \ {request[q].row.secret})
    /\ End(q)
    /\ UNCHANGED <<now, permission, token, drawn, had>>

\* update({ where: { id }, data: { isActive } }): the one column.
UpdateStatus(q) ==
    /\ At(q, "activate") \/ At(q, "deactivate")
    /\ application' = [application EXCEPT
         ![request[q].client].isActive = At(q, "activate")]
    /\ End(q)
    /\ UNCHANGED <<now, permission, token, drawn, retired, had>>

BeginRegenerateSecret(q, c, s) ==
    /\ application[c] # None
    /\ s \notin drawn /\ drawn' = drawn \cup {s}
    /\ Start(q, "regenerate", c, application[c], s)
    /\ UNCHANGED <<now, application, permission, token, retired, had>>

\* FAULT: the row is written back as it was read, with the new secret.
RegenerateSecret_WholeRow(q) ==
    LET c == request[q].client IN
    /\ At(q, "regenerate")
    /\ application' = [application EXCEPT
         ![c] = [request[q].row EXCEPT !.secret = request[q].secret]]
    /\ retired' = retired \cup {application[c].secret}
    /\ End(q)
    /\ UNCHANGED <<now, permission, token, drawn, had>>

\* update({ where: { id }, data: { clientSecret } }).
RegenerateSecret(q) ==
    LET c == request[q].client IN
    /\ At(q, "regenerate")
    /\ application' = [application EXCEPT ![c].secret = request[q].secret]
    /\ retired' = retired \cup {application[c].secret}
    /\ End(q)
    /\ UNCHANGED <<now, permission, token, drawn, had>>

\* permissions.service create and delete.  A name is free again once deleted.
CreatePermission(p, a) ==
    /\ permission[p] = Absent
    /\ a # None => application[a] # None
    /\ permission' = [permission EXCEPT ![p] = a]
    /\ UNCHANGED <<now, application, token, request, drawn, retired>>
    /\ Remember

DeletePermission(p) ==
    /\ permission[p] # Absent
    /\ permission' = [permission EXCEPT ![p] = Absent]
    /\ UNCHANGED <<now, application, token, request, drawn, retired>>
    /\ Remember

\* validateClientCredentials: the row is read, then the secret compared with
\* the hash that was read.
ValidateClientCredentials(q, c, s) ==
    /\ Accepts(c, s)
    /\ Start(q, "findMany", c, application[c], None)
    /\ UNCHANGED <<now, application, permission, token, drawn, retired, had>>

\* FAULT: the global permissions come along.
FindPermissions_Global(q) ==
    /\ At(q, "findMany")
    /\ request' = [request EXCEPT ![q].pc = "sign", ![q].readAt = now,
         ![q].permissions = {p \in Permission :
                               permission[p] \in {request[q].client, None}}]
    /\ UNCHANGED <<now, application, permission, token, drawn, retired, had>>

FindPermissions(q) ==
    /\ At(q, "findMany")
    /\ request' = [request EXCEPT ![q].pc = "sign",
                                  ![q].permissions = Catalogue(request[q].client),
                                  ![q].readAt = now]
    /\ UNCHANGED <<now, application, permission, token, drawn, retired, had>>

\* sign: neither the row nor the catalogue is looked at again.
Sign(q, t) ==
    /\ At(q, "sign")
    /\ token[t] = None
    /\ token' = [token EXCEPT
         ![t] = [client |-> request[q].client, opened |-> request[q].row.secret,
                 readAt |-> request[q].readAt,
                 permissions |-> request[q].permissions, exp |-> now + AccessTtl]]
    /\ End(q)
    /\ UNCHANGED <<now, application, permission, drawn, retired, had>>

\* A failure between two calls of a handler.
Abort(q) == /\ request[q] # None
            /\ End(q)
            /\ UNCHANGED <<now, application, permission, token, drawn, retired, had>>

\* A request does not sit on what it has read for longer than QueryTime.
Tick == /\ now < MaxTime
        /\ \A q \in Request : At(q, "sign") => now < request[q].readAt + QueryTime
        /\ now' = now + 1
        /\ UNCHANGED <<application, permission, token, request, drawn, retired>>
        /\ Remember

RequestStep(q) ==
    \/ \E s \in Secret : BeginCreate(q, s)
    \/ \E c \in Client :
         \/ Create(q, c)
         \/ \E isActive \in BOOLEAN : BeginUpdateStatus(q, c, isActive)
         \/ \E s \in Secret : \/ BeginRegenerateSecret(q, c, s)
                              \/ ValidateClientCredentials(q, c, s)
    \/ UpdateStatus(q)
    \/ RegenerateSecret(q)
    \/ FindPermissions(q)
    \/ \E t \in Token : Sign(q, t)
    \/ Abort(q)

Next == \/ \E q \in Request : RequestStep(q)
        \/ \E p \in Permission : \/ \E a \in Client \cup {None} : CreatePermission(p, a)
                                 \/ DeletePermission(p)
        \/ Tick

Spec == Init /\ [][Next]_vars
-----------------------------------------------------------------------------
(* A secret that was replaced opens no client again, however regenerations  *)
(* and changes of status of the same application overlap.                   *)
RetiredStaysRetired == \A s \in retired : ~Current(s)

(* An application that was switched off stays off until a request to switch *)
(* it on goes through; giving it a new secret does not revive it.           *)
DeactivationHolds ==
    [][\A c \in Client :
         application[c] # None /\ ~application[c].isActive /\ application'[c].isActive
           => \E q \in Request : At(q, "activate") /\ request[q].client = c]_vars

Valid(t) == token[t] # None /\ now < token[t].exp

(* While a service token is accepted, the permissions it carries were the   *)
(* whole catalogue of its application, no longer ago than its lifetime and  *)
(* the time of one query, even when names move to another application.      *)
ServiceTokenIsHonest ==
    \A t \in Token : Valid(t) =>
        \E h \in had : /\ h.client = token[t].client
                       /\ h.permissions = token[t].permissions
                       /\ now < h.at + AccessTtl + QueryTime

\* What was signed on a secret, and what requests past the check will sign.
Credit(s) ==
    Cardinality({t \in Token : token[t] # None /\ token[t].opened = s})
  + Cardinality({q \in Request : /\ At(q, "findMany") \/ At(q, "sign")
                                 /\ request[q].row.secret = s})

\* The secret of an application that is on.
Open(s) == \E c \in Client : /\ application[c] # None /\ application[c].isActive
                            /\ application[c].secret = s

(* A secret that was replaced, or whose application is off, yields no more  *)
(* tokens than the requests that read it in time will sign.                 *)
ClosedClientsGetNothing ==
    [][\A s \in Secret : ~Open(s) => Credit(s)' <= Credit(s)]_vars
-----------------------------------------------------------------------------
\* The inductive invariant: no secret is in two places, none that is still to
\* be stored was stored before, and tokens carry what the catalogue said.
Pending == {q \in Request : At(q, "create") \/ At(q, "regenerate")}

SecretsAreFresh ==
    /\ \A q \in Pending : /\ request[q].secret \in drawn \ retired
                          /\ ~Current(request[q].secret)
    /\ \A q, r \in Pending : request[q].secret = request[r].secret => q = r
    /\ \A c \in Client : application[c] # None =>
           application[c].secret \in drawn
    /\ \A c, d \in Client :
           application[c] # None /\ application[d] # None
             /\ application[c].secret = application[d].secret => c = d

RequestsAreSound ==
    \A q \in Request :
        /\ At(q, "activate") \/ At(q, "deactivate") \/ At(q, "regenerate") =>
               request[q].client \in Client /\ application[request[q].client] # None
        /\ At(q, "findMany") \/ At(q, "sign") =>
               request[q].client \in Client /\ request[q].row \in Row
        /\ At(q, "sign") =>
               /\ [client |-> request[q].client, at |-> request[q].readAt,
                   permissions |-> request[q].permissions] \in had
               /\ now <= request[q].readAt + QueryTime

ClientsInv ==
    /\ ClientsTypeOK
    /\ Showing \subseteq had
    /\ retired \subseteq drawn
    /\ SecretsAreFresh
    /\ RequestsAreSound
    /\ RetiredStaysRetired
    /\ \A t \in Token : token[t] # None =>
           /\ [client |-> token[t].client, permissions |-> token[t].permissions,
               at |-> token[t].readAt] \in had
           /\ token[t].exp <= token[t].readAt + QueryTime + AccessTtl
=============================================================================
