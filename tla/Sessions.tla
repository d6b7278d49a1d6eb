------------------------------ MODULE Sessions ------------------------------
(***************************************************************************)
(* The life of a session in src/src/modules/auth/auth.service.ts: sign-in, *)
(* registration, the refresh exchange, switch of organization, logout, the *)
(* daily cleanup, and the two columns they read, user.isActive and the     *)
(* refresh_tokens table.                                                   *)
(*                                                                         *)
(* Handlers run concurrently and give up the thread at every await, so a   *)
(* handler that touches the database more than once is a request that      *)
(* holds what it has read so far; each of its database calls is one        *)
(* action, and other requests run in between.  A handler with one          *)
(* database call is one action.                                            *)
(***************************************************************************)
EXTENDS Integers, FiniteSets

CONSTANTS User,         \* accounts
          Token,        \* refresh tokens, each drawn at most once (uuidv4)
          Request,      \* slots for the multi-step requests in flight
          None,         \* null
          AccessTtl,    \* JWT_ACCESS_EXPIRATION, in ticks
          RefreshTtl,   \* JWT_REFRESH_EXPIRATION, in ticks
          MaxTime       \* bound on the clock

ASSUME SessionAssumption == /\ None \notin User
                            /\ None \notin Token
                            /\ AccessTtl \in Nat \ {0}
                            /\ RefreshTtl \in Nat \ {0}
                            /\ MaxTime \in Nat

VARIABLES now,            \* the clock, Date.now()
          account,        \* account[u]: "absent", "active" or "inactive"
          refreshToken,   \* the refresh_tokens table, by token
          pair,           \* pair[t]: what was handed out together with t
          request,        \* the requests in flight
          spent           \* history: the tokens that were ever marked used

vars == <<now, account, refreshToken, pair, request, spent>>

Row == [userId : User, isUsed : BOOLEAN, expiresAt : Nat]

\* A token pair as its holder sees it: whose it is, until when the access
\* token verifies, and the refresh token it was exchanged for.
Pair == [user : User, accessExp : Nat, parent : Token \cup {None}]

ASSUME NoneIsNoRecord == None \notin Row \cup Pair

Op == {"none", "signIn", "refresh", "switch"}
Pc == {"idle", "mark", "recheck", "terminate", "validate", "issue"}

\* op: the handler; pc: its next database call; user: the account it acts
\* for; token: the refresh token presented, or the one whose access token is.
Slot == [op : Op, pc : Pc, user : User \cup {None}, token : Token \cup {None}]

Idle == [op |-> "none", pc |-> "idle", user |-> None, token |-> None]

TypeOK == /\ now \in Nat
          /\ account \in [User -> {"absent", "active", "inactive"}]
          /\ refreshToken \in [Token -> Row \cup {None}]
          /\ pair \in [Token -> Pair \cup {None}]
          /\ request \in [Request -> Slot]
          /\ spent \in SUBSET Token
-----------------------------------------------------------------------------
(* Reading the tables.                                                     *)

Stored(t) == refreshToken[t] # None

Issued(t) == pair[t] # None

\* `lt: new Date()`, and `expiresAt < new Date()`: strict in both places.
Expired(row) == row.expiresAt < now

\* Passport accepts an access token strictly before its exp claim.
AccessValid(t) == Issued(t) /\ now < pair[t].accessExp

\* What findUnique and the tests that follow it make of a presented token.
RefreshOutcome(t) ==
    IF ~Stored(t) THEN "invalid"
    ELSE IF refreshToken[t].isUsed THEN "reuse"
    ELSE IF Expired(refreshToken[t]) THEN "expired"
    ELSE "rotate"

\* A session: a row that a refresh would exchange.
Live(t) == RefreshOutcome(t) = "rotate"

\* FAULT: the deleteMany forgets its where clause.
WithoutUser_Everyone(u) == [t \in Token |-> None]

\* The table after deleteMany({ where: { userId: u } }).
WithoutUser(u) ==
    [t \in Token |-> IF Stored(t) /\ refreshToken[t].userId = u
                     THEN None ELSE refreshToken[t]]

\* FAULT: the cleanup selects by age only.
Collectable_ExpiredOnly(row) == Expired(row)

\* The rows the nightly deleteMany selects.
Collectable(row) == Expired(row) \/ row.isUsed

NewRow(u) == [userId |-> u, isUsed |-> FALSE, expiresAt |-> now + RefreshTtl]

\* FAULT: the update leaves isUsed alone.
AsUsed_Unchanged(row) == row

AsUsed(row) == [row EXCEPT !.isUsed = TRUE]
-----------------------------------------------------------------------------
Init == /\ now = 0
        /\ account = [u \in User |-> "absent"]
        /\ refreshToken = [t \in Token |-> None]
        /\ pair = [t \in Token |-> None]
        /\ request = [r \in Request |-> Idle]
        /\ spent = {}

Start(r, op, pc, u, t) ==
    /\ request[r] = Idle
    /\ request' = [request EXCEPT
                     ![r] = [op |-> op, pc |-> pc, user |-> u, token |-> t]]

Goto(r, pc) == request' = [request EXCEPT ![r].pc = pc]

End(r) == request' = [request EXCEPT ![r] = Idle]

\* register: the transaction creates the user; the tokens come later.
Register(r, u) ==
    /\ account[u] = "absent"
    /\ account' = [account EXCEPT ![u] = "active"]
    /\ Start(r, "signIn", "issue", u, None)
    /\ UNCHANGED <<now, refreshToken, pair, spent>>

\* validateUser, or validateGoogleUser, has read an active user and accepted
\* the credential; login goes on with what it read.
SignIn(r, u) ==
    /\ account[u] = "active"
    /\ Start(r, "signIn", "issue", u, None)
    /\ UNCHANGED <<now, account, refreshToken, pair, spent>>

\* refreshTokens: findUnique, and the branch taken on the row it returned.
FindRefreshToken(r, t) ==
    /\ Stored(t)
    /\ Start(r, "refresh", IF Live(t) THEN "mark" ELSE "recheck",
             refreshToken[t].userId, t)
    /\ UNCHANGED <<now, account, refreshToken, pair, spent>>

\* FAULT: an expired row is let through after the second look.
RecheckUsed_FallsThrough(r) ==
    /\ request[r].pc = "recheck"
    /\ Goto(r, IF RefreshOutcome(request[r].token) = "reuse"
               THEN "terminate" ELSE "mark")
    /\ UNCHANGED <<now, account, refreshToken, pair, spent>>

\* FAULT: the second look does not ask for isUsed.
RecheckUsed_AnyRow(r) ==
    /\ request[r].pc = "recheck"
    /\ IF Stored(request[r].token) THEN Goto(r, "terminate") ELSE End(r)
    /\ UNCHANGED <<now, account, refreshToken, pair, spent>>

\* The findFirst on isUsed that tells reuse from expiry.
RecheckUsed(r) ==
    /\ request[r].pc = "recheck"
    /\ IF RefreshOutcome(request[r].token) = "reuse"
       THEN Goto(r, "terminate") ELSE End(r)
    /\ UNCHANGED <<now, account, refreshToken, pair, spent>>

\* "Token reuse detected. All sessions terminated."
TerminateSessions(r) ==
    /\ request[r].pc = "terminate"
    /\ refreshToken' = WithoutUser(request[r].user)
    /\ End(r)
    /\ UNCHANGED <<now, account, pair, spent>>

\* FAULT: updateMany, which does not throw when the row is gone.
MarkUsed_UpdateMany(r) ==
    LET t == request[r].token IN
    /\ request[r].pc = "mark"
    /\ IF Stored(t)
       THEN /\ refreshToken' = [refreshToken EXCEPT ![t] = AsUsed(@)]
            /\ spent' = spent \cup {t}
       ELSE UNCHANGED <<refreshToken, spent>>
    /\ Goto(r, "validate")
    /\ UNCHANGED <<now, account, pair>>

\* update({ where: { id }, data: { isUsed: true } }): by id alone, so it
\* succeeds on a row another request has marked; it throws on a deleted row.
MarkUsed(r) ==
    LET t == request[r].token IN
    /\ request[r].pc = "mark"
    /\ IF Stored(t)
       THEN /\ refreshToken' = [refreshToken EXCEPT ![t] = AsUsed(@)]
            /\ spent' = spent \cup {t}
            /\ Goto(r, "validate")
       ELSE End(r) /\ UNCHANGED <<refreshToken, spent>>
    /\ UNCHANGED <<now, account, pair>>

\* FAULT: the expiry of the access token is not looked at.
SwitchOrganization_Expired(r, t) ==
    /\ Issued(t)
    /\ Start(r, "switch", "validate", pair[t].user, t)
    /\ UNCHANGED <<now, account, refreshToken, pair, spent>>

\* switchOrganization, up to its second read of the user: anyone with a
\* valid access token, whatever became of the refresh token issued with it.
SwitchOrganization(r, t) ==
    /\ AccessValid(t)
    /\ Start(r, "switch", "validate", pair[t].user, t)
    /\ UNCHANGED <<now, account, refreshToken, pair, spent>>

\* FAULT: isActive is not looked at.
ValidateUserById_AnyStatus(r) ==
    /\ request[r].pc = "validate"
    /\ Goto(r, "issue")
    /\ UNCHANGED <<now, account, refreshToken, pair, spent>>

\* FAULT: a refresh refused for an inactive user gives the token back.
ValidateUserById_Unspend(r) ==
    LET t == request[r].token IN
    /\ request[r].pc = "validate"
    /\ IF account[request[r].user] = "active"
       THEN Goto(r, "issue") /\ UNCHANGED refreshToken
       ELSE /\ End(r)
            /\ refreshToken' = IF Stored(t)
                               THEN [refreshToken EXCEPT ![t].isUsed = FALSE]
                               ELSE refreshToken
    /\ UNCHANGED <<now, account, pair, spent>>

\* validateUserById, in the refresh and in the switch.
ValidateUserById(r) ==
    /\ request[r].pc = "validate"
    /\ IF account[request[r].user] = "active" THEN Goto(r, "issue") ELSE End(r)
    /\ UNCHANGED <<now, account, refreshToken, pair, spent>>

\* generateTokens and storeRefreshToken, the last steps of every flow.
StoreRefreshToken(r, t) ==
    LET q == request[r] IN
    /\ q.pc = "issue"
    /\ ~Issued(t)
    /\ refreshToken' = [refreshToken EXCEPT ![t] = NewRow(q.user)]
    /\ pair' = [pair EXCEPT
                  ![t] = [user |-> q.user, accessExp |-> now + AccessTtl,
                          parent |-> IF q.op = "refresh" THEN q.token ELSE None]]
    /\ End(r)
    /\ UNCHANGED <<now, account, spent>>

\* logout with a refresh token in the body: deletes it if it is the caller's.
Logout(s, t) ==
    /\ AccessValid(s)
    /\ Stored(t) /\ refreshToken[t].userId = pair[s].user
    /\ refreshToken' = [refreshToken EXCEPT ![t] = None]
    /\ UNCHANGED <<now, account, pair, request, spent>>

\* logout without a body.
LogoutAll(s) ==
    /\ AccessValid(s)
    /\ refreshToken' = WithoutUser(pair[s].user)
    /\ UNCHANGED <<now, account, pair, request, spent>>

\* The deleteMany that ends resetPassword; Recovery.tla has the steps before.
PurgeSessions(u) ==
    /\ refreshToken' = WithoutUser(u)
    /\ UNCHANGED <<now, account, pair, request, spent>>

\* users.service updateStatus and remove (a soft delete), by an administrator.
UpdateStatus(u, isActive) ==
    /\ account[u] # "absent"
    /\ account' = [account EXCEPT ![u] = IF isActive THEN "active" ELSE "inactive"]
    /\ UNCHANGED <<now, refreshToken, pair, request, spent>>

\* cleanupExpiredRefreshTokens, @Cron('0 0 * * *').
CleanupExpiredRefreshTokens ==
    /\ refreshToken' = [t \in Token |->
                          IF Stored(t) /\ Collectable(refreshToken[t])
                          THEN None ELSE refreshToken[t]]
    /\ UNCHANGED <<now, account, pair, request, spent>>

\* A database error, a lost connection or a crash between two awaits: no
\* handler undoes the calls it has made.
Abort(r) ==
    /\ request[r] # Idle
    /\ End(r)
    /\ UNCHANGED <<now, account, refreshToken, pair, spent>>

Tick == /\ now < MaxTime
        /\ now' = now + 1
        /\ UNCHANGED <<account, refreshToken, pair, request, spent>>

RequestStep(r) ==
    \/ \E u \in User : Register(r, u) \/ SignIn(r, u)
    \/ \E t \in Token : \/ FindRefreshToken(r, t)
                        \/ SwitchOrganization(r, t)
                        \/ StoreRefreshToken(r, t)
    \/ RecheckUsed(r)
    \/ TerminateSessions(r)
    \/ MarkUsed(r)
    \/ ValidateUserById(r)
    \/ Abort(r)

Next == \/ \E r \in Request : RequestStep(r)
        \/ \E s, t \in Token : Logout(s, t)
        \/ \E s \in Token : LogoutAll(s)
        \/ \E u \in User : PurgeSessions(u)
        \/ \E u \in User, isActive \in BOOLEAN : UpdateStatus(u, isActive)
        \/ CleanupExpiredRefreshTokens
        \/ Tick

Spec == Init /\ [][Next]_vars

\* The cron job runs again and again while the process is up; nothing makes
\* a client, or a request, take a further step.
FairSpec == Spec /\ WF_vars(CleanupExpiredRefreshTokens)
-----------------------------------------------------------------------------
(* Every pair handed out in exchange for a refresh token replaces a token   *)
(* that can no longer be exchanged: marking (258) comes before storing      *)
(* (285), and nothing that runs in between makes the old row good again.    *)
RotationInvalidatesParent ==
    \A t \in Token : Issued(t) /\ pair[t].parent # None
                        => ~Live(pair[t].parent)

(* A session that has ended, by exchange, logout, termination, reset,       *)
(* cleanup or age, never comes back, whatever the requests that read its    *)
(* row before it ended still do.                                            *)
RevocationIsFinal ==
    [][\A t \in Token : Issued(t) /\ ~Live(t) => ~Live(t)']_vars

\* The live session t is ended by this step; age alone does not end one.
EndedBy(t) == Live(t) /\ ~Stored(t)'

(* One database call ends the live sessions of one account at most; the     *)
(* cleanup, which crosses accounts, ends none that could be told apart.     *)
OneAccountAtATime ==
    [][\A t1, t2 \in Token : EndedBy(t1) /\ EndedBy(t2)
                                => pair[t1].user = pair[t2].user]_vars

\* The sessions u was given, and the requests that will give u one more.
Credit(u) ==
    Cardinality({t \in Token : Issued(t) /\ pair[t].user = u})
  + Cardinality({r \in Request : request[r].user = u /\ request[r].pc = "issue"})

(* While an account is inactive it is given no session beyond those that    *)
(* requests past their isActive check are about to store.                   *)
DeactivationStopsIssuing ==
    [][\A u \in User : account[u] = "inactive" /\ account'[u] = "inactive"
                          => Credit(u)' <= Credit(u)]_vars

\* The exchanges of p that were answered with a token, and those that may be:
\* requests that have found its row good and go on with what they found.
Redemptions(p) ==
    Cardinality({t \in Token : Issued(t) /\ pair[t].parent = p})
  + Cardinality({r \in Request : /\ request[r].op = "refresh"
                                 /\ request[r].token = p
                                 /\ request[r].pc \in {"mark", "validate", "issue"}})

(* One token may be exchanged twice, by requests that read its row before   *)
(* either marks it; but from the moment the row is marked, deleted or too   *)
(* old, nobody joins them.  What a token can still yield only goes down.    *)
RedemptionsClose ==
    [][\A p \in Token : ~Live(p) => Redemptions(p)' <= Redemptions(p)]_vars

(* All sessions of an account are ended for reuse (246-252) only on account  *)
(* of a token of that account which an exchange has marked used: presenting *)
(* one that has only grown too old, was logged out or was cleaned up costs  *)
(* no session, whatever became of its row since it was first read.  A       *)
(* client that lost the answer to an exchange, and retries, has spent its   *)
(* token, and does lose them.                                               *)
TerminationIsEarned ==
    \A r \in Request : request[r].pc = "terminate" =>
        LET t == request[r].token IN t \in spent /\ pair[t].user = request[r].user

\* A row that no exchange will ever accept again.
Dead(t) == Stored(t) /\ (refreshToken[t].isUsed \/ Expired(refreshToken[t]))

(* Used and expired rows do not pile up: the nightly job removes each.      *)
CleanupReclaims == \A t \in Token : Dead(t) ~> ~Stored(t)
-----------------------------------------------------------------------------
(* The inductive invariant behind the three of them.                       *)

\* Rows are stored under tokens that were handed out, for the same account.
RowsAreIssued == \A t \in Token : Stored(t) =>
                     Issued(t) /\ refreshToken[t].userId = pair[t].user

\* The isUsed column and the history agree, as long as there is a row.
UsedMeansSpent == \A t \in Token : Stored(t) =>
                      (refreshToken[t].isUsed <=> t \in spent)

SpentWasIssued == \A t \in spent : Issued(t)

ParentWasSpent == \A t \in Token : Issued(t) /\ pair[t].parent # None =>
                                       pair[t].parent \in spent

\* A request that works on a row works on one that was handed out; a refresh
\* that is past its update has spent the token it was given.
RequestsAreSound ==
    \A r \in Request :
        /\ request[r].pc # "idle" => request[r].user \in User
        /\ request[r].pc \in {"mark", "recheck", "terminate"} =>
               /\ request[r].op = "refresh"
               /\ request[r].token \in Token
               /\ Issued(request[r].token)
               /\ pair[request[r].token].user = request[r].user
        /\ request[r].pc = "terminate" => request[r].token \in spent
        /\ request[r].op = "refresh" /\ request[r].pc \in {"validate", "issue"} =>
               request[r].token \in spent

SessionInv == /\ TypeOK
              /\ RowsAreIssued
              /\ UsedMeansSpent
              /\ SpentWasIssued
              /\ ParentWasSpent
              /\ RequestsAreSound
-----------------------------------------------------------------------------
(* README.md:92, "Each refresh generates a new token pair, old token is     *)
(* invalidated": a token is good for one exchange.  It does not hold: the   *)
(* read and the update of an exchange are two calls.                        *)
SingleRedemption ==
    \A t1, t2 \in Token :
        /\ Issued(t1) /\ Issued(t2)
        /\ pair[t1].parent # None /\ pair[t1].parent = pair[t2].parent
        => t1 = t2
-----------------------------------------------------------------------------
(* The service implements RefreshLineage: a token is active while its row   *)
(* is unused, spent from the moment it is marked, revoked when its row is   *)
(* deleted unmarked.                                                        *)
tokenStatus == [t \in Token |-> IF ~Issued(t) THEN "unissued"
                                ELSE IF t \in spent THEN "spent"
                                ELSE IF Stored(t) THEN "active"
                                ELSE "revoked"]

tokenParent == [t \in Token |-> IF Issued(t) THEN pair[t].parent ELSE None]

Lineage == INSTANCE RefreshLineage WITH status <- tokenStatus,
                                        parent <- tokenParent

ImplementsLineage == Lineage!Spec
=============================================================================
