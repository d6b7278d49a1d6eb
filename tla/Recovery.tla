------------------------------ MODULE Recovery ------------------------------
(***************************************************************************)
(* Password recovery, composed with Sessions: forgotPassword and           *)
(* resetPassword of src/src/modules/auth/auth.service.ts.  resetPassword   *)
(* ends with a deleteMany on refresh_tokens, which is the PurgeSessions of *)
(* Sessions; every other step of a recovery leaves Sessions' state alone,  *)
(* and every step of Sessions leaves the password_resets table alone.      *)
(*                                                                         *)
(* Passwords themselves are not in the model: a sign-in knows the password *)
(* of the moment at which validateUser read it, and what the properties    *)
(* tell apart is whether that was before or after a reset (`stale').       *)
(***************************************************************************)
EXTENDS Sessions

CONSTANTS Link,         \* reset tokens, each drawn at most once
          Worker,       \* slots for the resetPassword requests in flight
          LinkTtl,      \* one hour, in ticks
          ResetWindow   \* the `take` of the lookup, 10 in the code

ASSUME RecoveryAssumption == /\ LinkTtl \in Nat \ {0}
                             /\ ResetWindow \in Nat \ {0}
                             /\ None \notin Link \cup Request
                             /\ Token \cap Request = {}

VARIABLES passwordReset,  \* the password_resets table, by token
          worker,         \* the resets in flight
          old,            \* history: tokens handed out before a reset of
                          \* their account committed
          stale,          \* history: old, the requests in flight then, and
                          \* all that came of either without a new sign-in
          done,           \* history: accounts whose resets are complete
          resets          \* history: resets[x]: how often a password was set
                          \* with the link x

history == <<old, stale, done, resets>>
recoveryVars == <<passwordReset, worker, history>>
allVars == <<vars, recoveryVars>>

ResetRow == [userId : User, used : BOOLEAN, createdAt : Nat, expiresAt : Nat]

ASSUME NoneIsNoReset == None \notin ResetRow

Free == [pc |-> "idle", user |-> None, link |-> None]

RecoveryTypeOK ==
    /\ passwordReset \in [Link -> ResetRow \cup {None}]
    /\ worker \in [Worker -> [pc : {"idle", "commit", "purge"},
                              user : User \cup {None}, link : Link \cup {None}]]
    /\ old \in SUBSET Token
    /\ stale \in SUBSET (Token \cup Request)
    /\ done \in SUBSET User
    /\ resets \in [Link -> Nat]
-----------------------------------------------------------------------------
\* The rows findMany selects: this user's, unused, `expiresAt: { gt: now }`.
Eligible(x, u) ==
    /\ passwordReset[x] # None
    /\ passwordReset[x].userId = u
    /\ ~passwordReset[x].used
    /\ passwordReset[x].expiresAt > now

\* FAULT: orderBy createdAt asc.
InOrder_OldestFirst(x, y) == passwordReset[x].createdAt <= passwordReset[y].createdAt

\* orderBy: { createdAt: 'desc' }; rows of the same instant in any order.
InOrder(x, y) == passwordReset[x].createdAt >= passwordReset[y].createdAt

\* What `orderBy` and `take` can leave of the eligible rows.
Windows(u) ==
    LET E == {x \in Link : Eligible(x, u)} IN
    {W \in SUBSET E : /\ \A x \in W, y \in E \ W : InOrder(x, y)
                      /\ Cardinality(W) <= ResetWindow
                      /\ W = E \/ Cardinality(W) = ResetWindow}
-----------------------------------------------------------------------------
RecoveryInit == /\ Init
                /\ passwordReset = [x \in Link |-> None]
                /\ worker = [w \in Worker |-> Free]
                /\ old = {}
                /\ stale = {}
                /\ done = {}
                /\ resets = [x \in Link |-> 0]

\* forgotPassword, for an email that is known; the account may be inactive.
ForgotPassword(u, x) ==
    /\ account[u] # "absent"
    /\ passwordReset[x] = None
    /\ passwordReset' = [passwordReset EXCEPT
         ![x] = [userId |-> u, used |-> FALSE, createdAt |-> now,
                 expiresAt |-> now + LinkTtl]]
    /\ UNCHANGED <<vars, worker, history>>

\* resetPassword, down to the comparison that finds the link in the window.
LookupReset(w, u, x) ==
    /\ worker[w] = Free
    /\ \E W \in Windows(u) : x \in W
    /\ worker' = [worker EXCEPT ![w] = [pc |-> "commit", user |-> u, link |-> x]]
    /\ UNCHANGED <<vars, passwordReset, history>>

TokensOf(u) == {t \in Token : Issued(t) /\ pair[t].user = u}

\* FAULT: the transaction sets the password and leaves the link as it is.
CommitReset_KeepsLink(w) ==
    LET u == worker[w].user IN
    /\ worker[w].pc = "commit"
    /\ worker' = [worker EXCEPT ![w].pc = "purge"]
    /\ old' = old \cup TokensOf(u)
    /\ stale' = stale \cup TokensOf(u) \cup {r \in Request : request[r].user = u}
    /\ done' = done \ {u}
    /\ resets' = [resets EXCEPT ![worker[w].link] = @ + 1]
    /\ UNCHANGED <<vars, passwordReset>>

\* The transaction: by id, so a link used in the meantime is used again.
CommitReset(w) ==
    LET u == worker[w].user  x == worker[w].link IN
    /\ worker[w].pc = "commit"
    /\ passwordReset' = [passwordReset EXCEPT ![x].used = TRUE]
    /\ worker' = [worker EXCEPT ![w].pc = "purge"]
    /\ old' = old \cup TokensOf(u)
    /\ stale' = stale \cup TokensOf(u) \cup {r \in Request : request[r].user = u}
    /\ done' = done \ {u}
    /\ resets' = [resets EXCEPT ![x] = @ + 1]
    /\ UNCHANGED vars

\* FAULT: the sessions of the reset are closed by marking them used.
PurgeReset_MarkUsed(w) ==
    LET u == worker[w].user IN
    /\ worker[w].pc = "purge"
    /\ refreshToken' = [t \in Token |-> IF Stored(t) /\ refreshToken[t].userId = u
                                        THEN AsUsed(refreshToken[t])
                                        ELSE refreshToken[t]]
    /\ worker' = [worker EXCEPT ![w] = Free]
    /\ done' = done \cup {u}
    /\ UNCHANGED <<now, account, pair, request, spent, passwordReset, old, stale, resets>>

\* FAULT: the purge only takes the sessions that have not been refreshed.
PurgeReset_Unrefreshed(w) ==
    LET u == worker[w].user IN
    /\ worker[w].pc = "purge"
    /\ refreshToken' = [t \in Token |-> IF t \in TokensOf(u) /\ pair[t].parent = None
                                        THEN None ELSE refreshToken[t]]
    /\ worker' = [worker EXCEPT ![w] = Free]
    /\ done' = done \cup {u}
    /\ UNCHANGED <<now, account, pair, request, spent, passwordReset, old, stale, resets>>

\* The deleteMany on the refresh tokens, after the transaction.
PurgeReset(w) ==
    LET u == worker[w].user IN
    /\ worker[w].pc = "purge"
    /\ PurgeSessions(u)
    /\ worker' = [worker EXCEPT ![w] = Free]
    /\ done' = done \cup {u}
    /\ UNCHANGED <<passwordReset, old, stale, resets>>

\* A failure between two awaits, here: between the transaction and the purge.
AbortReset(w) ==
    /\ worker[w] # Free
    /\ worker' = [worker EXCEPT ![w] = Free]
    /\ UNCHANGED <<vars, passwordReset, history>>

\* A step of Sessions, and what it makes of the history: a request that ends
\* is no longer stale, one that starts from a stale token is, and so is the
\* token a stale request stores.
SessionStep ==
    /\ Next
    /\ stale' =
         (stale \ {r \in Request : request'[r] = Idle})
         \cup {r \in Request : /\ request[r] = Idle
                               /\ request'[r].token \in stale}
         \cup {t \in Token : /\ ~Issued(t) /\ Issued(t)'
                             /\ \E r \in Request \cap stale :
                                   request[r] # Idle /\ request'[r] = Idle}
    /\ UNCHANGED <<passwordReset, worker, old, done, resets>>

RecoveryStep ==
    \/ \E u \in User, x \in Link : ForgotPassword(u, x)
    \/ \E w \in Worker :
         \/ \E u \in User, x \in Link : LookupReset(w, u, x)
         \/ CommitReset(w)
         \/ PurgeReset(w)
         \/ AbortReset(w)

RecoverySpec == RecoveryInit /\ [][SessionStep \/ RecoveryStep]_allVars
-----------------------------------------------------------------------------
(* A reset that ran to its end has ended every session that had been handed *)
(* out when its transaction committed, and no request in flight puts one    *)
(* back.                                                                    *)
ResetRevokes == \A t \in old : pair[t].user \in done => ~Stored(t)

\* A worker under way holds a link that was sent to the user it works for, and
\* a link that has set a password is marked.
WorkersAreSound ==
    /\ \A w \in Worker : worker[w].pc # "idle" =>
           /\ worker[w].user \in User
           /\ worker[w].link \in Link
           /\ passwordReset[worker[w].link] # None
           /\ passwordReset[worker[w].link].userId = worker[w].user
    /\ \A x \in Link : resets[x] > 0 => passwordReset[x] # None /\ passwordReset[x].used

\* What is stale is a token that was handed out, or a request under way.
StaleIsSound == /\ \A t \in stale \cap Token : Issued(t)
                /\ \A r \in stale \cap Request : request[r] # Idle

\* The inductive invariant behind the properties of this module.
RecoveryInv == /\ SessionInv
               /\ RecoveryTypeOK
               /\ WorkersAreSound
               /\ \A t \in old : Issued(t)
               /\ StaleIsSound
               /\ ResetRevokes

\* The resets that x has been good for, and those it may yet be good for:
\* requests that have found it and have not committed.
Pending(x) == {w \in Worker : worker[w].pc = "commit" /\ worker[w].link = x}

Uses(x) == resets[x] + Cardinality(Pending(x))

(* One link may set a password twice, by requests that find it before       *)
(* either commits (471, 495); but once it has set one nobody joins them:    *)
(* what a link is still good for only goes down.                            *)
LinksClose ==
    [][\A x \in Link : resets[x] > 0 => Uses(x)' <= Uses(x)]_allVars

\* What is left of the time before the last reset of u: sessions that can be
\* refreshed or whose access token still opens one, and requests on their way
\* to one.
Foothold(u) ==
    {t \in stale \cap Token : pair[t].user = u /\ (Live(t) \/ AccessValid(t))}
    \cup {r \in stale \cap Request :
             request[r].user = u /\ request[r].pc \in {"mark", "validate", "issue"}}

\* This step sets the password of u with a link.
Resetting(u) == \E x \in Link : /\ passwordReset[x] # None
                                 /\ passwordReset[x].userId = u
                                 /\ resets'[x] # resets[x]

(* Requests that overlap a reset, and access tokens from before it, may go  *)
(* on to sessions (506), and after a crash before the deleteMany the old    *)
(* sessions go on as well; but who has lost the last of them gets nothing   *)
(* more without the new password, whether the purge ever ran or not.        *)
ExpulsionIsFinal ==
    [][\A u \in User : ~Resetting(u) /\ Foothold(u) = {} => Foothold(u)' = {}]_allVars

(* The link of the latest mail works as long as it is unused and fresh,     *)
(* however many older ones are waiting.                                     *)
LatestLinkIsFound ==
    \A u \in User, x \in Link :
        /\ Eligible(x, u)
        /\ \A y \in Link \ {x} : Eligible(y, u) =>
               passwordReset[y].createdAt < passwordReset[x].createdAt
        => \A W \in Windows(u) : x \in W
-----------------------------------------------------------------------------
(* docs/api-frontend-guide.md:459, "Invalidates ALL refresh tokens for the  *)
(* user (force re-login on all devices)": who had a session when the        *)
(* password was reset does not get on from it, after the reset, to another  *)
(* one.  It does not hold.                                                  *)
ResetForcesSignIn ==
    \A t \in Token : Live(t) /\ pair[t].parent \in old => pair[t].user \notin done
=============================================================================
