# Formal verification of main-core-service

TLA+ specifications of the service under `src/`, the configurations that
model-check them with TLC, and theorems about them whose proofs the TLA+ proof
system (TLAPS) checks. Paths below are relative to the repository, and
`auth.service.ts` and the like stand for the one file of that name under
`src/src/modules/`.

1. [The system](#1-the-system)
2. [What is hard about it](#2-what-is-hard-about-it)
3. [The modules, and how they correspond to the code](#3-the-modules-and-how-they-correspond-to-the-code)
4. [The runs](#4-the-runs)
5. [Where the code departs from its documentation](#5-where-the-code-departs-from-its-documentation)
6. [What is proved](#6-what-is-proved)
7. [What is not modelled](#7-what-is-not-modelled)
8. [Plan](#8-plan)

## 1. The system

A NestJS service that signs people and other services in, keeps their
organizations, roles and permissions, and sends notifications. Its state is in
PostgreSQL behind Prisma (`src/prisma/schema.prisma`), except three maps in the
memory of the process. Every handler is an `async` function: it gives up the
thread at every `await`, so two requests interleave between any two database
calls, and only what is inside `$transaction` is atomic.

| Component | State it keeps | Operations that change state | Depends on | Correct when |
| --- | --- | --- | --- | --- |
| **Sessions** (`auth.service.ts` 93-388, 526-575) | `users.is_active`, `refresh_tokens`; the token pairs clients hold | register, login (password or Google), refresh, switch organization, logout, nightly cleanup | users, memberships (for the claims), `@nestjs/schedule` | an exchanged or revoked token never works again; an inactive account gets nothing new; one account's operations leave another's sessions alone; dead rows go |
| **Password recovery** (428-513) | `password_resets` | forgotPassword, resetPassword | sessions (deletes their rows), the event bus | a completed reset ends what was handed out before it; a link that has set a password is good for nobody new; the latest link works |
| **Setting and changing passwords** (390-426) | `users.password` | setPassword, changePassword | recovery (writes the same column) | who overwrites a password knew it, or overlapped with somebody who did |
| **Lockout** (39-42, 53-85) | the map `failedAttempts` in memory | the comparisons of `validateUser` (that of `changePassword` is not counted) | the process's life | the number of wrong guesses, and their rate, is bounded, however they overlap |
| **Users** (`users.service.ts`, `users.repository.ts`) | `users` | create with the lowest role, update, activate, deactivate, soft delete; the listing, page by page | organizations, roles | one account per email; the user gets a role that fits the organization; the pages of a listing miss nobody |
| **Organizations and memberships** (`organizations.*.ts`) | `organizations`, `user_roles` | create, update, addMember, updateMemberRole, removeMember | roles, applications | a role is admitted only where it fits; a removal touches one member |
| **Roles** (`iam/roles`) | `roles`, `role_permissions` | create, update, delete with its cascade, grant, revoke | applications, permissions | system roles stay; nothing refers to what is gone |
| **Access decisions** (`iam/access`, `common/guards`, `resolveUserClaims`) | the claims inside tokens; the map `cache` in memory | resolve claims, look up with a cache | memberships, roles | an answer was true recently, for the context it is given for |
| **Applications and client credentials** (`applications.*.ts`, `clientCredentials` 306-339) | `applications` | create, update, status, regenerate secret, token for a client | permissions | a replaced secret, or one of an application switched off, opens nothing |
| **Permission catalogue** (`iam/permissions`) | `permissions` | create, delete | applications | a service token carries the permissions of its application |
| **Notifications** (`notifications/`) | rooms of open sockets, handlers of events under way | connections, events, email, WebSocket push | access tokens (for the rooms), the event bus, SMTP, socket.io | a message is heard only by those it is for; a mail that fails stops nothing |
| **Storage** (`storage/`) | objects in MinIO | upload, sign a URL, delete | MinIO | the bucket exists before it is used |
| **Audit** (`audit/`) | `audit_logs` | none: every call is a TODO | - | - |

How they meet:

* *shared tables*: recovery deletes rows of `refresh_tokens`; deactivation is
  read by the exchange of tokens; memberships and grants are read when claims
  are resolved;
* *copies*: the claims of an access token, the organization and application in
  a refresh token's row, and the entries of the access cache are all copies of
  tables that change underneath;
* *events*: `user.registered` and `user.forgot_password`, in process and not
  awaited;
* *schedule*: the cleanup runs every night (`@Cron`), in the middle of whatever
  requests are doing.

## 2. What is hard about it

* **Read, await, write.** The exchange of a refresh token is five to six
  database calls with no transaction: another exchange of the same token, a
  logout, a reset, a deactivation or the cleanup can run between any two. The
  same shape is in resetPassword, addMember, users create, updateMemberRole,
  removeMember, regenerateSecret, changePassword, setPassword, switchOrganization,
  the handlers of `/users/:id` that write, and the client credentials grant.
* **Half-done work.** A failure between two calls undoes nothing: a token is
  spent with nothing given for it, a password is reset and the sessions stay.
* **Stale copies.** Three kinds (above), none of which is told about a change; and
  the rooms of an open socket, copied from a token that may be long expired.
* **Pages of a moving listing.** Each page is a query of its own, by position.
* **Overlapping comparisons.** `bcrypt.compare` is awaited between the reading
  of the lockout map and its writing.
* **Restarts** forget the lockout map, the cache and all requests in flight,
  and nothing in the database.
* **Time.** Access tokens, refresh tokens, links, locks and cache entries run
  out, and each is compared with its own kind of inequality.

`PROJECT.json` lists every such place with its line ("hazards") and the
properties that are about it.

## 3. The modules, and how they correspond to the code

    RefreshLineage  <-- implemented by --  Sessions  <-- extended by --  Recovery
    Memberships     <-- implemented by --  Tenancy
         ^--------  instantiated by  ----  Access    <-- extended by --  Delivery
    Lockout          Users          Clients

The detailed ones have an `MC...` module that adds symmetry for TLC, and a
`...Proofs` module (RefreshLineage carries its own proof; AccessProofs is about
Access and Delivery, and the theorem about Memberships is in TenancyProofs). They
share conventions:

* An **action is what runs between two awaits that matter**: one database call
  and the synchronous code around it. A handler with one such call is one
  action. A handler with several is a *request*: a slot in the variable
  `request` (`worker`, `attempt`) whose `pc` names the next call and whose other
  fields hold what has been read. `Abort` ends a request at any point, for a
  database error, a lost connection or a crash.
* A transaction is one action.
* A call that is refused and changes nothing is not an action (stuttering).
* Rows are records, a table is a function from keys to rows or `None`.
* Tokens, links and secrets are drawn at most once (`uuidv4`, `randomBytes`).
* Variables marked *history* are read by no guard; they record what properties
  are about. For instance `spent` is the set of tokens ever marked used.
* Operators marked `FAULT`, named `X_Something`, are deliberate bugs: each
  replaces `X` to show that the properties notice. Nothing else uses them.
* The clock is `now`, bounded by `MaxTime`; `Tick` moves it between any two
  actions. The bounds `QueryTime` in Access and Clients say how long a request
  holds what it has read; without one, nothing could be said of an answer's age.

**RefreshLineage** is what the service promises about refresh tokens with no
tables, requests or clock: a token is issued once, ends once, spent or revoked,
and only a spent token is exchanged.

**Sessions** is `auth.service.ts` from the validated user on. `account` is
`users.is_active` (soft delete sets it too), `refreshToken` the table, `pair`
what the client holds: the access token verifies until `accessExp` whatever the
tables say (`jwt.strategy.ts` reads no table). The refresh is `FindRefreshToken`
(235), then `RecheckUsed` (244) and `TerminateSessions` (248), or `MarkUsed`
(258), `ValidateUserById` (263), `StoreRefreshToken` (285). `MarkUsed` is an
update by id: it succeeds on a row another request has marked and throws on a
deleted one. `SwitchOrganization` needs only a valid access token and shares
the last two steps. `RecheckUsed` looks at the row it found, or at a row changed
since: between the two calls anything may happen.

**Recovery** extends Sessions. `LookupReset` covers findMany with its order and
its `take: 10` (`Windows` is every answer the database may give; rows of one
instant come in any order) and the comparisons; `CommitReset` is the
transaction, `PurgeReset` the deleteMany after it. It conjoins `PurgeSessions`
of Sessions, and every other step of a recovery leaves the variables of Sessions
alone, so what is shown of Sessions holds of the composition (a lemma of
RecoveryProofs; it follows from how the two are put together, and no run asks for
it). `resets` (history) counts the passwords set with a link. The history variable
`stale` marks tokens and requests that existed at a reset and all that comes of
them without a sign-in; `Foothold` is what of it can still be used.

**Lockout** is the map of `validateUser`. An attempt is admitted when the lock
is not held and ends in `Fail` or `Succeed`, which read and write the map
without an await in between. `wrong` (history) counts the wrong guesses since
the account was last opened: by a success, a restart, or a lock running out. `total`,
`since` and `openings` (history) count the guesses, the time, and the successes and
restarts, over a stretch of time across the locks that ran out. `MaxOpenings` bounds
the openings in it: beyond that a new stretch begins.

**Tenancy** is `organizations`, `roles`, `role_permissions` and `user_roles`.
addMember is `BeginAddMember`, `CheckRole`, `InsertMember`; users create is
`BeginCreateUser` (the organization), `ChooseRole` (`findLowestRole`) and
`CreateUser` (the transaction); updateMemberRole and removeMember find a row, then
act by its id. Unique and foreign keys, and the cascades, are those of the schema.
That a permission can be deleted too is, here, removePermission of every role.
`Init` is what the seed leaves, after any of its steps: the system roles, the
permissions granted one by one to the two administrators, then the organization,
the account and the membership of the super admin. `changed` (history) is the
requests for which an organization or a role was read that was given *another*
application since, the memberships those requests insert, the memberships that
rest on an application changed later, and those given another role.

**Memberships** is what all those handlers promise about the tables they share,
with no requests and no ids: a step adds, removes or alters one membership,
deletes one role with what hangs on it, changes the permissions of one role, or
moves one organization or role to another application. Tenancy implements it
(`ImplementsMemberships`; the mapping forgets ids, histories and requests).

**Access** is what a user may do, as answered from two copies: the claims of a
token (`ResolveUserClaims`, then `GenerateTokens`), and `AccessService.cache`
(`FindRoles` on a miss, then `FillCache`). A token comes from `Login`, from
`RefreshTokens`, or from `SwitchOrganization` and `FindOrganization` (the
membership, then the organization). The tables underneath are not modelled a second
time: `ChangeTables` is the next-state relation of Memberships, over Access's own
variables, so that what is shown of Access holds above the handlers of Tenancy.
Whether a refresh token is still good is left to Sessions: here any pair may be
refreshed at any time, which allows more than the code does. `had` (history) is
who had which permissions when.

**Delivery** extends Access by the WebSocket gateway and the notifications
service. `socket[k]` is the rooms a socket joined at `HandleConnection`, from the
claims of a token that verified then; only `HandleDisconnect` and a restart end
it. `handler[u]` is the handler of `user.registered`: emitted when the tokens of
the registration exist, `"mailing"` until nodemailer has answered, then greeted,
which pushes to whatever sockets of the user are open. `belonged` (history) is who
was ever a member of which organization, `heard` who heard what. A broadcast goes
to every socket and leaves nothing to tell apart.

**Users** is the `users` table and all that writes it. A request has looked up an
email (`FindByEmail`, to insert), has found the password it may replace
(`SetPassword`, `ChangePassword`), or has passed `ValidateSameOrganization`; the
write comes in a later call. The unique key on emails is the database's, and
`Conflict` is what running into it does. `ResetPassword` is the transaction of
Recovery, seen from this table. `walk` is a client that asks `GET /users` for page
after page until one is not full, for everybody (system administrators) or for one
organization. Creation times are taken to be distinct. `member` is who has a role
in the one organization that is told apart, and changes at any time
(`ChangeMembers`), as far as Users is concerned. No handler writes a blank
password: rows without one are found in the table, not made.

**Clients** is `applications`, `permissions` and the client credentials grant:
`ValidateClientCredentials` (the row, and the comparison with the hash in it),
`FindPermissions`, `Sign`. regenerateSecret and updateStatus read the row and
update one column of it in a later call.

`PROJECT.json` gives the lines behind every definition ("map").

## 4. The runs

Run one with `tlc -workers 2 -config X.cfg M`. Each finishes within three minutes;
the largest are MCLockout, MCAccess and MCDelivery.

| Run (module, configuration) | States | Shows |
| --- | --- | --- |
| `sessions` (MCSessions, MCSessions.cfg) | 600 000 | `RotationInvalidatesParent`: when a replacement exists, its parent is dead. `RevocationIsFinal`: what has ended never comes back, whatever requests that read it before still do. `DeactivationStopsIssuing`: an inactive account gets only what requests past the check were about to store. `RedemptionsClose`: what a token that is marked, gone or too old can still yield, pairs and exchanges under way together, only goes down. `TerminationIsEarned`: all sessions of an account are terminated only for a token of its own that was exchanged, never for one that is only too old or gone, whatever ran between the two looks at its row (235, 244). `ImplementsLineage`: refinement of RefreshLineage. `SessionInv`: the inductive invariant. |
| `sessions_accounts` (MCSessions, MCSessionsLiveness.cfg) | 72 000 | `OneAccountAtATime`: no database call ends live sessions of two accounts; that the cleanup, which is about everyone, ends none is where the strictness of the two comparisons with the clock matters. `CleanupReclaims`: used and expired rows go in the end. |
| `recovery` (MCRecovery, MCRecovery.cfg) | 1 133 000 | `ResetRevokes`: what was handed out before a completed reset has no row and gets none. `LinksClose`: a link that has set a password may set it again for the requests that had found it by then, and for no other: what it is good for only goes down. `LatestLinkIsFound`: the window never hides the latest link. `ExpulsionIsFinal`: until the next reset of an account, who has lost the last usable token and the last request from before the last one never gets another without the new password, also where the purge did not come about. `RecoveryInv`: the inductive invariant. |
| `lockout` (MCLockout, MCLockout.cfg) | 4 785 000 | `GuessesAreBounded`: between two openings the wrong guesses are fewer than the limit plus the comparisons in flight (a burst). `GuessRateIsBounded`: over any time they are at most a burst for every lock time, every success and every restart in it, and less than one more: a success that deletes a lock set under it (83) is paid for by itself. `LockNeverShortened`: a late failure never brings the end of a lock forward. |
| `tenancy` (MCTenancy, MCTenancy.cfg) | 476 000 | `AdmittedRolesFit`: a role held in an organization fits its application, unless one of the two was given another application after it was read for this membership, or the member another role. A change before the request, a change that leaves the application as it is, or one that other requests overlap with excuses nothing; a change between the check and the insert does admit a role that does not fit (section 5). `ImplementsMemberships`: refinement of Memberships; a removal or a change of role touches one membership, even when the row it found was changed since. `TenancyInv`: the inductive invariant, with the referential integrity the requests rely on. |
| `access_tokens` (MCAccess, MCAccess.cfg) | 2 320 000 | `GuardIsHonest`: an accepted token tells what was true within its lifetime; refreshing does not prolong it. `CheckIsHonest`: so does a cache entry within the TTL, when two lookups of one key overtake each other. `ContextIsKept`: a refresh keeps user and organization, and an application that is set. `AccessInv`: the inductive invariant. |
| `delivery` (MCDelivery, MCDelivery.cfg) | 1 240 000 | `RoomsAreEarned`: a user is in the room of an organization only if it was once a member. `MessagesStayInside`: what is pushed to an organization or a user is heard by its members, past or present, or by that user. `EveryoneIsGreeted`: the welcome follows a registration whether the mail could be sent or not. `DeliveryInv`: the inductive invariant. |
| `users` (MCUsers, MCUsers.cfg) | 519 000 | `EmailsAreUnique`: over lookups that overlap inserts and updates. `OverwriteIsEarned`: a password is overwritten by a request that was shown it, or that overlapped with the one that wrote it. `FewAreSkipped`: a walk through the pages, with users added and removed meanwhile, misses no more of those who were there all along than have left; nobody, if nobody left. `UsersInv`: the inductive invariant. |
| `clients` (MCClients, MCClients.cfg) | 527 000 | `RetiredStaysRetired`: a replaced secret is never stored again. `DeactivationHolds`: regenerating a secret does not revive an application. `ClosedClientsGetNothing`: no tokens beyond those of requests past the check. `ServiceTokenIsHonest`: a token carries what the catalogue of its application was, also when names move. |
| `single_redemption`, `reset_sign_in`, `access_context` | - | counterexamples, see the next section |

**Bounds, and why they are enough.** A hazard here takes two requests that
overlap on one object, and now and then a third party:

* Sessions: two requests and three tokens are a token, its replacement and the
  replacement of a racing exchange. A second account matters only to a property
  that compares accounts, and is in `sessions_accounts`. All lifetimes are one
  tick, the clock two: a token can be fresh, at its last instant, and expired.
* Recovery: two workers on one link, or on two; a window (`ResetWindow`) of one
  where the code has ten, so that two links are enough to overflow it; two
  tokens, so that one can be the exchange of the other. `LinkTtl` is longer than
  the clock, so that links do not run out before their window does; an expired
  link is like none at all.
* Lockout: three comparisons against a limit of two, so that the two still in flight
  when an account is locked can lock it once more, and that a burst is as long as it
  can be: with a larger limit the failures that come in late count towards the next
  lock, and the rate stays further from its bound. Two accounts; time for two locks
  and the beginning of a third; one success or restart (`MaxOpenings`) between them,
  so that a stretch of time has a lock that ran out and one that was cleared.
* Tenancy: two applications, one organization of either or none, a system role,
  which stands for both administrators of the seed, and one that comes and goes, two
  rows, two requests: a user with two roles, of which one is removed while the other
  is changed.
* Access: two tokens are a token and its refresh; two requests are two lookups
  that overtake each other. `QueryTime` is 0: a request finishes in the tick in
  which it read, though everything else may run in between. No application
  besides the global scope, which multiplies the history; `access_context` has
  one. So of `ContextIsKept` the run shows what it says of users and organizations;
  what it says of applications is left to the proof, which is, like the others, for
  every `QueryTime` and any number of applications.
* Delivery: one socket and two tokens are a socket that outlives the token, the
  session and the membership its rooms came from; one user, so a message that
  strays is one that reaches a socket with another room, or with none (a service).
  Permissions play no part. The theorems are for any users, sockets and tokens.
* Users: two accounts on pages of one are the least for which a page can move
  behind a walk; two requests and two passwords are a change and the write that
  overtakes it, two emails a change of email onto one that is being taken.
  `MaxLeft` bounds the departures during one walk: a user who leaves and joins again
  for ever would be counted for ever.
* Clients: two applications, because `RetiredStaysRetired` and the freshness of
  secrets compare them; two requests; two secrets, the one and its replacement.

Symmetry is used where no liveness property is checked, over sets that the
specification treats alike (never over roles that a configuration tells apart,
as in Tenancy). Deadlock is checked everywhere: a request can always be aborted,
a table changed.

**Fairness.** Two liveness properties, each with one assumption.
`CleanupReclaims` assumes that the nightly job keeps running
(`WF_vars(CleanupExpiredRefreshTokens)`): Nest's scheduler fires it every night for
as long as the process is up, and after a restart again. It needs no more, because
a used or an expired row stays one until it is deleted. `EveryoneIsGreeted` assumes
`Greeting`, that a mail on its way is sent or fails: nodemailer settles its promise,
by its connection and socket timeouts at the latest, and the handler goes on in
either case. Nothing else is fair: a client may stop at any time, a request may fail
at any step, the clock may stand still, the process may restart as often as it likes.

## 5. Where the code departs from its documentation

Three runs end in a counterexample to a sentence of the documentation:

* `single_redemption`. README.md:92, "Each refresh generates a new token pair,
  old token is invalidated". Two requests with one token both read it unused
  (`auth.service.ts` 235), both mark it, by id (258), and both store a new pair.
  What does hold: it takes an overlap (`SequentialTheorem`: with one request at a
  time a token is exchanged once); when a replacement exists the token is dead
  (`RotationInvalidatesParent`); and from the moment it is marked nobody joins those
  who have read it unmarked (`RedemptionsClose`).
* `reset_sign_in`. docs/api-frontend-guide.md:459, "Invalidates ALL refresh
  tokens for the user (force re-login on all devices)". A refresh that has marked
  its row and validated the account before the deleteMany (506) stores the new row
  after it, and its client has a session again without the new password. What
  does hold: the rows there were are gone for good (`ResetRevokes`), and once the
  last access token from before the reset has run out (it opens a session too, by
  switching organization), the last request from before it has ended and what they
  stored is gone, none of it comes back (`ExpulsionIsFinal`). It need not come to
  that: a session they opened can be refreshed for ever.
* `access_context`. docs/api-frontend-guide.md:318, "Refresh tokens store
  `organizationId` + `applicationId` - context is preserved across refreshes". A
  null application in the row is filled from the user's first organization (269),
  so a session in a global organization changes application at its first refresh.
  What does hold is `ContextIsKept`: user and organization stay, and an application
  that is not null does, so the change happens once at most.

Other places were met while modelling. The modules contain the behaviour; no run
is kept for them:

* README.md:93 says that a used token presented again ends all sessions. The
  nightly job deletes used rows (546-547), and so does a logout that names one
  (297); after that the answer is "Invalid refresh token" and the sessions stay.
* README.md:97 says "5 consecutive failed login attempts → 15-minute lockout". A
  comparison admitted before the fifth failure, and right, removes the lock (83);
  a restart removes it too (39).
* docs/api-frontend-guide.md:1073 says that the role of a member of an app-scoped
  organization must be global or of the same app. addMember and users create
  check it; updateMemberRole (`organizations.service.ts` 108) does not, nor does
  a change of the application of an organization or a role look at memberships; and
  such a change between the check (80-95) and the insert (97) goes unnoticed, so that
  a role is admitted which does not fit. `AdmittedRolesFit` says that there is no
  fourth way.
* docs/api-frontend-guide.md:1104 calls removeMember "Remove Member from
  Organization". It deletes one row (`organizations.repository.ts` 119-127); a
  member with two roles stays one.
* docs/api-frontend-guide.md:1200 says that the name of a role is unique per
  application scope. Creation looks it up and inserts in two calls
  (`roles.service.ts` 26-34), an update does not look (49-59), and the key
  `@@unique([name, applicationId])` does not bind rows whose application is null:
  two global roles can have one name, and register takes any `org_admin`.
* A change of password that was compared with a password, and overtaken by a reset
  before it writes (410-421), overwrites the one the reset has set: who knew the old
  password has the last word. `OverwriteIsEarned` says that this takes an overlap.
* `GET /users` reads page and count in two queries side by side
  (`users.repository.ts` 61-70): `totalPages` may not fit the page. `FewAreSkipped`
  is about a client that stops at a page that is not full; when somebody leaves the
  listing during a walk, everybody behind moves up, and one may be missed.
* docs/api-frontend-guide.md:1752 says that the room of an organization targets all
  users in it. A socket is in the room its token named when it connected: a member
  who was removed since still hears, and one who is signed in elsewhere does not.
* `updateStatus` and `remove` refuse one's own account (`users.service.ts` 144, 153),
  so two administrators can deactivate each other.
* README.md:110 says that `@Permissions` resolves through the cached
  AccessService. The guard reads the claims (`permissions.guard.ts` 35), as
  docs/api-frontend-guide.md:120 says; what it admits may be as old as the token.

## 6. What is proved

`tlapm M.tla` for RefreshLineage, SessionsProofs, RecoveryProofs, LockoutProofs,
TenancyProofs, AccessProofs, ClientsProofs and UsersProofs. Each theorem is for
every value of the constants, under the assumptions named in the modules: that
`None` is none of the things it stands beside, that lifetimes and windows are
positive naturals, for Lockout that the comparisons in flight are finitely many, for
Users that the accounts are, for Recovery that tokens are not requests, for Tenancy
that rows are not, for `LinksTheorem` and `LinkCountTheorem` that the resets in
flight are finitely many, and for the theorems that count what may still be issued
(`IssuingTheorem`, `RedemptionsTheorem`, `ClosedTheorem`) that tokens and requests
are finitely many; `SequentialTheorem` is about finitely many tokens and a single
request slot.

| Theorem | Says |
| --- | --- |
| `ReplacedIsSpent` | in the abstract life of tokens, a replaced token is spent |
| `SessionsInvariant`, `RotationTheorem`, `RevocationTheorem`, `TerminationTheorem`, `OneAccountTheorem` | `[]SessionInv`, `[]RotationInvalidatesParent`, `RevocationIsFinal`, `[]TerminationIsEarned`, `OneAccountAtATime` |
| `IssuingTheorem`, `RedemptionsTheorem` | `DeactivationStopsIssuing`, `RedemptionsClose` |
| `SequentialTheorem` | `[]SingleRedemption`, with one request at a time |
| `LineageTheorem` | Sessions implements RefreshLineage |
| `RecoveryInvariant`, `ResetTheorem` | `[]RecoveryInv`, `[]ResetRevokes` |
| `LinksTheorem`, `LinkCountTheorem` | `LinksClose`; a link sets a password at most as often as there are resets at a time |
| `LatestLinkTheorem`, `ExpulsionTheorem` | `[]LatestLinkIsFound`, `ExpulsionIsFinal` |
| `LockoutInvariant`, `GuessesTheorem`, `RateTheorem`, `LockTheorem` | `[]LockoutInv`, `[]GuessesAreBounded`, `[]GuessRateIsBounded`, `LockNeverShortened` |
| `TenancyInvariant`, `RolesFitTheorem` | `[]TenancyInv`, `[]AdmittedRolesFit` |
| `MembershipsTheorem` | Tenancy implements Memberships |
| `AccessInvariant`, `CheckTheorem`, `GuardTheorem` | `[]AccessInv`, `[]CheckIsHonest`, `[]GuardIsHonest` |
| `ContextTheorem` | `[]ContextIsKept` |
| `DeliveryInvariant`, `RoomsTheorem`, `MessagesTheorem` | `[](AccessInv /\ DeliveryInv)`, `[]RoomsAreEarned`, `[]MessagesStayInside` |
| `UsersInvariant`, `EmailsTheorem`, `OverwriteTheorem`, `WalkTheorem` | `[]UsersInv`, `[]EmailsAreUnique`, `[]OverwriteIsEarned`, `[]FewAreSkipped` |
| `ClientsInvariant`, `RetiredTheorem`, `ServiceTokenTheorem`, `DeactivationTheorem`, `ClosedTheorem` | `[]ClientsInv`, `[]RetiredStaysRetired`, `[]ServiceTokenIsHonest`, `DeactivationHolds`, `ClosedClientsGetNothing` |

The arguments:

* **Sessions.** A row that is unused may become used and never the reverse, so
  what matters is the request in the middle of an exchange. `SessionInv` says
  that past its update such a request has spent its token (`RequestsAreSound`),
  that `isUsed` agrees with the history wherever there is a row
  (`UsedMeansSpent`), and that rows exist under issued tokens only. Then a token
  stored with a parent has a spent parent, which is either gone or used. Without
  `RequestsAreSound` the invariant is not inductive: nothing would tie the last
  step of an exchange to its first. `OneAccountAtATime` needs that a row and its
  token belong to one account, and for the cleanup that a live row is not
  collectable, because both tests of the clock are strict.
* **Recovery.** When the purge runs, every token handed out before the commit is
  already issued, and a token is stored only when it is issued: so the rows that are
  deleted are not put back. That the requests in flight store *other* tokens is what
  separates `ResetRevokes`, which holds, from `ResetForcesSignIn`.
  `ExpulsionIsFinal` follows where each token and request comes from: what overlaps
  the commit is marked, a request that starts from a marked token is marked, and so
  is the token a marked request stores. Of a user with no foothold left every marked
  session has ended, and `EndedStaysEnded`, a lemma on Sessions, says it stays so;
  no marked request is on its way to a new one, and none can start. `StaleIsSound`,
  in the invariant, says that a marked token has been issued and a marked request is
  under way, so that a mark is never on something that is yet to begin. The purge
  plays no part in it, so it holds after a crash before the purge as well. A commit
  adds one to the resets of a link and takes one request out of those that hold it;
  once the link is marked none joins them (`UsesStep`), and before that there are no
  more of them than slots, whence `LinksClose` and `LinkCountTheorem`. The latest
  link is in every window because a window that leaves it out is full, has therefore
  some link in it, and that one is no older.
* **Lockout.** An open account has counted each wrong guess; a locked one can
  lose only the comparisons in flight when the lock was set, and each that ends
  makes one fewer. This is a statement about the cardinality of a set that
  shrinks by one element, and `LockoutProofs` has it as a lemma. The rate adds up over
  locks: the guesses of earlier bursts, times the lock time, are at most a burst times
  the age of the present one (`BurstStart`), which is when its lock was set, or now. A
  lock that runs out has been paid for with its own length; one set again by a late
  failure only ends later; and one that a success or a restart clears is paid for by
  the opening that is counted (`AccountOpened`).
* **Tenancy.** What was checked is used in a later call, so the invariant follows
  what each request has established (`InsertsFit`). It survives other requests
  because ids are never drawn twice, so a deleted role is not one of another
  application when it is inserted; and because a change that takes away what was
  established marks the request (`changed`), which hands the mark to the row it
  inserts (`RowInserted`). The refinement needs the unique key of
  `user_roles` from the invariant: only because no two rows are equal does the
  removal of a row remove a membership.
* **Access** and **Clients.** The past is remembered (`had`), so "was true then"
  can only become more true; what remains is that each copy carries the time of
  its reading and that no request holds a reading longer than `QueryTime`. In
  Clients, a replaced secret stays replaced because no secret is in two places:
  stored for two applications, or pending in two requests.
* **What may still be issued** (Sessions and Clients). These theorems count two sets
  together: the tokens there are and the requests past the check. One step adds to
  the first, and it takes the request it serves out of the second; nothing but a
  passed check adds to the second, and an inactive account or a closed secret passes
  none. `CreditIsTraded` is the lemma on the two cardinalities. `RedemptionsClose` is
  the same for one token: its replacements, and the requests past the reading of its
  row. With a single request slot both together are at most one, and none before the
  token is marked, which is `SequentialTheorem`.
* **The context of a session** (Access). A token's claims never change, so a request
  that refreshes it agrees with it whenever it reads them (`RefreshesKeepContext`), and
  so does the token it signs.
* **Delivery.** A socket's rooms come from a token's claims, those from a request,
  and a request's organization from a membership that was there, or from the token
  it refreshes; `belonged` only grows. A lookup for `/iam/check` may be about any
  organization, so it is left out of the chain, and must not end in a token.
* **Users.** The walk is the part that is not obvious. A user who was in the listing
  all along and is skipped is unseen, and on a page the walk has left (`Skipped`). No
  two rows share a position, and when n rows leave no other moves up by more than n: so
  at most n users fall behind the walk (`FallBehind`, by an injection into n
  positions). A user who joins pushes others back; a page takes exactly the positions in
  front of the next one; and a page that is not full leaves no position behind it
  (`ShortPage`, by an injection the other way).

TLC checked every one of these invariants before it was proved, and the mutants
in `PROJECT.json` show that each property fails when the code is changed the way
a plausible bug would.

Only model-checked:

* `CleanupReclaims`, `EveryoneIsGreeted`: liveness is outside what the prover does.
* The three sentences of section 5 are refuted by TLC, on small instances.

## 7. What is not modelled

* **Names**: role names and their uniqueness, slugs, plans, descriptions, profile
  fields (all that `PATCH /users/me` changes), the search text of a listing. A name
  decides which error is answered, except for global roles (section 5).
* **RolesGuard**: no handler carries `@Roles`, so it lets everything pass.
* **Counts**: `total` and `totalPages` of the listings. The listings of
  organizations and of the audit log page in the same way as that of users.
* **Storage**: four calls of the MinIO client, and a check for the bucket at the
  start that nothing waits for and nothing repeats. The service keeps no state of its
  own; what an upload does before the bucket exists is up to the store.
* **Audit**: no code emits `audit.log`.
* **The mail of a forgotten password**: the handler sends, or logs that it could not.
* **Google OAuth, bcrypt, JWT signatures, Passport, throttling, validation,
  health, configuration, filters**: libraries, or without state of their own.
  bcrypt and signatures are taken to be exact.
* **The seed**: what its first run leaves, complete or cut short, is the initial state of
  Tenancy. It is no transaction: a
  second run after one that died between the super admin and its role (102-117) finds
  the user and gives it no role.
* **More than one process**: the lockout map, the cache and the rooms are one each,
  as in the deployment the repository describes.

## 8. Plan

The order is by how much depends on it.

1. *Done.* Sessions with RefreshLineage; Recovery over it; Lockout; Tenancy with
   Memberships; Access over Memberships; Delivery over Access; Users; Clients; their
   invariants and the theorems above; and, for each of the three claims that fail, the
   statement that holds in its place, proved (section 5).
2. **Names of roles** in Tenancy: creation with the lookup by name, the unique key
   with its null, the lookup of `org_admin` in register.
3. **The seed** over a half-seeded database, as a further kind of step of Tenancy.
4. **Accounts and locks**: Lockout is by email, Users may change one; the composition
   would bound the guesses against an account rather than an email.

The set of runs stays as small as the questions are: a module that joins the
project joins the run of the component it composes with, where the state space
allows it.
