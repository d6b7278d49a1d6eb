--------------------------- MODULE RecoveryProofs ---------------------------
(* Theorems about Recovery.  Recovery is Sessions with further variables:  *)
(* it implements Sessions, so what SessionsProofs says of Spec is true of  *)
(* RecoverySpec.                                                           *)
EXTENDS Recovery, SessionsProofs, FiniteSetTheorems

\* Every step is a step of Sessions or leaves its variables alone.
LEMMA SessionsSeen ==
    ASSUME RecoveryInv, [SessionStep \/ RecoveryStep]_allVars
    PROVE  [Next]_vars
<1>1. ASSUME NEW w \in Worker, PurgeReset(w) PROVE Next
  BY <1>1 DEF PurgeReset, Next, RecoveryInv, WorkersAreSound
<1> QED
  BY <1>1 DEF SessionStep, RecoveryStep, ForgotPassword, LookupReset, CommitReset,
              AbortReset, allVars

LEMMA RecoveryInitInv == RecoveryInit => RecoveryInv
BY InitInv DEF RecoveryInit, RecoveryInv, RecoveryTypeOK, WorkersAreSound, StaleIsSound,
               ResetRevokes, Free

\* A session step never stores a row under a token handed out before.
LEMMA OldStayGone ==
    ASSUME SessionInv, [Next]_vars, \A t \in old : t \in Token /\ Issued(t),
           ResetRevokes, old' = old, done' = done
    PROVE  ResetRevokes' /\ \A t \in old' : Issued(t)'
<1>1. ASSUME NEW t \in old
      PROVE  Issued(t)' /\ (pair'[t].user \in done' => ~Stored(t)')
  <2>1. /\ pair'[t] = pair[t]
        /\ \/ refreshToken'[t] \in {refreshToken[t], None}
           \/ Stored(t) /\ refreshToken'[t] = AsUsed(refreshToken[t])
    BY IssuedTokenStep
  <2> QED BY <2>1 DEF ResetRevokes, Issued, Stored
<1> QED BY <1>1 DEF ResetRevokes

\* A request step changes one slot; only the storing of a token issues one,
\* and ends the request.
LEMMA OneSlotStep ==
    ASSUME SessionInv, NEW r \in Request, RequestStep(r)
    PROVE  /\ \A s \in Request \ {r} : request'[s] = request[s]
           /\ \A t \in Token : ~Issued(t) /\ Issued(t)' =>
                  /\ request[r].pc = "issue" /\ request[r] # Idle
                  /\ pair'[t].user = request[r].user
<1> USE DEF SessionInv, TypeOK
<1>1. ASSUME NEW t \in Token, StoreRefreshToken(r, t)
      PROVE  \A s \in Token : ~Issued(s) /\ Issued(s)' =>
                 /\ request[r].pc = "issue" /\ request[r] # Idle
                 /\ pair'[s].user = request[r].user
  BY <1>1 DEF StoreRefreshToken, Issued, Idle
<1>2. \A s \in Request \ {r} : request'[s] = request[s]
  BY DEF RequestStep, Register, SignIn, FindRefreshToken, SwitchOrganization,
         StoreRefreshToken, RecheckUsed, TerminateSessions, MarkUsed,
         ValidateUserById, Abort, Start, Goto, End
<1>3. CASE pair' = pair
  BY <1>2, <1>3 DEF Issued
<1>4. CASE \E t \in Token : StoreRefreshToken(r, t)
  BY <1>1, <1>2, <1>4
<1> QED
  BY <1>3, <1>4 DEF RequestStep, Register, SignIn, FindRefreshToken,
     SwitchOrganization, RecheckUsed, TerminateSessions, MarkUsed,
     ValidateUserById, Abort

\* What is handed out stays so.
LEMMA IssuedStays ==
    ASSUME SessionInv, [Next]_vars, NEW t \in Token, Issued(t)
    PROVE  Issued(t)'
BY IssuedTokenStep DEF Issued

LEMMA StaleStep ==
    ASSUME RecoveryInv, SessionInv, SessionStep
    PROVE  StaleIsSound'
<1>0. /\ StaleIsSound /\ stale \in SUBSET (Token \cup Request) /\ TypeOK
  BY DEF RecoveryInv, RecoveryTypeOK, SessionInv
<1>1. ASSUME NEW t \in stale' \cap Token
      PROVE  Issued(t)'
  <2>1. t \notin Request
    BY RecoveryAssumption
  <2>2. t \in stale \/ Issued(t)'
    BY <2>1 DEF SessionStep
  <2> QED BY <1>0, <2>2, IssuedStays DEF SessionStep, StaleIsSound
<1>2. ASSUME NEW r \in stale' \cap Request
      PROVE  request'[r] # Idle
  <2>1. r \notin Token /\ None \notin stale
    BY <1>0, RecoveryAssumption, SessionAssumption
  <2>2. request'[r] # Idle \/ request'[r].token \in stale
    BY <2>1 DEF SessionStep
  <2> QED BY <2>1, <2>2 DEF Idle
<1> QED BY <1>1, <1>2 DEF StaleIsSound

LEMMA RecoveryNextInv ==
    ASSUME RecoveryInv, [SessionStep \/ RecoveryStep]_allVars
    PROVE  RecoveryInv'
<1>0. /\ SessionInv /\ TypeOK /\ RecoveryTypeOK /\ WorkersAreSound /\ ResetRevokes
      /\ StaleIsSound
      /\ \A t \in old : t \in Token /\ Issued(t)
  BY DEF RecoveryInv, RecoveryTypeOK, SessionInv
<1>step. [Next]_vars
  BY SessionsSeen
<1>inv. SessionInv'
  BY <1>0, <1>step, NextInv
\* A step that leaves the stale and the tables of sessions as they are.
<1>kept. ASSUME UNCHANGED <<pair, request, stale>>
         PROVE  StaleIsSound'
  BY <1>0, <1>kept DEF StaleIsSound, Issued
<1>1. CASE SessionStep
  <2>1. RecoveryTypeOK' /\ WorkersAreSound'
    BY <1>0, <1>1 DEF SessionStep, RecoveryTypeOK, WorkersAreSound
  <2>2. StaleIsSound'
    BY <1>0, <1>1, StaleStep
  <2> QED BY <1>0, <1>1, <1>step, <1>inv, <2>1, <2>2, OldStayGone
          DEF SessionStep, RecoveryInv
<1>2. ASSUME NEW u \in User, NEW x \in Link, ForgotPassword(u, x)
      PROVE  RecoveryInv'
  <2>1. now + LinkTtl \in Nat /\ now \in Nat
    BY <1>0, RecoveryAssumption DEF TypeOK
  <2> DEFINE row == [userId |-> u, used |-> FALSE, createdAt |-> now,
                     expiresAt |-> now + LinkTtl]
  <2>2. row \in ResetRow /\ row # None
    <3>1. row \in ResetRow
      BY <2>1 DEF ResetRow
    <3> QED BY <3>1, NoneIsNoReset
  <2>3. passwordReset' = [passwordReset EXCEPT ![x] = row]
    BY <1>2 DEF ForgotPassword
  <2> HIDE DEF row
  <2>4. RecoveryTypeOK' /\ WorkersAreSound'
    BY <1>0, <1>2, <2>2, <2>3 DEF ForgotPassword, RecoveryTypeOK, WorkersAreSound,
         history, ResetRow
  <2> QED BY <1>0, <1>2, <1>step, <1>inv, <1>kept, <2>4, OldStayGone
          DEF ForgotPassword, RecoveryInv, vars, history
<1>3. ASSUME NEW w \in Worker, NEW u \in User, NEW x \in Link, LookupReset(w, u, x)
      PROVE  RecoveryInv'
  <2>1. passwordReset[x] # None /\ passwordReset[x].userId = u
    BY <1>3 DEF LookupReset, Windows, Eligible
  <2>2. RecoveryTypeOK' /\ WorkersAreSound'
    BY <1>0, <1>3, <2>1 DEF LookupReset, RecoveryTypeOK, WorkersAreSound, history
  <2> QED BY <1>0, <1>3, <1>step, <1>inv, <1>kept, <2>2, OldStayGone
          DEF LookupReset, RecoveryInv, vars, history
<1>4. ASSUME NEW w \in Worker, CommitReset(w)
      PROVE  RecoveryInv'
  <2>1. /\ worker[w].user \in User /\ worker[w].link \in Link
        /\ passwordReset[worker[w].link] \in ResetRow
    BY <1>0, <1>4 DEF CommitReset, WorkersAreSound, RecoveryTypeOK
  <2>2. /\ passwordReset' = [passwordReset EXCEPT ![worker[w].link].used = TRUE]
        /\ worker' = [worker EXCEPT ![w].pc = "purge"]
        /\ old' = old \cup TokensOf(worker[w].user)
        /\ done' = done \ {worker[w].user}
        /\ resets' = [resets EXCEPT ![worker[w].link] = @ + 1]
        /\ UNCHANGED vars
    BY <1>4 DEF CommitReset
  <2> DEFINE used == [passwordReset[worker[w].link] EXCEPT !.used = TRUE]
  <2>3. /\ used \in ResetRow /\ used # None
        /\ used.used /\ used.userId = passwordReset[worker[w].link].userId
        /\ passwordReset' = [passwordReset EXCEPT ![worker[w].link] = used]
    <3>1. /\ used \in ResetRow
          /\ used.used /\ used.userId = passwordReset[worker[w].link].userId
      BY <2>1 DEF ResetRow
    <3>2. passwordReset' = [passwordReset EXCEPT ![worker[w].link] = used]
      BY <1>0, <2>1, <2>2 DEF RecoveryTypeOK
    <3> QED BY <3>1, <3>2, NoneIsNoReset
  <2> HIDE DEF used
  <2>4. RecoveryTypeOK'
    <3>1. passwordReset' \in [Link -> ResetRow \cup {None}]
      BY <1>0, <2>1, <2>3 DEF RecoveryTypeOK
    <3>2. resets' \in [Link -> Nat]
      BY <1>0, <2>1, <2>2 DEF RecoveryTypeOK
    <3> QED BY <1>0, <1>4, <2>2, <3>1, <3>2 DEF CommitReset, RecoveryTypeOK, TokensOf
  <2>5. WorkersAreSound'
    <3>1. \A x \in Link : passwordReset[x] # None =>
              /\ passwordReset'[x] # None
              /\ passwordReset'[x].userId = passwordReset[x].userId
              /\ passwordReset[x].used => passwordReset'[x].used
      BY <1>0, <2>1, <2>3 DEF RecoveryTypeOK
    <3>2. \A v \in Worker : /\ worker'[v].user = worker[v].user
                            /\ worker'[v].link = worker[v].link
                            /\ worker'[v].pc # "idle" => worker[v].pc # "idle"
      BY <1>0, <1>4, <2>2 DEF CommitReset, RecoveryTypeOK
    <3>3. \A x \in Link : resets'[x] > 0 =>
              passwordReset'[x] # None /\ passwordReset'[x].used
      <4>1. passwordReset'[worker[w].link] = used
        BY <1>0, <2>1, <2>3 DEF RecoveryTypeOK
      <4>2. \A x \in Link \ {worker[w].link} : resets'[x] = resets[x]
        BY <1>0, <2>2 DEF RecoveryTypeOK
      <4> QED BY <1>0, <2>3, <3>1, <4>1, <4>2 DEF WorkersAreSound
    <3> QED BY <1>0, <3>1, <3>2, <3>3 DEF WorkersAreSound
  <2>6. ResetRevokes' /\ \A t \in old' : Issued(t)'
    BY <1>0, <2>2 DEF ResetRevokes, TokensOf, Issued, Stored, vars
  <2>7. StaleIsSound'
    <3>1. stale' = stale \cup TokensOf(worker[w].user)
                        \cup {r \in Request : request[r].user = worker[w].user}
      BY <1>4 DEF CommitReset
    <3>2. UNCHANGED <<pair, request>>
      BY <2>2 DEF vars
    <3>3. \A t \in stale' \cap Token : Issued(t)'
      BY <1>0, <3>1, <3>2, RecoveryAssumption DEF StaleIsSound, TokensOf, Issued
    <3>4. \A r \in stale' \cap Request : request'[r] # Idle
      BY <1>0, <2>1, <3>1, <3>2, RecoveryAssumption, SessionAssumption
         DEF StaleIsSound, TokensOf, Idle
    <3> QED BY <3>3, <3>4 DEF StaleIsSound
  <2> QED BY <1>inv, <2>4, <2>5, <2>6, <2>7 DEF RecoveryInv
<1>5. ASSUME NEW w \in Worker, PurgeReset(w)
      PROVE  RecoveryInv'
  <2>1. worker[w].user \in User
    BY <1>0, <1>5 DEF PurgeReset, WorkersAreSound
  <2>2. RecoveryTypeOK' /\ WorkersAreSound'
    BY <1>0, <1>5, <2>1 DEF PurgeReset, RecoveryTypeOK, WorkersAreSound, Free
  <2>3. ResetRevokes' /\ \A t \in old' : Issued(t)'
    BY <1>0, <1>5 DEF PurgeReset, PurgeSessions, WithoutUser, ResetRevokes, Issued,
                      Stored, SessionInv, RowsAreIssued
  <2>4. StaleIsSound'
    BY <1>5, <1>kept DEF PurgeReset, PurgeSessions
  <2> QED BY <1>inv, <2>2, <2>3, <2>4 DEF RecoveryInv
<1>6. ASSUME NEW w \in Worker, AbortReset(w)
      PROVE  RecoveryInv'
  <2>1. RecoveryTypeOK' /\ WorkersAreSound'
    BY <1>0, <1>6 DEF AbortReset, RecoveryTypeOK, WorkersAreSound, Free, history
  <2> QED BY <1>0, <1>6, <1>step, <1>inv, <1>kept, <2>1, OldStayGone
          DEF AbortReset, RecoveryInv, vars, history
<1>7. CASE UNCHANGED allVars
  <2>1. RecoveryTypeOK' /\ WorkersAreSound'
    BY <1>0, <1>7 DEF allVars, recoveryVars, history, RecoveryTypeOK, WorkersAreSound
  <2> QED BY <1>0, <1>7, <1>step, <1>inv, <1>kept, <2>1, OldStayGone
          DEF allVars, recoveryVars, history, vars, RecoveryInv
<1> QED BY <1>1, <1>2, <1>3, <1>4, <1>5, <1>6, <1>7 DEF RecoveryStep
-----------------------------------------------------------------------------
(* Every reset that ran to its end has ended the sessions handed out before *)
(* it committed, for any number of accounts, links and concurrent resets.   *)
THEOREM RecoveryInvariant == RecoverySpec => []RecoveryInv
BY RecoveryInitInv, RecoveryNextInv, PTL DEF RecoverySpec

THEOREM ResetTheorem == RecoverySpec => []ResetRevokes
<1>1. RecoveryInv => ResetRevokes
  BY DEF RecoveryInv
<1> QED BY <1>1, RecoveryInvariant, PTL

\* A recovery is Sessions running on: what is proved of Spec is true here.
LEMMA RecoveryImplementsSessions == RecoverySpec => Spec
<1>1. RecoveryInit => Init
  BY DEF RecoveryInit
<1> QED BY <1>1, SessionsSeen, RecoveryInvariant, PTL DEF RecoverySpec, Spec

(* The link of the latest mail is among those that are compared, for any    *)
(* number of older ones and any window (auth.service.ts 471-487): what      *)
(* `take' leaves out is never newer than what it lets in.                   *)
THEOREM LatestLinkTheorem == RecoverySpec => []LatestLinkIsFound
<1>1. ASSUME RecoveryInv PROVE LatestLinkIsFound
  <2> SUFFICES ASSUME NEW u \in User, NEW x \in Link, Eligible(x, u),
                      \A y \in Link \ {x} : Eligible(y, u) =>
                          passwordReset[y].createdAt < passwordReset[x].createdAt,
                      NEW W \in Windows(u), x \notin W
               PROVE  FALSE
    BY DEF LatestLinkIsFound
  <2>1. W # {}
    <3>1. Cardinality(W) = ResetWindow
      BY DEF Windows
    <3> QED BY <3>1, RecoveryAssumption, FS_EmptySet
  <2>2. PICK y \in W : TRUE
    BY <2>1
  <2>3. /\ y \in Link /\ Eligible(y, u) /\ y # x
        /\ passwordReset[y].createdAt >= passwordReset[x].createdAt
    BY DEF Windows, InOrder
  <2>4. passwordReset[x].createdAt \in Nat /\ passwordReset[y].createdAt \in Nat
    BY <1>1, <2>3 DEF RecoveryInv, RecoveryTypeOK, ResetRow, Eligible
  <2> QED BY <2>3, <2>4
<1> QED BY <1>1, RecoveryInvariant, PTL

-----------------------------------------------------------------------------
(* What a link is good for: the resets it was used for, and the requests    *)
(* that hold it.  A step adds one to the first and takes one of the second, *)
(* or leaves the first alone; a request joins the second only if it finds   *)
(* the link unused.                                                         *)
LEMMA UsesStep ==
    ASSUME RecoveryInv, SessionStep \/ RecoveryStep, NEW x \in Link, resets[x] > 0
    PROVE  \/ resets'[x] = resets[x] /\ Pending(x)' \subseteq Pending(x)
           \/ /\ resets'[x] = resets[x] + 1
              /\ \E w \in Pending(x) : Pending(x)' \subseteq Pending(x) \ {w}
<1>0. /\ worker \in [Worker -> [pc : {"idle", "commit", "purge"},
                                user : User \cup {None}, link : Link \cup {None}]]
      /\ resets \in [Link -> Nat] /\ WorkersAreSound
  BY DEF RecoveryInv, RecoveryTypeOK
<1>1. ASSUME NEW w \in Worker, NEW u \in User, NEW y \in Link, LookupReset(w, u, y)
      PROVE  resets'[x] = resets[x] /\ Pending(x)' \subseteq Pending(x)
  <2>1. y # x
    BY <1>0, <1>1 DEF LookupReset, Windows, Eligible, WorkersAreSound
  <2>2. worker'[w].link = y /\ \A v \in Worker \ {w} : worker'[v] = worker[v]
    BY <1>0, <1>1 DEF LookupReset
  <2> QED BY <1>1, <2>1, <2>2 DEF LookupReset, Pending, history
<1>2. ASSUME NEW w \in Worker, worker' = [worker EXCEPT ![w] = Free], resets' = resets
      PROVE  resets'[x] = resets[x] /\ Pending(x)' \subseteq Pending(x)
  BY <1>0, <1>2 DEF Free, Pending
<1>3. ASSUME NEW w \in Worker, CommitReset(w)
      PROVE  \/ resets'[x] = resets[x] /\ Pending(x)' \subseteq Pending(x)
             \/ /\ resets'[x] = resets[x] + 1
                /\ \E v \in Pending(x) : Pending(x)' \subseteq Pending(x) \ {v}
  <2>1. /\ worker[w].pc = "commit" /\ worker[w].link \in Link
        /\ worker' = [worker EXCEPT ![w].pc = "purge"]
        /\ resets' = [resets EXCEPT ![worker[w].link] = @ + 1]
    BY <1>0, <1>3 DEF CommitReset, WorkersAreSound
  <2>2. worker'[w].pc = "purge" /\ \A v \in Worker \ {w} : worker'[v] = worker[v]
    BY <1>0, <2>1
  <2>3. Pending(x)' \subseteq Pending(x) \ {w}
    BY <2>2 DEF Pending
  <2>4. CASE worker[w].link = x
    <3>1. w \in Pending(x) /\ resets'[x] = resets[x] + 1
      BY <1>0, <2>1, <2>4 DEF Pending
    <3> QED BY <2>3, <3>1
  <2>5. CASE worker[w].link # x
    BY <1>0, <2>1, <2>3, <2>5
  <2> QED BY <2>4, <2>5
<1>4. CASE resets' = resets /\ worker' = worker
  BY <1>4 DEF Pending
<1> QED BY <1>1, <1>2, <1>3, <1>4
        DEF SessionStep, RecoveryStep, ForgotPassword, PurgeReset, AbortReset, history

LEMMA UsesFall ==
    ASSUME IsFiniteSet(Worker),
           RecoveryInv, SessionStep \/ RecoveryStep, NEW x \in Link, resets[x] > 0
    PROVE  Uses(x)' <= Uses(x)
<1>1. resets[x] \in Nat /\ IsFiniteSet(Pending(x))
  BY FS_Subset DEF RecoveryInv, RecoveryTypeOK, Pending
<1>2. Cardinality(Pending(x)) \in Nat
  BY <1>1, FS_CardinalityType
<1>3. CASE resets'[x] = resets[x] /\ Pending(x)' \subseteq Pending(x)
  <2>1. Cardinality(Pending(x)') <= Cardinality(Pending(x))
    BY <1>1, <1>3, FS_Subset
  <2>2. Cardinality(Pending(x)') \in Nat
    BY <1>1, <1>3, FS_Subset, FS_CardinalityType
  <2> QED BY <1>1, <1>2, <1>3, <2>1, <2>2 DEF Uses
<1>4. ASSUME resets'[x] = resets[x] + 1,
             NEW w \in Pending(x), Pending(x)' \subseteq Pending(x) \ {w}
      PROVE  Uses(x)' <= Uses(x)
  <2>1. /\ IsFiniteSet(Pending(x) \ {w})
        /\ Cardinality(Pending(x) \ {w}) = Cardinality(Pending(x)) - 1
    BY <1>1, FS_RemoveElement
  <2>2. Cardinality(Pending(x)') <= Cardinality(Pending(x) \ {w})
    BY <1>4, <2>1, FS_Subset
  <2>3. Cardinality(Pending(x)') \in Nat
    BY <1>4, <2>1, FS_Subset, FS_CardinalityType
  <2> QED BY <1>1, <1>2, <1>4, <2>1, <2>2, <2>3 DEF Uses
<1> QED BY <1>3, <1>4, UsesStep

(* After a link has set a password, only the requests that had found it     *)
(* before may set another with it: for any number of links and of requests. *)
THEOREM LinksTheorem ==
    ASSUME IsFiniteSet(Worker)
    PROVE  RecoverySpec => LinksClose
<1>1. RecoveryInv /\ [SessionStep \/ RecoveryStep]_allVars
        => [\A x \in Link : resets[x] > 0 => Uses(x)' <= Uses(x)]_allVars
  BY UsesFall
<1> QED BY <1>1, RecoveryInvariant, PTL DEF RecoverySpec, LinksClose

\* Before its first reset a link is good for as many as there are requests.
LinksAreBounded == \A x \in Link : Uses(x) <= Cardinality(Worker)

LEMMA PendingBound ==
    ASSUME IsFiniteSet(Worker), NEW x \in Link
    PROVE  /\ Cardinality(Pending(x)) \in Nat /\ Cardinality(Worker) \in Nat
           /\ Cardinality(Pending(x)) <= Cardinality(Worker)
BY FS_Subset, FS_CardinalityType DEF Pending

\* The first reset with a link is by a request that held it.
LEMMA FirstReset ==
    ASSUME RecoveryInv, SessionStep \/ RecoveryStep, NEW x \in Link,
           resets[x] = 0, resets'[x] # 0
    PROVE  resets'[x] = 1 /\ \E w \in Worker \ Pending(x)' : TRUE
<1>0. /\ worker \in [Worker -> [pc : {"idle", "commit", "purge"},
                                user : User \cup {None}, link : Link \cup {None}]]
      /\ resets \in [Link -> Nat] /\ WorkersAreSound
  BY DEF RecoveryInv, RecoveryTypeOK
<1>1. PICK w \in Worker : CommitReset(w)
  <2>1. resets' # resets
    OBVIOUS
  <2> QED BY <2>1 DEF SessionStep, RecoveryStep, ForgotPassword, LookupReset,
                      PurgeReset, AbortReset, history
<1>2. resets'[x] = 1 /\ worker'[w].pc = "purge"
  BY <1>0, <1>1 DEF CommitReset, WorkersAreSound
<1> QED BY <1>2 DEF Pending

LEMMA LinksBound ==
    ASSUME IsFiniteSet(Worker)
    PROVE  RecoverySpec => []LinksAreBounded
<1>1. RecoveryInit => LinksAreBounded
  BY PendingBound DEF RecoveryInit, LinksAreBounded, Uses
<1>2. RecoveryInv /\ LinksAreBounded /\ [SessionStep \/ RecoveryStep]_allVars
        => LinksAreBounded'
  <2> SUFFICES ASSUME RecoveryInv, LinksAreBounded,
                      [SessionStep \/ RecoveryStep]_allVars, NEW x \in Link
               PROVE  Uses(x)' <= Cardinality(Worker)
    BY DEF LinksAreBounded
  <2>0. /\ resets[x] \in Nat /\ Uses(x) <= Cardinality(Worker)
        /\ Cardinality(Pending(x)) \in Nat /\ Cardinality(Worker) \in Nat
    BY PendingBound DEF RecoveryInv, RecoveryTypeOK, LinksAreBounded
  <2>1. /\ Pending(x)' \subseteq Worker /\ IsFiniteSet(Pending(x)')
        /\ Cardinality(Pending(x)') \in Nat
        /\ Cardinality(Pending(x)') <= Cardinality(Worker)
    <3>1. Pending(x)' \subseteq Worker
      BY DEF Pending
    <3> QED BY <3>1, FS_Subset, FS_CardinalityType
  <2>2. CASE UNCHANGED allVars
    BY <2>0, <2>2 DEF allVars, recoveryVars, history, Uses, Pending
  <2>3. CASE (SessionStep \/ RecoveryStep) /\ resets[x] > 0
    <3>1. Uses(x)' <= Uses(x)
      BY <2>3, UsesFall
    <3>2. resets'[x] \in Nat
      BY <2>0, <2>3, UsesStep
    <3> QED BY <2>0, <2>1, <3>1, <3>2 DEF Uses
  <2>4. CASE (SessionStep \/ RecoveryStep) /\ resets[x] = 0
    <3>1. CASE resets'[x] = 0
      BY <2>0, <2>1, <3>1 DEF Uses
    <3>2. CASE resets'[x] # 0
      <4>1. resets'[x] = 1 /\ \E w \in Worker \ Pending(x)' : TRUE
        BY <2>4, <3>2, FirstReset
      <4>2. PICK w \in Worker : w \notin Pending(x)'
        BY <4>1
      <4>3. /\ IsFiniteSet(Worker \ {w})
            /\ Cardinality(Worker \ {w}) = Cardinality(Worker) - 1
        BY <4>2, FS_RemoveElement
      <4>4. Cardinality(Pending(x)') <= Cardinality(Worker \ {w})
        BY <2>1, <4>2, <4>3, FS_Subset
      <4> QED BY <2>0, <2>1, <4>1, <4>3, <4>4 DEF Uses
    <3> QED BY <3>1, <3>2
  <2> QED BY <2>0, <2>2, <2>3, <2>4
<1> QED BY <1>1, <1>2, RecoveryInvariant, PTL DEF RecoverySpec

(* One link sets one password as long as resets do not overlap; and, with   *)
(* any number of them in flight, no link sets more than that number.        *)
THEOREM LinkCountTheorem ==
    ASSUME IsFiniteSet(Worker)
    PROVE  RecoverySpec => [](\A x \in Link : resets[x] <= Cardinality(Worker))
<1>1. RecoveryInv /\ LinksAreBounded => \A x \in Link : resets[x] <= Cardinality(Worker)
  <2> SUFFICES ASSUME RecoveryInv, LinksAreBounded, NEW x \in Link
               PROVE  resets[x] <= Cardinality(Worker)
    OBVIOUS
  <2>1. resets[x] \in Nat /\ Uses(x) <= Cardinality(Worker)
    BY DEF RecoveryInv, RecoveryTypeOK, LinksAreBounded
  <2> QED BY <2>1, PendingBound DEF Uses
<1>2. RecoverySpec => []LinksAreBounded
  BY LinksBound
<1> QED BY <1>1, <1>2, RecoveryInvariant, PTL
-----------------------------------------------------------------------------
\* A request under way starts nothing; one that starts from a token starts from
\* one that can still open a session.
LEMMA OwnSlotStep ==
    ASSUME SessionInv, NEW r \in Request, RequestStep(r),
           request'[r].pc \in {"mark", "validate", "issue"}
    PROVE  \/ /\ request[r] # Idle
              /\ request'[r].user = request[r].user
              /\ request[r].pc \in {"mark", "validate", "issue"}
           \/ /\ request[r] = Idle
              /\ \/ request'[r].token = None
                 \/ /\ request'[r].token \in Token
                    /\ request'[r].user = pair[request'[r].token].user
                    /\ Live(request'[r].token) \/ AccessValid(request'[r].token)
<1> USE DEF SessionInv, TypeOK
<1>1. ASSUME NEW u \in User, Register(r, u) \/ SignIn(r, u)
      PROVE  request[r] = Idle /\ request'[r].token = None
  BY <1>1 DEF Register, SignIn, Start
<1>2. ASSUME NEW t \in Token, FindRefreshToken(r, t)
      PROVE  /\ request[r] = Idle /\ request'[r].token = t
             /\ request'[r].user = pair[t].user /\ Live(t)
  <2>1. Stored(t) /\ Start(r, "refresh", IF Live(t) THEN "mark" ELSE "recheck",
                           refreshToken[t].userId, t)
    BY <1>2 DEF FindRefreshToken
  <2>2. request[r] = Idle /\ request'[r].token = t
        /\ request'[r].user = refreshToken[t].userId /\ Live(t)
    BY <2>1 DEF Start
  <2> QED BY <2>1, <2>2 DEF RowsAreIssued
<1>3. ASSUME NEW t \in Token, SwitchOrganization(r, t)
      PROVE  /\ request[r] = Idle /\ request'[r].token = t
             /\ request'[r].user = pair[t].user /\ AccessValid(t)
  BY <1>3 DEF SwitchOrganization, Start
<1>4. ASSUME NEW t \in Token, StoreRefreshToken(r, t)
      PROVE  FALSE
  BY <1>4 DEF StoreRefreshToken, End, Idle
<1>5. ASSUME RecheckUsed(r) \/ TerminateSessions(r) \/ Abort(r)
      PROVE  FALSE
  BY <1>5 DEF RecheckUsed, TerminateSessions, Abort, Goto, End, Idle, Slot
<1>6. ASSUME MarkUsed(r) \/ ValidateUserById(r)
      PROVE  /\ request[r] # Idle /\ request'[r].user = request[r].user
             /\ request[r].pc \in {"mark", "validate", "issue"}
  <2>1. request[r].pc \in {"mark", "validate"}
    BY <1>6 DEF MarkUsed, ValidateUserById
  <2>2. ~End(r)
    BY DEF End, Idle
  <2>3. Goto(r, "validate") \/ Goto(r, "issue")
    BY <1>6, <2>2 DEF MarkUsed, ValidateUserById
  <2>4. request'[r].user = request[r].user
    BY <2>3 DEF Goto, Slot
  <2> QED BY <2>1, <2>4 DEF Idle
<1> QED BY <1>1, <1>2, <1>3, <1>4, <1>5, <1>6 DEF RequestStep

LEMMA ValidBefore ==
    ASSUME SessionInv, [Next]_vars, NEW t \in Token, Issued(t), AccessValid(t)'
    PROVE  AccessValid(t)
<1>1. now' \in Nat /\ now <= now' /\ pair'[t] = pair[t]
  BY IssuedTokenStep
<1>2. now \in Nat /\ pair[t].accessExp \in Nat
  BY DEF SessionInv, TypeOK, Issued, Pair
<1> QED BY <1>1, <1>2 DEF AccessValid, Issued

\* A session step leaves who has no foothold without one.
LEMMA FootholdSessions ==
    ASSUME RecoveryInv, SessionStep, NEW u \in User, Foothold(u) = {}
    PROVE  Foothold(u)' = {}
<1>0. /\ SessionInv /\ [Next]_vars /\ StaleIsSound
      /\ stale \in SUBSET (Token \cup Request) /\ None \notin stale
  BY RecoveryAssumption, SessionAssumption
     DEF RecoveryInv, RecoveryTypeOK, SessionStep
<1>1. ASSUME NEW t \in stale' \cap Token, pair'[t].user = u,
             Live(t)' \/ AccessValid(t)'
      PROVE  FALSE
  <2>1. CASE t \in stale
    <3>1. Issued(t) /\ pair'[t] = pair[t]
      BY <1>0, <2>1, IssuedTokenStep DEF StaleIsSound
    <3>2. Live(t) \/ AccessValid(t)
      BY <1>0, <1>1, <3>1, EndedStaysEnded, ValidBefore
    <3> QED BY <1>1, <2>1, <3>1, <3>2 DEF Foothold
  <2>2. CASE t \notin stale
    <3>1. t \notin Request
      BY RecoveryAssumption
    <3>2. /\ ~Issued(t) /\ Issued(t)'
          /\ \E r \in Request \cap stale : request[r] # Idle /\ request'[r] = Idle
      BY <2>2, <3>1 DEF SessionStep
    <3>3. PICK r \in Request \cap stale : request[r] # Idle /\ request'[r] = Idle
      BY <3>2
    <3>4. PICK q \in Request : RequestStep(q)
      <4>1. request' # request
        BY <3>3
      <4> QED BY <4>1 DEF SessionStep, Next, Logout, LogoutAll, PurgeSessions,
                 UpdateStatus, CleanupExpiredRefreshTokens, Tick
    <3>5. r = q /\ request[q].pc = "issue" /\ pair'[t].user = request[q].user
      BY <1>0, <3>2, <3>3, <3>4, OneSlotStep
    <3> QED BY <1>1, <3>3, <3>5 DEF Foothold
  <2> QED BY <2>1, <2>2
<1>2. ASSUME NEW r \in stale' \cap Request, request'[r].user = u,
             request'[r].pc \in {"mark", "validate", "issue"}
      PROVE  FALSE
  <2>1. r \notin Token
    BY RecoveryAssumption
  <2>2. \/ r \in stale
        \/ request[r] = Idle /\ request'[r].token \in stale
    BY <2>1 DEF SessionStep
  <2>3. r \in stale => request[r] # Idle
    BY <1>0 DEF StaleIsSound
  <2>4. CASE request'[r] = request[r]
    <3>1. request[r] # Idle
      BY <1>2, <2>4 DEF Idle
    <3> QED BY <1>2, <2>2, <2>4, <3>1 DEF Foothold
  <2>5. CASE request'[r] # request[r]
    <3>1. PICK q \in Request : RequestStep(q)
      <4>1. request' # request
        BY <2>5
      <4> QED BY <4>1 DEF SessionStep, Next, Logout, LogoutAll, PurgeSessions,
                 UpdateStatus, CleanupExpiredRefreshTokens, Tick
    <3>2. q = r
      BY <1>0, <2>5, <3>1, OneSlotStep
    <3>3. CASE r \in stale
      <4>1. /\ request'[r].user = request[r].user
            /\ request[r].pc \in {"mark", "validate", "issue"}
        BY <1>0, <1>2, <2>3, <3>1, <3>2, <3>3, OwnSlotStep
      <4> QED BY <1>2, <3>3, <4>1 DEF Foothold
    <3>4. CASE request[r] = Idle /\ request'[r].token \in stale
      <4> DEFINE t == request'[r].token
      <4>1. /\ t \in Token /\ pair[t].user = u
            /\ Live(t) \/ AccessValid(t)
        BY <1>0, <1>2, <3>1, <3>2, <3>4, OwnSlotStep
      <4> QED BY <3>4, <4>1 DEF Foothold
    <3> QED BY <2>2, <3>3, <3>4
  <2> QED BY <2>4, <2>5
<1> QED BY <1>1, <1>2 DEF Foothold

(* Whoever has nothing left from before a reset, no session, no access     *)
(* token and no request, never again has anything that does not come from a *)
(* sign-in after it, even if the reset died before its purge: for any       *)
(* accounts, requests and resets at once.                                   *)
THEOREM ExpulsionTheorem == RecoverySpec => ExpulsionIsFinal
<1>1. RecoveryInv /\ [SessionStep \/ RecoveryStep]_allVars =>
        [\A u \in User : ~Resetting(u) /\ Foothold(u) = {} => Foothold(u)' = {}]_allVars
  <2> SUFFICES ASSUME RecoveryInv, SessionStep \/ RecoveryStep,
                      NEW u \in User, ~Resetting(u), Foothold(u) = {}
               PROVE  Foothold(u)' = {}
    OBVIOUS
  <2>0. /\ SessionInv /\ StaleIsSound /\ WorkersAreSound
        /\ resets \in [Link -> Nat]
    BY DEF RecoveryInv, RecoveryTypeOK
  <2>1. CASE SessionStep
    BY <2>0, <2>1, FootholdSessions
  <2>2. ASSUME NEW w \in Worker, CommitReset(w)
        PROVE  Foothold(u)' = {}
    <3>1. worker[w].user # u /\ UNCHANGED <<now, refreshToken, pair, request>>
      <4> DEFINE x == worker[w].link
      <4>1. /\ x \in Link /\ passwordReset[x] # None
            /\ passwordReset[x].userId = worker[w].user
        BY <2>0, <2>2 DEF CommitReset, WorkersAreSound
      <4>2. resets'[x] # resets[x] /\ UNCHANGED <<now, refreshToken, pair, request>>
        BY <2>0, <2>2, <4>1 DEF CommitReset, vars
      <4> QED BY <4>1, <4>2 DEF Resetting
    <3>2. stale' = stale \cup TokensOf(worker[w].user)
                        \cup {r \in Request : request[r].user = worker[w].user}
      BY <2>2 DEF CommitReset
    <3>3. \A t \in Token : (Live(t)' <=> Live(t)) /\ (AccessValid(t)' <=> AccessValid(t))
      BY <3>1 DEF Live, RefreshOutcome, Stored, Expired, AccessValid, Issued
    <3>4. \A t \in stale' \cap Token : pair[t].user = u => t \in stale
      BY <3>1, <3>2, RecoveryAssumption DEF TokensOf
    <3>5. \A r \in stale' \cap Request : request[r].user = u => r \in stale
      BY <3>1, <3>2, RecoveryAssumption DEF TokensOf
    <3> QED BY <3>1, <3>3, <3>4, <3>5 DEF Foothold
  <2>3. ASSUME NEW w \in Worker, PurgeReset(w)
        PROVE  Foothold(u)' = {}
    <3>1. UNCHANGED <<now, pair, request, stale>>
      BY <2>3 DEF PurgeReset, PurgeSessions
    <3>2. [Next]_vars
      BY SessionsSeen
    <3>3. \A t \in stale \cap Token : Live(t)' => Live(t)
      BY <2>0, <3>2, EndedStaysEnded DEF StaleIsSound
    <3>4. \A t \in Token : AccessValid(t)' <=> AccessValid(t)
      BY <3>1 DEF AccessValid, Issued
    <3> QED BY <3>1, <3>3, <3>4 DEF Foothold
  <2>4. CASE UNCHANGED <<vars, stale>>
    BY <2>4 DEF vars, Foothold, Live, RefreshOutcome, Stored, Expired, AccessValid,
                Issued
  <2> QED BY <2>1, <2>2, <2>3, <2>4 DEF RecoveryStep, ForgotPassword, LookupReset,
                                        AbortReset, history
<1> QED BY <1>1, RecoveryInvariant, PTL DEF RecoverySpec, ExpulsionIsFinal
=============================================================================
