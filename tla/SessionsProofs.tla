--------------------------- MODULE SessionsProofs ---------------------------
(* Theorems about Sessions, for every value of its constants: any number   *)
(* of accounts, tokens and requests in flight, any lifetimes.              *)
EXTENDS Sessions, FiniteSetTheorems, TLAPS

LEMMA InitInv == Init => SessionInv
BY SessionAssumption
DEF Init, SessionInv, TypeOK, RowsAreIssued, UsedMeansSpent, SpentWasIssued,
    ParentWasSpent, RequestsAreSound, Stored, Issued, Idle, Slot, Op, Pc
-----------------------------------------------------------------------------
\* The two rows the code writes.
LEMMA AsUsedRow ==
    ASSUME NEW row \in Row
    PROVE  /\ AsUsed(row) \in Row
           /\ AsUsed(row).isUsed
           /\ AsUsed(row).userId = row.userId
BY DEF AsUsed, Row

LEMMA NewRowRow ==
    ASSUME TypeOK, NEW u \in User
    PROVE  /\ NewRow(u) \in Row
           /\ NewRow(u) # None
           /\ NewRow(u).userId = u
           /\ ~NewRow(u).isUsed
<1>1. now + RefreshTtl \in Nat
  BY SessionAssumption DEF TypeOK
<1>2. NewRow(u) \in Row
  BY <1>1 DEF NewRow, Row
<1> QED BY <1>2, NoneIsNoRecord DEF NewRow
-----------------------------------------------------------------------------
(* A step has two halves: what it does to the requests and what it does to *)
(* the tables.  One lemma for each shape of either half.                   *)

\* What RequestsAreSound asks of one slot.
Sound(q) == /\ q.pc # "idle" => q.user \in User
            /\ q.pc \in {"mark", "recheck", "terminate"} =>
                   /\ q.op = "refresh"
                   /\ q.token \in Token
                   /\ Issued(q.token)
                   /\ pair[q.token].user = q.user
            /\ q.pc = "terminate" => q.token \in spent
            /\ q.op = "refresh" /\ q.pc \in {"validate", "issue"} =>
                   q.token \in spent

\* Tokens are only added to the issued, as they are, and to the spent.
HistoryGrows == /\ spent \subseteq spent'
                /\ \A t \in Token : Issued(t) => Issued(t)' /\ pair'[t] = pair[t]

LEMMA SlotsUnchanged ==
    ASSUME RequestsAreSound, HistoryGrows, UNCHANGED request
    PROVE  RequestsAreSound'
BY DEF RequestsAreSound, HistoryGrows

LEMMA SlotChanged ==
    ASSUME TypeOK, RequestsAreSound, HistoryGrows,
           NEW r \in Request, NEW q \in Slot, Sound(q)',
           request' = [request EXCEPT ![r] = q]
    PROVE  RequestsAreSound' /\ request' \in [Request -> Slot]
<1>1. request' \in [Request -> Slot]
  BY DEF TypeOK
<1>2. \A s \in Request : request'[s] = IF s = r THEN q ELSE request[s]
  BY DEF TypeOK
<1>3. RequestsAreSound'
  BY <1>2 DEF RequestsAreSound, HistoryGrows, Sound
<1> QED BY <1>1, <1>3

\* The four invariants of the tables.
Tables == RowsAreIssued /\ UsedMeansSpent /\ SpentWasIssued /\ ParentWasSpent

LEMMA TablesUnchanged ==
    ASSUME Tables, UNCHANGED <<refreshToken, pair, spent>>
    PROVE  Tables' /\ HistoryGrows
BY DEF Tables, RowsAreIssued, UsedMeansSpent, SpentWasIssued, ParentWasSpent,
       Stored, Issued, HistoryGrows

\* Rows may be dropped from the table, any of them.
LEMMA RowsDropped ==
    ASSUME TypeOK, Tables, UNCHANGED <<pair, spent>>,
           refreshToken' \in [Token -> Row \cup {None}],
           \A t \in Token : refreshToken'[t] \in {refreshToken[t], None}
    PROVE  Tables' /\ HistoryGrows
<1>1. \A t \in Token : Stored(t)' => Stored(t) /\ refreshToken'[t] = refreshToken[t]
  BY DEF Stored
<1>2. RowsAreIssued' /\ UsedMeansSpent'
  BY <1>1 DEF Tables, RowsAreIssued, UsedMeansSpent, Issued
<1>3. SpentWasIssued' /\ ParentWasSpent' /\ HistoryGrows
  BY DEF Tables, SpentWasIssued, ParentWasSpent, Issued, HistoryGrows
<1> QED BY <1>2, <1>3 DEF Tables
-----------------------------------------------------------------------------
LEMMA NextInv == SessionInv /\ [Next]_vars => SessionInv'
<1> SUFFICES ASSUME SessionInv, [Next]_vars PROVE SessionInv'
  OBVIOUS
<1> USE DEF SessionInv
<1>0. TypeOK /\ Tables /\ RequestsAreSound
  BY DEF Tables
<1> SUFFICES TypeOK' /\ Tables' /\ RequestsAreSound'
  BY DEF Tables
<1>idle. Idle \in Slot /\ Sound(Idle)'
  BY SessionAssumption DEF Idle, Slot, Op, Pc, Sound
<1>1. ASSUME NEW r \in Request, NEW u \in User, Register(r, u)
      PROVE  TypeOK' /\ Tables' /\ RequestsAreSound'
  <2> DEFINE q == [op |-> "signIn", pc |-> "issue", user |-> u, token |-> None]
  <2>1. q \in Slot /\ Sound(q)'
    BY DEF Slot, Op, Pc, Sound
  <2>2. Tables' /\ HistoryGrows
    BY <1>0, <1>1, TablesUnchanged DEF Register
  <2>3. RequestsAreSound' /\ request' \in [Request -> Slot]
    BY <1>0, <1>1, <2>1, <2>2, SlotChanged DEF Register, Start
  <2>4. TypeOK'
    BY <1>0, <1>1, <2>3 DEF Register, TypeOK
  <2> QED BY <2>2, <2>3, <2>4
<1>2. ASSUME NEW r \in Request, NEW u \in User, SignIn(r, u)
      PROVE  TypeOK' /\ Tables' /\ RequestsAreSound'
  <2> DEFINE q == [op |-> "signIn", pc |-> "issue", user |-> u, token |-> None]
  <2>1. q \in Slot /\ Sound(q)'
    BY DEF Slot, Op, Pc, Sound
  <2>2. Tables' /\ HistoryGrows
    BY <1>0, <1>2, TablesUnchanged DEF SignIn
  <2>3. RequestsAreSound' /\ request' \in [Request -> Slot]
    BY <1>0, <1>2, <2>1, <2>2, SlotChanged DEF SignIn, Start
  <2>4. TypeOK'
    BY <1>0, <1>2, <2>3 DEF SignIn, TypeOK
  <2> QED BY <2>2, <2>3, <2>4
<1>3. ASSUME NEW r \in Request, NEW t \in Token, FindRefreshToken(r, t)
      PROVE  TypeOK' /\ Tables' /\ RequestsAreSound'
  <2>0. PICK u : u = refreshToken[t].userId
    OBVIOUS
  <2>1. PICK pc \in {"mark", "recheck"} :
              request' = [request EXCEPT
                   ![r] = [op |-> "refresh", pc |-> pc, user |-> u, token |-> t]]
    BY <1>3, <2>0 DEF FindRefreshToken, Start
  <2> DEFINE q == [op |-> "refresh", pc |-> pc, user |-> u, token |-> t]
  <2>2. u \in User /\ Issued(t) /\ pair[t].user = u /\ pair' = pair
    BY <1>0, <1>3, <2>0 DEF FindRefreshToken, TypeOK, Stored, Tables,
                            RowsAreIssued, Row
  <2>3. q \in Slot /\ Sound(q)'
    BY <2>2 DEF Slot, Op, Pc, Sound, Issued
  <2>4. Tables' /\ HistoryGrows
    BY <1>0, <1>3, TablesUnchanged DEF FindRefreshToken
  <2>5. RequestsAreSound' /\ request' \in [Request -> Slot]
    BY <1>0, <2>1, <2>3, <2>4, SlotChanged
  <2>6. TypeOK'
    BY <1>0, <1>3, <2>5 DEF FindRefreshToken, TypeOK
  <2> QED BY <2>4, <2>5, <2>6
<1>4. ASSUME NEW r \in Request, NEW t \in Token, SwitchOrganization(r, t)
      PROVE  TypeOK' /\ Tables' /\ RequestsAreSound'
  <2>1. PICK u : /\ u = pair[t].user
                 /\ request' = [request EXCEPT
                      ![r] = [op |-> "switch", pc |-> "validate", user |-> u, token |-> t]]
    BY <1>4 DEF SwitchOrganization, Start
  <2> DEFINE q == [op |-> "switch", pc |-> "validate", user |-> u, token |-> t]
  <2>2. q \in Slot /\ Sound(q)'
    BY <1>0, <1>4, <2>1 DEF SwitchOrganization, AccessValid, Issued, TypeOK,
                            Pair, Slot, Op, Pc, Sound
  <2>3. Tables' /\ HistoryGrows
    BY <1>0, <1>4, TablesUnchanged DEF SwitchOrganization
  <2>4. RequestsAreSound' /\ request' \in [Request -> Slot]
    BY <1>0, <2>1, <2>2, <2>3, SlotChanged
  <2>5. TypeOK'
    BY <1>0, <1>4, <2>4 DEF SwitchOrganization, TypeOK
  <2> QED BY <2>3, <2>4, <2>5
<1>5. ASSUME NEW r \in Request, RecheckUsed(r)
      PROVE  TypeOK' /\ Tables' /\ RequestsAreSound'
  <2>1. PICK q \in Slot : /\ request' = [request EXCEPT ![r] = q]
                          /\ q = Idle \/ q = [request[r] EXCEPT !.pc = "terminate"]
    BY <1>0, <1>5, <1>idle DEF RecheckUsed, Goto, End, TypeOK, Slot, Pc
  <2>2. Tables' /\ HistoryGrows
    BY <1>0, <1>5, TablesUnchanged DEF RecheckUsed
  <2>3. request[r] \in Slot /\ request[r].pc = "recheck"
    BY <1>0, <1>5 DEF RecheckUsed, TypeOK
  <2>4. Sound(q)'
    <3>1. CASE q = Idle
      BY <1>idle, <3>1
    <3>2. CASE q # Idle
      <4>1. /\ q = [request[r] EXCEPT !.pc = "terminate"]
            /\ request[r].token \in Token /\ UNCHANGED <<pair, spent>>
            /\ Issued(request[r].token) /\ request[r].op = "refresh"
            /\ pair[request[r].token].user = request[r].user /\ request[r].user \in User
        BY <1>0, <1>5, <2>1, <2>3, <3>2 DEF RecheckUsed, RequestsAreSound
      <4>2. request'[r] = q /\ q.pc = "terminate" /\ q.op = "refresh"
            /\ q.user = request[r].user /\ q.token = request[r].token
        BY <1>0, <2>1, <2>3, <4>1 DEF TypeOK, Slot
      <4>3. RefreshOutcome(request[r].token) = "reuse"
        BY <1>0, <1>5, <1>idle, <4>2 DEF RecheckUsed, End, TypeOK, Idle
      <4>4. request[r].token \in spent
        BY <1>0, <4>1, <4>3 DEF RefreshOutcome, Tables, UsedMeansSpent
      <4> QED BY <4>1, <4>2, <4>4 DEF Sound, Issued
    <3> QED BY <3>1, <3>2
  <2>5. RequestsAreSound' /\ request' \in [Request -> Slot]
    BY <1>0, <2>1, <2>2, <2>4, SlotChanged
  <2>6. TypeOK'
    BY <1>0, <1>5, <2>5 DEF RecheckUsed, TypeOK
  <2> QED BY <2>2, <2>5, <2>6
<1>6. ASSUME NEW r \in Request, TerminateSessions(r)
      PROVE  TypeOK' /\ Tables' /\ RequestsAreSound'
  <2>1. /\ refreshToken' \in [Token -> Row \cup {None}]
        /\ \A t \in Token : refreshToken'[t] \in {refreshToken[t], None}
    BY <1>0, <1>6 DEF TerminateSessions, WithoutUser, TypeOK
  <2>2. Tables' /\ HistoryGrows
    BY <1>0, <1>6, <2>1, RowsDropped DEF TerminateSessions
  <2>3. RequestsAreSound' /\ request' \in [Request -> Slot]
    BY <1>0, <1>6, <1>idle, <2>2, SlotChanged DEF TerminateSessions, End
  <2>4. TypeOK'
    BY <1>0, <1>6, <2>1, <2>3 DEF TerminateSessions, TypeOK
  <2> QED BY <2>2, <2>3, <2>4
<1>7. ASSUME NEW r \in Request, MarkUsed(r)
      PROVE  TypeOK' /\ Tables' /\ RequestsAreSound'
  <2> DEFINE t == request[r].token
  <2>1. /\ request[r] \in Slot
        /\ request[r].pc = "mark"
        /\ request[r].op = "refresh"
        /\ t \in Token
        /\ Issued(t)
    BY <1>0, <1>7 DEF MarkUsed, TypeOK, RequestsAreSound
  <2>2. CASE ~Stored(t)
    <3>1. /\ UNCHANGED <<now, account, refreshToken, pair, spent>>
          /\ End(r)
      BY <1>7, <2>2 DEF MarkUsed
    <3>2. Tables' /\ HistoryGrows
      BY <1>0, <3>1, TablesUnchanged
    <3>3. RequestsAreSound' /\ request' \in [Request -> Slot]
      BY <1>0, <1>idle, <3>1, <3>2, SlotChanged DEF End
    <3> QED BY <1>0, <3>1, <3>2, <3>3 DEF TypeOK
  <2>3. CASE Stored(t)
    <3>1. /\ UNCHANGED <<now, account, pair>>
          /\ refreshToken' = [refreshToken EXCEPT ![t] = AsUsed(@)]
          /\ spent' = spent \cup {t}
          /\ request' = [request EXCEPT ![r].pc = "validate"]
      BY <1>7, <2>3 DEF MarkUsed, Goto
    <3>2. refreshToken[t] \in Row
      BY <1>0, <2>1, <2>3 DEF TypeOK, Stored
    <3>3. /\ AsUsed(refreshToken[t]) \in Row
          /\ AsUsed(refreshToken[t]).isUsed
          /\ AsUsed(refreshToken[t]).userId = refreshToken[t].userId
      BY <3>2, AsUsedRow
    <3>4. \A s \in Token : refreshToken'[s] = IF s = t THEN AsUsed(refreshToken[t])
                                                      ELSE refreshToken[s]
      BY <1>0, <3>1 DEF TypeOK
    <3>5. refreshToken' \in [Token -> Row \cup {None}]
      BY <1>0, <3>1, <3>3 DEF TypeOK
    <3>6. HistoryGrows
      BY <3>1 DEF HistoryGrows, Issued
    <3>7. RowsAreIssued' /\ UsedMeansSpent'
      <4> HIDE DEF t
      <4>1. \A s \in Token : Stored(s)' => Stored(s)
        BY <2>3, <3>4 DEF Stored
      <4> QED BY <1>0, <2>1, <3>1, <3>3, <3>4, <4>1
              DEF Tables, RowsAreIssued, UsedMeansSpent, Issued
    <3>8. SpentWasIssued' /\ ParentWasSpent'
      BY <1>0, <2>1, <3>1 DEF Tables, SpentWasIssued, ParentWasSpent, Issued
    <3>9. PICK q \in Slot : /\ request' = [request EXCEPT ![r] = q]
                            /\ q = [request[r] EXCEPT !.pc = "validate"]
      BY <2>1, <3>1 DEF Slot, Pc
    <3>10. Sound(q)'
      BY <1>0, <2>1, <3>1, <3>9 DEF RequestsAreSound, Sound, Slot
    <3>11. RequestsAreSound' /\ request' \in [Request -> Slot]
      BY <1>0, <3>6, <3>9, <3>10, SlotChanged
    <3>12. TypeOK'
      BY <1>0, <2>1, <3>1, <3>5, <3>11 DEF TypeOK
    <3> QED BY <3>7, <3>8, <3>11, <3>12 DEF Tables
  <2> QED BY <2>2, <2>3
<1>8. ASSUME NEW r \in Request, ValidateUserById(r)
      PROVE  TypeOK' /\ Tables' /\ RequestsAreSound'
  <2>1. PICK q \in Slot : /\ request' = [request EXCEPT ![r] = q]
                          /\ q = Idle \/ q = [request[r] EXCEPT !.pc = "issue"]
    BY <1>0, <1>8, <1>idle DEF ValidateUserById, Goto, End, TypeOK, Slot, Pc
  <2>2. Tables' /\ HistoryGrows
    BY <1>0, <1>8, TablesUnchanged DEF ValidateUserById
  <2>3. request[r] \in Slot /\ request[r].pc = "validate" /\ spent' = spent
    BY <1>0, <1>8 DEF ValidateUserById, TypeOK
  <2>4. Sound(q)'
    BY <1>0, <1>idle, <2>1, <2>3 DEF RequestsAreSound, Sound, Slot
  <2>5. RequestsAreSound' /\ request' \in [Request -> Slot]
    BY <1>0, <2>1, <2>2, <2>4, SlotChanged
  <2>6. TypeOK'
    BY <1>0, <1>8, <2>5 DEF ValidateUserById, TypeOK
  <2> QED BY <2>2, <2>5, <2>6
<1>9. ASSUME NEW r \in Request, NEW t \in Token, StoreRefreshToken(r, t)
      PROVE  TypeOK' /\ Tables' /\ RequestsAreSound'
  <2> DEFINE q == request[r]
             p == [user |-> q.user, accessExp |-> now + AccessTtl,
                   parent |-> IF q.op = "refresh" THEN q.token ELSE None]
  <2>1. q \in Slot /\ q.pc = "issue" /\ q.user \in User
    BY <1>0, <1>9 DEF StoreRefreshToken, TypeOK, RequestsAreSound
  <2>2. p.parent # None => p.parent \in spent
    BY <1>0, <2>1 DEF RequestsAreSound
  <2>3. NewRow(q.user) \in Row /\ NewRow(q.user) # None
    BY <1>0, <2>1, NewRowRow
  <2>4. p \in Pair /\ p # None
    BY <1>0, <2>1, SessionAssumption, NoneIsNoRecord DEF Pair, TypeOK, Slot
  <2>5. /\ ~Issued(t)
        /\ refreshToken' = [refreshToken EXCEPT ![t] = NewRow(q.user)]
        /\ pair' = [pair EXCEPT ![t] = p]
        /\ request' = [request EXCEPT ![r] = Idle]
        /\ UNCHANGED <<now, account, spent>>
    BY <1>9 DEF StoreRefreshToken, End
  <2>6. \A s \in Token : /\ refreshToken'[s] = IF s = t THEN NewRow(q.user)
                                                        ELSE refreshToken[s]
                         /\ pair'[s] = IF s = t THEN p ELSE pair[s]
    BY <1>0, <2>5 DEF TypeOK
  <2> HIDE DEF p
  <2>7. \A s \in Token : /\ Issued(s)' <=> (s = t \/ Issued(s))
                         /\ s # t => (Stored(s)' <=> Stored(s))
    BY <2>4, <2>6 DEF Issued, Stored
  <2>8. HistoryGrows
    BY <2>5, <2>7 DEF HistoryGrows
  <2>9. RowsAreIssued'
    <3>1. NewRow(q.user).userId = p.user
      BY DEF NewRow, p
    <3> QED BY <1>0, <2>6, <2>7, <3>1 DEF Tables, RowsAreIssued
  <2>10. UsedMeansSpent'
    <3>1. t \notin spent /\ NewRow(q.user).isUsed = FALSE
      BY <1>0, <2>5 DEF Tables, SpentWasIssued, NewRow
    <3> QED BY <1>0, <2>5, <2>6, <2>7, <3>1 DEF Tables, UsedMeansSpent
  <2>11. SpentWasIssued'
    BY <1>0, <2>5, <2>7 DEF Tables, SpentWasIssued, TypeOK
  <2>12. ParentWasSpent'
    BY <1>0, <2>2, <2>5, <2>6, <2>7 DEF Tables, ParentWasSpent
  <2>13. RequestsAreSound' /\ request' \in [Request -> Slot]
    BY <1>0, <1>idle, <2>5, <2>8, SlotChanged
  <2>14. TypeOK'
    BY <1>0, <2>3, <2>4, <2>5, <2>13 DEF TypeOK
  <2> QED BY <2>9, <2>10, <2>11, <2>12, <2>13, <2>14 DEF Tables
\* The single-call handlers that drop rows.
<1>drop. ASSUME UNCHANGED <<now, account, pair, request, spent>>,
                refreshToken' \in [Token -> Row \cup {None}],
                \A t \in Token : refreshToken'[t] \in {refreshToken[t], None}
         PROVE  TypeOK' /\ Tables' /\ RequestsAreSound'
  <2>1. Tables' /\ HistoryGrows
    BY <1>0, <1>drop, RowsDropped
  <2>2. RequestsAreSound'
    BY <1>0, <1>drop, <2>1, SlotsUnchanged
  <2>3. TypeOK'
    BY <1>0, <1>drop DEF TypeOK
  <2> QED BY <2>1, <2>2, <2>3
<1>10. ASSUME NEW s \in Token, NEW t \in Token, Logout(s, t)
       PROVE  TypeOK' /\ Tables' /\ RequestsAreSound'
  BY <1>0, <1>10, <1>drop DEF Logout, TypeOK
<1>11. ASSUME NEW s \in Token, LogoutAll(s)
       PROVE  TypeOK' /\ Tables' /\ RequestsAreSound'
  BY <1>0, <1>11, <1>drop DEF LogoutAll, WithoutUser, TypeOK
<1>12. ASSUME NEW u \in User, PurgeSessions(u)
       PROVE  TypeOK' /\ Tables' /\ RequestsAreSound'
  BY <1>0, <1>12, <1>drop DEF PurgeSessions, WithoutUser, TypeOK
<1>13. CASE CleanupExpiredRefreshTokens
  BY <1>0, <1>13, <1>drop DEF CleanupExpiredRefreshTokens, TypeOK
<1>14. ASSUME NEW u \in User, NEW isActive \in BOOLEAN, UpdateStatus(u, isActive)
       PROVE  TypeOK' /\ Tables' /\ RequestsAreSound'
  <2>1. Tables' /\ HistoryGrows
    BY <1>0, <1>14, TablesUnchanged DEF UpdateStatus
  <2>2. RequestsAreSound'
    BY <1>0, <1>14, <2>1, SlotsUnchanged DEF UpdateStatus
  <2>3. TypeOK'
    BY <1>0, <1>14 DEF UpdateStatus, TypeOK
  <2> QED BY <2>1, <2>2, <2>3
<1>15. ASSUME NEW r \in Request, Abort(r)
       PROVE  TypeOK' /\ Tables' /\ RequestsAreSound'
  <2>1. Tables' /\ HistoryGrows
    BY <1>0, <1>15, TablesUnchanged DEF Abort
  <2>2. RequestsAreSound' /\ request' \in [Request -> Slot]
    BY <1>0, <1>15, <1>idle, <2>1, SlotChanged DEF Abort, End
  <2>3. TypeOK'
    BY <1>0, <1>15, <2>2 DEF Abort, TypeOK
  <2> QED BY <2>1, <2>2, <2>3
<1>16. ASSUME Tick \/ UNCHANGED vars
       PROVE  TypeOK' /\ Tables' /\ RequestsAreSound'
  <2>1. UNCHANGED <<account, refreshToken, pair, request, spent>> /\ now' \in Nat
    BY <1>0, <1>16 DEF Tick, vars, TypeOK
  <2>2. Tables' /\ HistoryGrows
    BY <1>0, <2>1, TablesUnchanged
  <2> QED BY <1>0, <2>1, <2>2, SlotsUnchanged DEF TypeOK
<1> QED
  BY <1>1, <1>2, <1>3, <1>4, <1>5, <1>6, <1>7, <1>8, <1>9, <1>10, <1>11,
     <1>12, <1>13, <1>14, <1>15, <1>16
  DEF Next, RequestStep
-----------------------------------------------------------------------------
(* Of all the runs, whatever the number of accounts, tokens and concurrent *)
(* requests: the tables, the tokens handed out and the requests in flight  *)
(* agree as SessionInv says.                                               *)
THEOREM SessionsInvariant == Spec => []SessionInv
BY InitInv, NextInv, PTL DEF Spec

(* The sessions of an account are terminated for the reuse of one of its    *)
(* own tokens that was exchanged before, and for no other presented token,  *)
(* with any number of exchanges, logouts, resets and cleanups in between.   *)
THEOREM TerminationTheorem == Spec => []TerminationIsEarned
<1>1. SessionInv => TerminationIsEarned
  BY DEF SessionInv, RequestsAreSound, TerminationIsEarned
<1> QED BY <1>1, SessionsInvariant, PTL

(* A refreshed pair replaces a token that no refresh will exchange again:  *)
(* refreshTokens marks the old row before it stores the new one.           *)
THEOREM RotationTheorem == Spec => []RotationInvalidatesParent
<1>1. SessionInv => RotationInvalidatesParent
  BY SessionAssumption
  DEF SessionInv, TypeOK, UsedMeansSpent, ParentWasSpent, Issued, Pair,
      RotationInvalidatesParent, Live, RefreshOutcome
<1> QED BY <1>1, SessionsInvariant, PTL
-----------------------------------------------------------------------------
\* What one step can do to a token that has been handed out.
LEMMA IssuedTokenStep ==
    ASSUME SessionInv, [Next]_vars, NEW t \in Token, Issued(t)
    PROVE  /\ now' \in Nat /\ now <= now'
           /\ pair'[t] = pair[t]
           /\ \/ refreshToken'[t] \in {refreshToken[t], None}
              \/ Stored(t) /\ refreshToken'[t] = AsUsed(refreshToken[t])
<1>0. TypeOK
  BY DEF SessionInv
<1>1. ASSUME NEW r \in Request, MarkUsed(r)
      PROVE  \/ refreshToken'[t] \in {refreshToken[t], None}
             \/ Stored(t) /\ refreshToken'[t] = AsUsed(refreshToken[t])
  <2>1. CASE Stored(request[r].token) /\ t = request[r].token
    BY <1>0, <1>1, <2>1 DEF MarkUsed, TypeOK
  <2>2. CASE ~(Stored(request[r].token) /\ t = request[r].token)
    BY <1>0, <1>1, <2>2 DEF MarkUsed, TypeOK
  <2> QED BY <2>1, <2>2
<1>2. ASSUME NEW r \in Request, NEW s \in Token, StoreRefreshToken(r, s)
      PROVE  refreshToken'[t] = refreshToken[t] /\ pair'[t] = pair[t]
  BY <1>0, <1>2 DEF StoreRefreshToken, TypeOK, Issued
<1>3. now' \in Nat /\ now <= now'
  BY <1>0 DEF TypeOK, Next, vars, RequestStep, Register, SignIn, FindRefreshToken,
      SwitchOrganization, StoreRefreshToken, RecheckUsed, TerminateSessions,
      MarkUsed, ValidateUserById, Abort, Logout, LogoutAll, PurgeSessions,
      UpdateStatus, CleanupExpiredRefreshTokens, Tick
<1>4. pair'[t] = pair[t]
  BY <1>2 DEF Next, vars, RequestStep, Register, SignIn, FindRefreshToken,
      SwitchOrganization, RecheckUsed, TerminateSessions,
      MarkUsed, ValidateUserById, Abort, Logout, LogoutAll, PurgeSessions,
      UpdateStatus, CleanupExpiredRefreshTokens, Tick
<1>5. \/ refreshToken'[t] \in {refreshToken[t], None}
      \/ Stored(t) /\ refreshToken'[t] = AsUsed(refreshToken[t])
  <2> USE <1>0 DEF TypeOK, WithoutUser
  <2>1. ASSUME NEW r \in Request, RequestStep(r)
        PROVE  \/ refreshToken'[t] \in {refreshToken[t], None}
               \/ Stored(t) /\ refreshToken'[t] = AsUsed(refreshToken[t])
    BY <1>1, <1>2, <2>1
    DEF RequestStep, Register, SignIn, FindRefreshToken, SwitchOrganization,
        RecheckUsed, TerminateSessions, ValidateUserById, Abort
  <2>2. ASSUME ~\E r \in Request : RequestStep(r)
        PROVE  refreshToken'[t] \in {refreshToken[t], None}
    BY <2>2 DEF Next, vars, Logout, LogoutAll, PurgeSessions, UpdateStatus,
        CleanupExpiredRefreshTokens, Tick
  <2> QED BY <2>1, <2>2
<1> QED BY <1>3, <1>4, <1>5

LEMMA EndedStaysEnded ==
    ASSUME SessionInv, [Next]_vars, NEW t \in Token, Issued(t), ~Live(t)
    PROVE  ~Live(t)'
<1>1. TypeOK /\ now \in Nat
  BY DEF SessionInv, TypeOK
<1>2. /\ now' \in Nat /\ now <= now'
      /\ \/ refreshToken'[t] \in {refreshToken[t], None}
         \/ Stored(t) /\ refreshToken'[t] = AsUsed(refreshToken[t])
  BY IssuedTokenStep
<1>3. CASE ~Stored(t)'
  BY <1>3 DEF Live, RefreshOutcome
<1>4. CASE Stored(t)' /\ refreshToken'[t] = refreshToken[t]
  <2>1. Stored(t) /\ refreshToken[t].expiresAt \in Nat
    BY <1>1, <1>4 DEF Stored, TypeOK, Row
  <2>2. refreshToken[t].isUsed \/ refreshToken[t].expiresAt < now
    BY <2>1 DEF Live, RefreshOutcome, Expired
  <2>3. refreshToken'[t].isUsed \/ refreshToken'[t].expiresAt < now'
    BY <1>1, <1>2, <1>4, <2>1, <2>2
  <2> QED BY <2>3 DEF Live, RefreshOutcome, Expired
<1>5. CASE Stored(t) /\ refreshToken'[t] = AsUsed(refreshToken[t])
  <2>1. refreshToken'[t].isUsed
    BY <1>1, <1>5, AsUsedRow DEF TypeOK, Stored
  <2> QED BY <2>1 DEF Live, RefreshOutcome
<1> QED BY <1>2, <1>3, <1>4, <1>5 DEF Stored

(* A session that has ended never comes back, in whatever order the calls  *)
(* of concurrent requests reach the refresh_tokens table.                  *)
THEOREM RevocationTheorem == Spec => RevocationIsFinal
<1>1. SessionInv /\ [Next]_vars
        => [\A t \in Token : Issued(t) /\ ~Live(t) => ~Live(t)']_vars
  BY EndedStaysEnded
<1> QED BY <1>1, SessionsInvariant, PTL DEF Spec, RevocationIsFinal

(* One database call ends live sessions of one account at most: the four   *)
(* ways of deleting by user name the user, and the cleanup takes only rows *)
(* that are used or expired.                                               *)
THEOREM OneAccountTheorem == Spec => OneAccountAtATime
<1>1. ASSUME SessionInv, [Next]_vars, NEW t1 \in Token, NEW t2 \in Token,
             EndedBy(t1), EndedBy(t2)
      PROVE  pair[t1].user = pair[t2].user
  <2>1. TypeOK /\ RowsAreIssued
    BY <1>1 DEF SessionInv
  <2>2. \A t \in {t1, t2} : /\ Stored(t) /\ ~Stored(t)'
                            /\ refreshToken[t].userId = pair[t].user
                            /\ ~Collectable(refreshToken[t])
    BY <1>1, <2>1 DEF EndedBy, Live, RefreshOutcome, RowsAreIssued, Collectable
  <2>3. ASSUME NEW u, refreshToken' = WithoutUser(u)
        PROVE  \A t \in {t1, t2} : refreshToken[t].userId = u
    BY <2>1, <2>2, <2>3 DEF WithoutUser, TypeOK, Stored
  <2>4. ASSUME NEW r \in Request, MarkUsed(r)
        PROVE  FALSE
    <3>1. CASE ~Stored(request[r].token)
      BY <2>2, <2>4, <3>1 DEF MarkUsed, Stored
    <3>2. CASE Stored(request[r].token)
      <4> DEFINE s == request[r].token
      <4>1. refreshToken' = [refreshToken EXCEPT ![s] = AsUsed(@)]
        BY <2>4, <3>2 DEF MarkUsed
      <4>2. s \in Token
        BY <1>1, <2>4 DEF MarkUsed, SessionInv, RequestsAreSound
      <4>3. AsUsed(refreshToken[s]) # None
        BY <2>1, <3>2, <4>2, AsUsedRow, NoneIsNoRecord DEF TypeOK, Stored
      <4> QED BY <2>1, <2>2, <4>1, <4>2, <4>3 DEF TypeOK, Stored
    <3> QED BY <3>1, <3>2
  <2>5. ASSUME NEW r \in Request, NEW t \in Token, StoreRefreshToken(r, t)
        PROVE  FALSE
    <3>1. t \notin {t1, t2}
      BY <1>1, <2>2, <2>5 DEF StoreRefreshToken, SessionInv, RowsAreIssued
    <3> QED BY <2>1, <2>2, <2>5, <3>1 DEF StoreRefreshToken, TypeOK, Stored
  <2>6. ASSUME NEW s \in Token, NEW t \in Token, Logout(s, t)
        PROVE  t1 = t /\ t2 = t
    BY <2>1, <2>2, <2>6 DEF Logout, TypeOK, Stored
  <2>7. CASE CleanupExpiredRefreshTokens
    BY <2>1, <2>2, <2>7 DEF CleanupExpiredRefreshTokens, TypeOK, Stored
  <2>8. CASE refreshToken' = refreshToken
    BY <2>2, <2>8 DEF Stored
  <2>9. ASSUME NEW r \in Request, RequestStep(r)
        PROVE  pair[t1].user = pair[t2].user
    BY <2>2, <2>3, <2>4, <2>5, <2>8, <2>9
    DEF RequestStep, Register, SignIn, FindRefreshToken, SwitchOrganization,
        RecheckUsed, TerminateSessions, ValidateUserById, Abort
  <2>10. ASSUME ~\E r \in Request : RequestStep(r)
         PROVE  pair[t1].user = pair[t2].user
    BY <1>1, <2>2, <2>3, <2>6, <2>7, <2>8, <2>10
    DEF Next, vars, LogoutAll, PurgeSessions, UpdateStatus, Tick
  <2> QED BY <2>9, <2>10
<1>2. SessionInv /\ [Next]_vars
        => [\A t1, t2 \in Token : EndedBy(t1) /\ EndedBy(t2)
                => pair[t1].user = pair[t2].user]_vars
  BY <1>1
<1> QED BY <1>2, SessionsInvariant, PTL DEF Spec, OneAccountAtATime
-----------------------------------------------------------------------------
(* The refinement.                                                         *)

LEMMA LineageInit == Init => Lineage!Init
BY SessionAssumption DEF Init, Lineage!Init, tokenStatus, tokenParent, Issued

\* Dropping rows revokes the active tokens among them and nothing else.
LEMMA DropRevokes ==
    ASSUME SessionInv, UNCHANGED <<pair, spent>>,
           refreshToken' \in [Token -> Row \cup {None}],
           \A t \in Token : refreshToken'[t] \in {refreshToken[t], None}
    PROVE  Lineage!Next
<1> DEFINE S == {t \in Token : tokenStatus[t] = "active" /\ ~Stored(t)'}
<1>1. tokenParent' = tokenParent
  BY DEF tokenParent, Issued
<1>2. tokenStatus' = [t \in Token |-> IF t \in S THEN "revoked" ELSE tokenStatus[t]]
  BY DEF tokenStatus, Issued, Stored
<1>3. Lineage!Revoke(S)
  BY <1>1, <1>2 DEF Lineage!Revoke
<1> QED BY <1>3 DEF Lineage!Next

LEMMA LineageStep ==
    ASSUME SessionInv, [Next]_vars
    PROVE  [Lineage!Next]_(Lineage!vars)
<1>0. TypeOK /\ UsedMeansSpent /\ SpentWasIssued /\ RequestsAreSound
  BY DEF SessionInv
<1>quiet. ASSUME UNCHANGED <<refreshToken, pair, spent>>
          PROVE  UNCHANGED Lineage!vars
  BY <1>quiet DEF Lineage!vars, tokenStatus, tokenParent, Issued, Stored
<1>1. ASSUME NEW r \in Request, TerminateSessions(r)
      PROVE  Lineage!Next
  BY <1>0, <1>1, DropRevokes DEF TerminateSessions, WithoutUser, TypeOK
<1>2. ASSUME NEW r \in Request, MarkUsed(r)
      PROVE  [Lineage!Next]_(Lineage!vars)
  <2> DEFINE t == request[r].token
  <2>1. t \in Token /\ Issued(t)
    BY <1>0, <1>2 DEF MarkUsed, RequestsAreSound
  <2>2. CASE ~Stored(t)
    BY <1>2, <2>2, <1>quiet DEF MarkUsed
  <2>3. CASE Stored(t)
    <3>1. /\ refreshToken' = [refreshToken EXCEPT ![t] = AsUsed(@)]
          /\ spent' = spent \cup {t}
          /\ pair' = pair
      BY <1>2, <2>3 DEF MarkUsed
    <3>2. AsUsed(refreshToken[t]) # None
      BY <1>0, <2>1, <2>3, AsUsedRow, NoneIsNoRecord DEF TypeOK, Stored
    <3> HIDE DEF t
    <3>3. \A s \in Token : Stored(s)' <=> Stored(s)
      BY <1>0, <2>1, <2>3, <3>1, <3>2 DEF TypeOK, Stored
    <3>4. tokenParent' = tokenParent
      BY <3>1 DEF tokenParent, Issued
    <3>5. tokenStatus' = [tokenStatus EXCEPT ![t] = "spent"]
      BY <2>1, <3>1, <3>3 DEF tokenStatus, Issued
    <3>6. CASE t \in spent
      <4>1. tokenStatus[t] = "spent"
        BY <2>1, <3>6 DEF tokenStatus
      <4>2. tokenStatus' = tokenStatus
        BY <3>5, <4>1, <2>1 DEF tokenStatus
      <4> QED BY <3>4, <4>2 DEF Lineage!vars
    <3>7. CASE t \notin spent
      <4>1. tokenStatus[t] = "active"
        BY <2>1, <2>3, <3>7 DEF tokenStatus
      <4>2. Lineage!Spend(t)
        BY <3>4, <3>5, <4>1 DEF Lineage!Spend
      <4> QED BY <2>1, <4>2 DEF Lineage!Next
    <3> QED BY <3>6, <3>7
  <2> QED BY <2>2, <2>3
<1>3. ASSUME NEW r \in Request, NEW t \in Token, StoreRefreshToken(r, t)
      PROVE  Lineage!Next
  <2> DEFINE q == request[r]
             par == IF q.op = "refresh" THEN q.token ELSE None
             p == [user |-> q.user, accessExp |-> now + AccessTtl, parent |-> par]
  <2>1. q \in Slot /\ q.pc = "issue" /\ q.user \in User
    BY <1>0, <1>3 DEF StoreRefreshToken, TypeOK, RequestsAreSound
  <2>2. NewRow(q.user) # None
    BY <1>0, <2>1, NewRowRow
  <2>3. p \in Pair /\ p # None /\ p.parent = par
    BY <1>0, <2>1, SessionAssumption, NoneIsNoRecord DEF Pair, TypeOK, Slot
  <2> HIDE DEF p, par
  <2>4. /\ ~Issued(t)
        /\ refreshToken' = [refreshToken EXCEPT ![t] = NewRow(q.user)]
        /\ pair' = [pair EXCEPT ![t] = p]
        /\ spent' = spent
    BY <1>3 DEF StoreRefreshToken, p, par
  <2>5. \A s \in Token : /\ Issued(s)' <=> (s = t \/ Issued(s))
                         /\ Stored(s)' <=> (s = t \/ Stored(s))
                         /\ pair'[s] = IF s = t THEN p ELSE pair[s]
    BY <1>0, <2>2, <2>3, <2>4 DEF TypeOK, Issued, Stored
  <2>6. t \notin spent
    BY <1>0, <2>4 DEF SpentWasIssued
  <2>7. tokenStatus[t] = "unissued" /\ tokenParent[t] = None
    BY <2>4 DEF tokenStatus, tokenParent
  <2>8. tokenStatus' = [tokenStatus EXCEPT ![t] = "active"]
    BY <2>4, <2>5, <2>6 DEF tokenStatus
  <2>9. tokenParent' = [tokenParent EXCEPT ![t] = par]
    BY <2>3, <2>5 DEF tokenParent
  <2>10. CASE q.op = "refresh"
    <3>1. par = q.token /\ par \in spent /\ par \in Token
      BY <1>0, <2>1, <2>10 DEF RequestsAreSound, TypeOK, par
    <3>2. Lineage!Rotate(par, t)
      <4>1. tokenStatus[par] = "spent"
        BY <1>0, <3>1 DEF tokenStatus, SpentWasIssued
      <4> QED BY <2>7, <2>8, <2>9, <4>1 DEF Lineage!Rotate
    <3> QED BY <3>1, <3>2 DEF Lineage!Next
  <2>11. CASE q.op # "refresh"
    <3>1. tokenParent' = tokenParent
      <4>1. par = None
        BY <2>11 DEF par
      <4> QED BY <2>7, <2>9, <4>1 DEF tokenParent
    <3>2. Lineage!Start(t)
      BY <2>7, <2>8, <3>1 DEF Lineage!Start
    <3> QED BY <3>2 DEF Lineage!Next
  <2> QED BY <2>10, <2>11
<1>4. ASSUME NEW s \in Token, NEW t \in Token, Logout(s, t)
      PROVE  Lineage!Next
  BY <1>0, <1>4, DropRevokes DEF Logout, TypeOK
<1>5. ASSUME NEW s \in Token, LogoutAll(s)
      PROVE  Lineage!Next
  BY <1>0, <1>5, DropRevokes DEF LogoutAll, WithoutUser, TypeOK
<1>6. ASSUME NEW u \in User, PurgeSessions(u)
      PROVE  Lineage!Next
  BY <1>0, <1>6, DropRevokes DEF PurgeSessions, WithoutUser, TypeOK
<1>7. CASE CleanupExpiredRefreshTokens
  BY <1>0, <1>7, DropRevokes DEF CleanupExpiredRefreshTokens, TypeOK
<1>8. ASSUME NEW r \in Request, RequestStep(r)
      PROVE  [Lineage!Next]_(Lineage!vars)
  BY <1>1, <1>2, <1>3, <1>8, <1>quiet
  DEF RequestStep, Register, SignIn, FindRefreshToken, SwitchOrganization,
      RecheckUsed, ValidateUserById, Abort
<1>9. CASE Tick \/ UNCHANGED vars \/ \E u \in User, b \in BOOLEAN : UpdateStatus(u, b)
  BY <1>9, <1>quiet DEF Tick, vars, UpdateStatus
<1> QED BY <1>4, <1>5, <1>6, <1>7, <1>8, <1>9 DEF Next

(* The service keeps the promise of RefreshLineage: a token is issued at a *)
(* sign-in or for a spent token, and ends once and for good.               *)
THEOREM LineageTheorem == Spec => ImplementsLineage
BY LineageInit, LineageStep, SessionsInvariant, PTL
DEF Spec, ImplementsLineage, Lineage!Spec
-----------------------------------------------------------------------------
(* The credit of an account: its sessions, and the requests that will store *)
(* one.  A step that takes a request from the second set to add a token to  *)
(* the first is the only one that adds anything.                            *)
Given(u) == {t \in Token : Issued(t) /\ pair[t].user = u}

Due(u) == {r \in Request : request[r].user = u /\ request[r].pc = "issue"}

LEMMA CreditIsTraded ==
    ASSUME NEW A, NEW B, NEW A1, NEW B1, IsFiniteSet(A), IsFiniteSet(B),
           \/ A1 \subseteq A /\ B1 \subseteq B
           \/ \E t, r : /\ A1 \subseteq A \cup {t}
                        /\ r \in B /\ B1 \subseteq B \ {r}
    PROVE  Cardinality(A1) + Cardinality(B1) <= Cardinality(A) + Cardinality(B)
<1>1. Cardinality(A) \in Nat /\ Cardinality(B) \in Nat
  BY FS_CardinalityType
<1>2. CASE A1 \subseteq A /\ B1 \subseteq B
  <2>1. IsFiniteSet(A1) /\ Cardinality(A1) <= Cardinality(A)
    BY <1>2, FS_Subset
  <2>2. IsFiniteSet(B1) /\ Cardinality(B1) <= Cardinality(B)
    BY <1>2, FS_Subset
  <2>3. Cardinality(A1) \in Nat /\ Cardinality(B1) \in Nat
    BY <2>1, <2>2, FS_CardinalityType
  <2> QED BY <1>1, <2>1, <2>2, <2>3
<1>3. CASE \E t, r : /\ A1 \subseteq A \cup {t}
                     /\ r \in B /\ B1 \subseteq B \ {r}
  <2>1. PICK t, r : /\ A1 \subseteq A \cup {t}
                    /\ r \in B /\ B1 \subseteq B \ {r}
    BY <1>3
  <2>2. /\ IsFiniteSet(A \cup {t})
        /\ Cardinality(A \cup {t}) \in {Cardinality(A), Cardinality(A) + 1}
    BY FS_AddElement
  <2>3. IsFiniteSet(B \ {r}) /\ Cardinality(B \ {r}) = Cardinality(B) - 1
    BY <2>1, FS_RemoveElement
  <2>4. IsFiniteSet(A1) /\ Cardinality(A1) <= Cardinality(A \cup {t})
    BY <2>1, <2>2, FS_Subset
  <2>5. IsFiniteSet(B1) /\ Cardinality(B1) <= Cardinality(B \ {r})
    BY <2>1, <2>3, FS_Subset
  <2>6. Cardinality(A1) \in Nat /\ Cardinality(B1) \in Nat
    BY <2>4, <2>5, FS_CardinalityType
  <2> QED BY <1>1, <2>2, <2>3, <2>4, <2>5, <2>6
<1> QED BY <1>2, <1>3

\* A request that is not about to store a session for u after the step, or
\* was before it already.
LEMMA DueKept ==
    ASSUME TypeOK, NEW u \in User, NEW r \in Request, NEW q,
           request' = [request EXCEPT ![r] = q],
           q.user = u /\ q.pc = "issue" => r \in Due(u)
    PROVE  Due(u)' \subseteq Due(u)
BY DEF Due, TypeOK

LEMMA InactiveStep ==
    ASSUME SessionInv, [Next]_vars, NEW u \in User, account[u] = "inactive"
    PROVE  \/ Given(u)' \subseteq Given(u) /\ Due(u)' \subseteq Due(u)
           \/ \E t, r : /\ Given(u)' \subseteq Given(u) \cup {t}
                        /\ r \in Due(u) /\ Due(u)' \subseteq Due(u) \ {r}
<1> USE DEF SessionInv
<1>idle. Idle.pc # "issue"
  BY DEF Idle
<1>1. ASSUME NEW r \in Request, NEW v \in User, Register(r, v) \/ SignIn(r, v)
      PROVE  Given(u)' \subseteq Given(u) /\ Due(u)' \subseteq Due(u)
  <2> DEFINE q == [op |-> "signIn", pc |-> "issue", user |-> v, token |-> None]
  <2>1. v # u /\ request' = [request EXCEPT ![r] = q] /\ pair' = pair
    BY <1>1 DEF Register, SignIn, Start
  <2>2. q.user = v
    OBVIOUS
  <2>3. Due(u)' \subseteq Due(u)
    BY <2>1, <2>2, DueKept
  <2> QED BY <2>1, <2>3 DEF Given, Issued
<1>2. ASSUME NEW r \in Request, NEW t \in Token,
             FindRefreshToken(r, t) \/ SwitchOrganization(r, t)
      PROVE  Given(u)' \subseteq Given(u) /\ Due(u)' \subseteq Due(u)
  <2>1. PICK q : q.pc # "issue" /\ request' = [request EXCEPT ![r] = q]
    BY <1>2 DEF FindRefreshToken, SwitchOrganization, Start
  <2>2. Due(u)' \subseteq Due(u)
    BY <2>1, DueKept
  <2> QED BY <1>2, <2>2 DEF Given, Issued, FindRefreshToken, SwitchOrganization
<1>3. ASSUME NEW r \in Request, NEW t \in Token, StoreRefreshToken(r, t)
      PROVE  \/ Given(u)' \subseteq Given(u) /\ Due(u)' \subseteq Due(u)
             \/ \E s, d : /\ Given(u)' \subseteq Given(u) \cup {s}
                          /\ d \in Due(u) /\ Due(u)' \subseteq Due(u) \ {d}
  <2>1. Due(u)' \subseteq Due(u) \ {r}
    BY <1>3, <1>idle DEF StoreRefreshToken, End, Due, TypeOK
  <2>2. \A s \in Token \ {t} : pair'[s] = pair[s]
    BY <1>3 DEF StoreRefreshToken, TypeOK
  <2>3. CASE request[r].user = u
    <3>1. r \in Due(u)
      BY <1>3, <2>3 DEF StoreRefreshToken, Due
    <3>2. Given(u)' \subseteq Given(u) \cup {t}
      BY <2>2 DEF Given, Issued
    <3> QED BY <2>1, <3>1, <3>2
  <2>4. CASE request[r].user # u
    <3>1. pair'[t].user = request[r].user
      BY <1>3 DEF StoreRefreshToken, TypeOK
    <3>2. Given(u)' \subseteq Given(u)
      BY <2>2, <2>4, <3>1 DEF Given, Issued
    <3> QED BY <2>1, <3>2
  <2> QED BY <2>3, <2>4
<1>4. ASSUME NEW r \in Request, RecheckUsed(r) \/ MarkUsed(r)
      PROVE  Given(u)' \subseteq Given(u) /\ Due(u)' \subseteq Due(u)
  <2>1. pair' = pair
    BY <1>4 DEF RecheckUsed, MarkUsed
  <2>2. Goto(r, "terminate") \/ Goto(r, "validate") \/ End(r)
    BY <1>4 DEF RecheckUsed, MarkUsed
  <2>3. Due(u)' \subseteq Due(u)
    BY <2>2, <1>idle DEF Goto, End, Due, TypeOK, Slot
  <2> QED BY <2>1, <2>3 DEF Given, Issued
<1>5. ASSUME NEW r \in Request, ValidateUserById(r)
      PROVE  Given(u)' \subseteq Given(u) /\ Due(u)' \subseteq Due(u)
  <2>1. pair' = pair
    BY <1>5 DEF ValidateUserById
  <2>2. CASE request[r].user = u
    <3>1. End(r)
      BY <1>5, <2>2 DEF ValidateUserById
    <3> QED BY <2>1, <3>1, <1>idle, DueKept DEF End, Given, Issued
  <2>3. CASE request[r].user # u
    <3>1. Goto(r, "issue") \/ End(r)
      BY <1>5 DEF ValidateUserById
    <3>2. \A d \in Request : /\ request'[d].pc = "issue" /\ request'[d].user = u
                             => d # r /\ request'[d] = request[d]
      BY <2>3, <3>1, <1>idle DEF Goto, End, TypeOK, Slot
    <3> QED BY <2>1, <3>2 DEF Due, Given, Issued
  <2> QED BY <2>2, <2>3
<1>6. ASSUME NEW r \in Request, TerminateSessions(r) \/ Abort(r)
      PROVE  Given(u)' \subseteq Given(u) /\ Due(u)' \subseteq Due(u)
  <2>1. End(r) /\ pair' = pair
    BY <1>6 DEF TerminateSessions, Abort
  <2>2. Due(u)' \subseteq Due(u)
    BY <2>1, <1>idle, DueKept DEF End
  <2> QED BY <2>1, <2>2 DEF Given, Issued
<1>7. ASSUME \/ \E s, t \in Token : Logout(s, t)
             \/ \E s \in Token : LogoutAll(s)
             \/ \E v \in User : PurgeSessions(v)
             \/ \E v \in User, isActive \in BOOLEAN : UpdateStatus(v, isActive)
             \/ CleanupExpiredRefreshTokens
             \/ Tick
             \/ UNCHANGED vars
      PROVE  Given(u)' \subseteq Given(u) /\ Due(u)' \subseteq Due(u)
  <2>1. UNCHANGED <<pair, request>>
    BY <1>7 DEF Logout, LogoutAll, PurgeSessions, UpdateStatus,
                CleanupExpiredRefreshTokens, Tick, vars
  <2> QED BY <2>1 DEF Given, Due, Issued
<1> QED BY <1>1, <1>2, <1>3, <1>4, <1>5, <1>6, <1>7 DEF Next, RequestStep

(* An inactive account is given no session beyond those that requests past  *)
(* their isActive check will store: for any finite numbers of tokens and of *)
(* requests, and however the requests interleave with the deactivation.     *)
THEOREM IssuingTheorem ==
    ASSUME IsFiniteSet(Token), IsFiniteSet(Request)
    PROVE  Spec => DeactivationStopsIssuing
<1>1. ASSUME SessionInv, [Next]_vars, NEW u \in User, account[u] = "inactive"
      PROVE  Credit(u)' <= Credit(u)
  <2>1. IsFiniteSet(Given(u)) /\ IsFiniteSet(Due(u))
    BY FS_Subset DEF Given, Due
  <2>2. \/ Given(u)' \subseteq Given(u) /\ Due(u)' \subseteq Due(u)
        \/ \E t, r : /\ Given(u)' \subseteq Given(u) \cup {t}
                     /\ r \in Due(u) /\ Due(u)' \subseteq Due(u) \ {r}
    BY <1>1, InactiveStep
  <2>3. Cardinality(Given(u)') + Cardinality(Due(u)')
          <= Cardinality(Given(u)) + Cardinality(Due(u))
    BY <2>1, <2>2, CreditIsTraded
  <2> QED BY <2>3 DEF Credit, Given, Due
<1>2. SessionInv /\ [Next]_vars
        => [\A u \in User : account[u] = "inactive" /\ account'[u] = "inactive"
                              => Credit(u)' <= Credit(u)]_vars
  BY <1>1
<1> QED BY <1>2, SessionsInvariant, PTL DEF Spec, DeactivationStopsIssuing
-----------------------------------------------------------------------------
(* What a token can still yield: its children, and the requests that were   *)
(* past the look at its row.  Again one step trades the second for the      *)
(* first, and a request joins them only if it finds the row good.           *)
Children(p) == {t \in Token : Issued(t) /\ pair[t].parent = p}

Passed(p) == {r \in Request : /\ request[r].op = "refresh"
                              /\ request[r].token = p
                              /\ request[r].pc \in {"mark", "validate", "issue"}}

\* A request that has not passed the look at p after the step, or had before.
LEMMA PassedKept ==
    ASSUME TypeOK, NEW p \in Token, NEW r \in Request, NEW q,
           request' = [request EXCEPT ![r] = q],
           q.op = "refresh" /\ q.token = p /\ q.pc \in {"mark", "validate", "issue"}
               => r \in Passed(p)
    PROVE  Passed(p)' \subseteq Passed(p)
BY DEF Passed, TypeOK

LEMMA RedemptionsStep ==
    ASSUME SessionInv, [Next]_vars, NEW p \in Token, ~Live(p)
    PROVE  \/ Children(p)' \subseteq Children(p) /\ Passed(p)' \subseteq Passed(p)
           \/ \E t, r : /\ Children(p)' \subseteq Children(p) \cup {t}
                        /\ r \in Passed(p) /\ Passed(p)' \subseteq Passed(p) \ {r}
<1> USE DEF SessionInv
<1>idle. Idle.op # "refresh"
  BY DEF Idle
<1>1. ASSUME NEW r \in Request, NEW v \in User, Register(r, v) \/ SignIn(r, v)
      PROVE  Children(p)' \subseteq Children(p) /\ Passed(p)' \subseteq Passed(p)
  <2> DEFINE q == [op |-> "signIn", pc |-> "issue", user |-> v, token |-> None]
  <2>1. request' = [request EXCEPT ![r] = q] /\ pair' = pair
    BY <1>1 DEF Register, SignIn, Start
  <2>2. q.op # "refresh"
    OBVIOUS
  <2>3. Passed(p)' \subseteq Passed(p)
    BY <2>1, <2>2, PassedKept
  <2> QED BY <2>1, <2>3 DEF Children, Issued
<1>2. ASSUME NEW r \in Request, NEW t \in Token, FindRefreshToken(r, t)
      PROVE  Children(p)' \subseteq Children(p) /\ Passed(p)' \subseteq Passed(p)
  <2> DEFINE q == [op |-> "refresh", pc |-> IF Live(t) THEN "mark" ELSE "recheck",
                   user |-> refreshToken[t].userId, token |-> t]
  <2>1. request' = [request EXCEPT ![r] = q]
    BY <1>2 DEF FindRefreshToken, Start
  <2>3. q.token = t /\ (q.pc = "mark" => Live(t)) /\ q.pc \in {"mark", "recheck"}
    OBVIOUS
  <2> HIDE DEF q
  <2>2. Passed(p)' \subseteq Passed(p)
    BY <2>1, <2>3, PassedKept
  <2> QED BY <1>2, <2>2 DEF Children, Issued, FindRefreshToken
<1>3. ASSUME NEW r \in Request, NEW t \in Token, SwitchOrganization(r, t)
      PROVE  Children(p)' \subseteq Children(p) /\ Passed(p)' \subseteq Passed(p)
  <2>1. PICK q : q.op # "refresh" /\ request' = [request EXCEPT ![r] = q]
    BY <1>3 DEF SwitchOrganization, Start
  <2>2. Passed(p)' \subseteq Passed(p)
    BY <2>1, PassedKept
  <2> QED BY <1>3, <2>2 DEF Children, Issued, SwitchOrganization
<1>4. ASSUME NEW r \in Request, NEW t \in Token, StoreRefreshToken(r, t)
      PROVE  \/ Children(p)' \subseteq Children(p) /\ Passed(p)' \subseteq Passed(p)
             \/ \E s, d : /\ Children(p)' \subseteq Children(p) \cup {s}
                          /\ d \in Passed(p) /\ Passed(p)' \subseteq Passed(p) \ {d}
  <2>1. Passed(p)' \subseteq Passed(p) \ {r}
    BY <1>4, <1>idle DEF StoreRefreshToken, End, Passed, TypeOK
  <2>2. \A s \in Token \ {t} : pair'[s] = pair[s]
    BY <1>4 DEF StoreRefreshToken, TypeOK
  <2>3. CASE request[r].op = "refresh" /\ request[r].token = p
    <3>1. r \in Passed(p)
      BY <1>4, <2>3 DEF StoreRefreshToken, Passed
    <3>2. Children(p)' \subseteq Children(p) \cup {t}
      BY <2>2 DEF Children, Issued
    <3> QED BY <2>1, <3>1, <3>2
  <2>4. CASE ~(request[r].op = "refresh" /\ request[r].token = p)
    <3>1. pair'[t].parent # p
      BY <1>4, <2>4, SessionAssumption DEF StoreRefreshToken, TypeOK
    <3>2. Children(p)' \subseteq Children(p)
      BY <2>2, <3>1 DEF Children, Issued
    <3> QED BY <2>1, <3>2
  <2> QED BY <2>3, <2>4
<1>5. ASSUME NEW r \in Request, MarkUsed(r) \/ ValidateUserById(r)
      PROVE  Children(p)' \subseteq Children(p) /\ Passed(p)' \subseteq Passed(p)
  <2>1. pair' = pair /\ request[r].pc \in {"mark", "validate"}
    BY <1>5 DEF MarkUsed, ValidateUserById
  <2>2. Goto(r, "validate") \/ Goto(r, "issue") \/ End(r)
    BY <1>5 DEF MarkUsed, ValidateUserById
  <2>3. Passed(p)' \subseteq Passed(p)
    BY <2>1, <2>2, <1>idle DEF Goto, End, Passed, TypeOK, Slot
  <2> QED BY <2>1, <2>3 DEF Children, Issued
<1>6. ASSUME NEW r \in Request, RecheckUsed(r) \/ TerminateSessions(r) \/ Abort(r)
      PROVE  Children(p)' \subseteq Children(p) /\ Passed(p)' \subseteq Passed(p)
  <2>1. pair' = pair /\ (Goto(r, "terminate") \/ End(r))
    BY <1>6 DEF RecheckUsed, TerminateSessions, Abort
  <2>2. Passed(p)' \subseteq Passed(p)
    BY <2>1, <1>idle DEF Goto, End, Passed, TypeOK, Slot
  <2> QED BY <2>1, <2>2 DEF Children, Issued
<1>7. ASSUME \/ \E s, t \in Token : Logout(s, t)
             \/ \E s \in Token : LogoutAll(s)
             \/ \E v \in User : PurgeSessions(v)
             \/ \E v \in User, isActive \in BOOLEAN : UpdateStatus(v, isActive)
             \/ CleanupExpiredRefreshTokens
             \/ Tick
             \/ UNCHANGED vars
      PROVE  Children(p)' \subseteq Children(p) /\ Passed(p)' \subseteq Passed(p)
  <2>1. UNCHANGED <<pair, request>>
    BY <1>7 DEF Logout, LogoutAll, PurgeSessions, UpdateStatus,
                CleanupExpiredRefreshTokens, Tick, vars
  <2> QED BY <2>1 DEF Children, Passed, Issued
<1> QED BY <1>1, <1>2, <1>3, <1>4, <1>5, <1>6, <1>7 DEF Next, RequestStep

LEMMA RedemptionsFall ==
    ASSUME IsFiniteSet(Token), IsFiniteSet(Request),
           SessionInv, [Next]_vars, NEW p \in Token, ~Live(p)
    PROVE  Redemptions(p)' <= Redemptions(p)
<1>1. IsFiniteSet(Children(p)) /\ IsFiniteSet(Passed(p))
  BY FS_Subset DEF Children, Passed
<1>2. \/ Children(p)' \subseteq Children(p) /\ Passed(p)' \subseteq Passed(p)
      \/ \E t, r : /\ Children(p)' \subseteq Children(p) \cup {t}
                   /\ r \in Passed(p) /\ Passed(p)' \subseteq Passed(p) \ {r}
  BY RedemptionsStep
<1>3. Cardinality(Children(p)') + Cardinality(Passed(p)')
        <= Cardinality(Children(p)) + Cardinality(Passed(p))
  BY <1>1, <1>2, CreditIsTraded
<1> QED BY <1>3 DEF Redemptions, Children, Passed

(* From the moment its row is marked, deleted or too old, a token yields    *)
(* nothing but what requests already past the look at it obtain: for any    *)
(* finite numbers of tokens and of requests.                                *)
THEOREM RedemptionsTheorem ==
    ASSUME IsFiniteSet(Token), IsFiniteSet(Request)
    PROVE  Spec => RedemptionsClose
<1>1. SessionInv /\ [Next]_vars
        => [\A p \in Token : ~Live(p) => Redemptions(p)' <= Redemptions(p)]_vars
  BY RedemptionsFall
<1> QED BY <1>1, SessionsInvariant, PTL DEF Spec, RedemptionsClose

\* Before it is spent a token has no children, so the first bound on what it
\* can yield is the number of requests; after that the number only falls.
RedemptionsBounded == \A p \in Token : Redemptions(p) <= Cardinality(Request)

LEMMA UnspentBound ==
    ASSUME IsFiniteSet(Request), SessionInv, NEW p \in Token, Children(p) = {}
    PROVE  Redemptions(p) <= Cardinality(Request)
<1>1. Cardinality(Children(p)) = 0
  BY FS_EmptySet
<1>2. Cardinality(Passed(p)) <= Cardinality(Request)
  BY FS_Subset DEF Passed
<1>3. Cardinality(Passed(p)) \in Nat
  BY FS_Subset, FS_CardinalityType DEF Passed
<1> QED BY <1>1, <1>2, <1>3 DEF Redemptions, Children, Passed

LEMMA RedemptionsBound ==
    ASSUME IsFiniteSet(Token), IsFiniteSet(Request)
    PROVE  Spec => []RedemptionsBounded
<1>1. Init => RedemptionsBounded
  <2> SUFFICES ASSUME Init, NEW p \in Token
               PROVE  Redemptions(p) <= Cardinality(Request)
    BY DEF RedemptionsBounded
  <2>1. Children(p) = {}
    BY DEF Init, Children, Issued
  <2> QED BY <2>1, InitInv, UnspentBound
<1>2. SessionInv /\ SessionInv' /\ RedemptionsBounded /\ [Next]_vars
        => RedemptionsBounded'
  <2> SUFFICES ASSUME SessionInv, SessionInv', RedemptionsBounded, [Next]_vars,
                      NEW p \in Token
               PROVE  Redemptions(p)' <= Cardinality(Request)
    BY DEF RedemptionsBounded
  <2>1. CASE ~Live(p)
    <3>1. Redemptions(p)' <= Redemptions(p)
      BY <2>1, RedemptionsFall
    <3>2. Redemptions(p) <= Cardinality(Request)
      BY DEF RedemptionsBounded
    <3>3. /\ Cardinality(Children(p)) \in Nat /\ Cardinality(Passed(p)) \in Nat
          /\ Cardinality(Children(p)') \in Nat /\ Cardinality(Passed(p)') \in Nat
      <4>1. Children(p) \subseteq Token /\ Children(p)' \subseteq Token
        BY DEF Children
      <4>2. Passed(p) \subseteq Request /\ Passed(p)' \subseteq Request
        BY DEF Passed
      <4> QED BY <4>1, <4>2, FS_Subset, FS_CardinalityType
    <3>4. Redemptions(p) \in Nat /\ Redemptions(p)' \in Nat
      BY <3>3 DEF Redemptions, Children, Passed
    <3>5. Cardinality(Request) \in Nat
      BY FS_CardinalityType
    <3> QED BY <3>1, <3>2, <3>4, <3>5
  <2>2. CASE Live(p)
    <3>1. p \notin spent
      BY <2>2 DEF Live, RefreshOutcome, SessionInv, UsedMeansSpent
    <3>2. Children(p) = {}
      BY <3>1, SessionAssumption DEF SessionInv, ParentWasSpent, Children
    <3>3. Children(p)' = {}
      <4>1. CASE p \notin spent'
        BY <4>1, SessionAssumption DEF SessionInv, ParentWasSpent, Children
      <4>2. CASE p \in spent'
        <5>1. spent' # spent
          BY <3>1, <4>2
        <5>2. \E r \in Request : MarkUsed(r)
          BY <5>1 DEF Next, RequestStep, vars, Register, SignIn, FindRefreshToken,
             SwitchOrganization, StoreRefreshToken, RecheckUsed,
             TerminateSessions, ValidateUserById, Abort, Logout, LogoutAll,
             PurgeSessions, UpdateStatus, CleanupExpiredRefreshTokens, Tick
        <5>3. pair' = pair
          BY <5>2 DEF MarkUsed
        <5> QED BY <3>2, <5>3 DEF Children, Issued
      <4> QED BY <4>1, <4>2
    <3>4. (Children(p) = {} /\ SessionInv => Redemptions(p) <= Cardinality(Request))'
      BY UnspentBound, PTL
    <3> QED BY <3>3, <3>4
  <2> QED BY <2>1, <2>2
<1> QED BY <1>1, <1>2, SessionsInvariant, PTL DEF Spec

(* What the README says of a refresh (92) is true of requests that do not   *)
(* overlap: with one request in flight at a time, a token is exchanged at   *)
(* most once.  It is the overlap, and nothing else, that breaks it.         *)
THEOREM SequentialTheorem ==
    ASSUME IsFiniteSet(Token), NEW R, Request = {R}
    PROVE  Spec => []SingleRedemption
<1>1. IsFiniteSet(Request) /\ Cardinality(Request) = 1
  BY FS_Singleton
<1>2. SessionInv /\ RedemptionsBounded => SingleRedemption
  <2> SUFFICES ASSUME SessionInv, RedemptionsBounded,
                      NEW t1 \in Token, NEW t2 \in Token,
                      Issued(t1), Issued(t2), pair[t1].parent # None,
                      pair[t1].parent = pair[t2].parent
               PROVE  t1 = t2
    BY DEF SingleRedemption
  <2> DEFINE p == pair[t1].parent
  <2>1. p \in Token
    BY DEF SessionInv, TypeOK, Issued, Pair
  <2>2. IsFiniteSet(Children(p)) /\ IsFiniteSet(Passed(p))
    BY <1>1, FS_Subset DEF Children, Passed
  <2>3. Cardinality(Children(p)) \in Nat /\ Cardinality(Passed(p)) \in Nat
    BY <2>2, FS_CardinalityType
  <2>4. Cardinality(Children(p)) + Cardinality(Passed(p)) <= 1
    BY <1>1, <2>1 DEF RedemptionsBounded, Redemptions, Children, Passed
  <2>5. t1 \in Children(p) /\ t2 \in Children(p)
    BY DEF Children
  <2>6. Children(p) # {} /\ Cardinality(Children(p)) # 0
    BY <2>2, <2>5, FS_EmptySet
  <2>7. Cardinality(Children(p)) = 1
    BY <2>3, <2>4, <2>6
  <2> QED BY <2>2, <2>5, <2>7, FS_Singleton
<1>3. Spec => []RedemptionsBounded
  BY <1>1, RedemptionsBound
<1> QED BY <1>2, <1>3, SessionsInvariant, PTL
=============================================================================
