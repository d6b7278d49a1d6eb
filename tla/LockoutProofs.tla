---------------------------- MODULE LockoutProofs ----------------------------
(* Theorems about Lockout, for any number of accounts and of overlapping   *)
(* attempts, any limit and any lock time.                                  *)
EXTENDS Lockout, FiniteSetTheorems, TLAPS

\* What LockoutInv says of one account.
Account(e) == IF Locked(e)
              THEN wrong[e] + Cardinality(InFlight(e)) < Burst
              ELSE wrong[e] <= failedAttempts[e].count

\* What it says of the guesses before the burst that is on.
Paid(e) == (total[e] - wrong[e]) * LockTime
             <= (BurstStart(e) - since[e] + openings[e] * LockTime) * Burst

\* Where the stretch began, put back by a lock time for each opening.
Base(e) == since[e] - openings[e] * LockTime

LEMMA Sizes == /\ Cardinality(Attempt) \in Nat
               /\ Burst \in Nat
               /\ \A e : IsFiniteSet(InFlight(e)) /\ Cardinality(InFlight(e)) \in Nat
<1>1. Cardinality(Attempt) \in Nat
  BY LockoutAssumption, FS_CardinalityType
<1>2. ASSUME NEW e PROVE IsFiniteSet(InFlight(e)) /\ Cardinality(InFlight(e)) \in Nat
  <2>1. InFlight(e) \in SUBSET Attempt
    BY DEF InFlight
  <2> QED BY <2>1, LockoutAssumption, FS_Subset, FS_CardinalityType
<1> QED BY <1>1, <1>2, LockoutAssumption DEF Burst

LEMMA AfterFailureEntry ==
    ASSUME now \in Nat,
           NEW n \in [count : 0 .. MaxFailures - 1, lockedUntil : Nat]
    PROVE  /\ AfterFailure(n) \in [count : 0 .. MaxFailures - 1, lockedUntil : Nat]
           /\ \/ n.count + 1 >= MaxFailures /\ AfterFailure(n).lockedUntil = now + LockTime
                 /\ AfterFailure(n).count = 0
              \/ n.count + 1 < MaxFailures /\ AfterFailure(n).lockedUntil = n.lockedUntil
                 /\ AfterFailure(n).count = n.count + 1
BY LockoutAssumption DEF AfterFailure

LEMMA ShortLocks ==
    ASSUME TypeOK, LocksAreShort, [Next]_vars
    PROVE  LocksAreShort'
<1> USE LockoutAssumption DEF TypeOK, LocksAreShort
<1>1. ASSUME NEW a \in Attempt, Fail(a), NEW e \in Email
      PROVE  failedAttempts'[e].lockedUntil <= now' + LockTime
  <2>1. failedAttempts'[e] \in {failedAttempts[e], AfterFailure(failedAttempts[e])}
    BY <1>1 DEF Fail
  <2>2. AfterFailure(failedAttempts[e]).lockedUntil
          \in {now + LockTime, failedAttempts[e].lockedUntil}
    BY AfterFailureEntry
  <2> QED BY <1>1, <2>1, <2>2 DEF Fail
<1>2. ASSUME NEW a \in Attempt, Succeed(a), NEW e \in Email
      PROVE  failedAttempts'[e].lockedUntil <= now' + LockTime
  BY <1>2 DEF Succeed, NoEntry
<1>3. CASE Restart
  BY <1>3 DEF Restart, NoEntry
<1>4. CASE Tick
  BY <1>4 DEF Tick
<1>5. CASE failedAttempts' = failedAttempts /\ now' = now
  BY <1>5
<1> QED BY <1>1, <1>2, <1>3, <1>4, <1>5 DEF Next, Admit, vars

LEMMA GuessesFew == LockoutInv => GuessesAreBounded
<1> SUFFICES ASSUME LockoutInv, NEW e \in Email
             PROVE  wrong[e] < Burst
  BY DEF GuessesAreBounded
<1>1. wrong[e] \in Nat /\ failedAttempts[e].count \in 0 .. MaxFailures - 1
  BY DEF LockoutInv, TypeOK
<1>2. IF Locked(e) THEN wrong[e] + Cardinality(InFlight(e)) < Burst
                   ELSE wrong[e] <= failedAttempts[e].count
  BY DEF LockoutInv
<1>3. Cardinality(Attempt) \in Nat /\ Cardinality(InFlight(e)) \in Nat
  BY Sizes
<1> HIDE DEF Locked, InFlight
<1> QED BY <1>1, <1>2, <1>3, LockoutAssumption DEF Burst

\* Sums and products, kept away from everything else.
LEMMA Later ==
    ASSUME NEW x \in Int, NEW y \in Int, NEW K \in Nat, x <= y
    PROVE  x * K <= y * K
<1>1. PICK d \in Nat : y = x + d
  <2>1. y - x \in Nat /\ y = x + (y - x)
    OBVIOUS
  <2> QED BY <2>1
<1>2. d * K \in Nat
  OBVIOUS
<1>3. y * K = x * K + d * K
  BY <1>1
<1> QED BY <1>2, <1>3

LEMMA Sum ==
    ASSUME NEW t \in Int, NEW w \in Int, NEW L \in Nat, L > 0, NEW x \in Int,
           NEW b \in Int, NEW K \in Nat, (t - w) * L <= b, b <= x * K,
           (w + 1) * L <= K * L
    PROVE  t * L < (x + L) * K
<1>1. t * L = (t - w) * L + w * L /\ (w + 1) * L = w * L + L
  OBVIOUS
<1>2. (x + L) * K = x * K + K * L
  OBVIOUS
<1>3. t * L \in Int /\ (t - w) * L \in Int /\ w * L \in Int /\ K * L \in Int
      /\ x * K \in Int
  OBVIOUS
<1> QED BY <1>1, <1>2, <1>3

\* A lock that has run out pays for a burst.
LEMMA LockPays ==
    ASSUME NEW t \in Nat, NEW w \in Nat, NEW L \in Nat, NEW s \in Int, NEW u \in Int,
           NEW K \in Nat, w <= K, (t - w) * L <= ((u - L) - s) * K
    PROVE  t * L <= (u - s) * K
<1>1. t * L = (t - w) * L + w * L
  OBVIOUS
<1>2. w * L <= K * L
  BY Later
<1>3. ((u - L) - s) * K = (u - s) * K - K * L
  OBVIOUS
<1>4. t * L \in Int /\ (t - w) * L \in Int /\ w * L \in Int /\ K * L \in Int
      /\ ((u - L) - s) * K \in Int /\ (u - s) * K \in Int
  OBVIOUS
<1> QED BY <1>1, <1>2, <1>3, <1>4

\* What becomes of the history of one account when it is opened.
LEMMA AccountOpened ==
    ASSUME TypeOK, NEW E \in SUBSET Email, Opened(E), NEW e \in Email
    PROVE  /\ wrong'[e] = IF e \in E THEN 0 ELSE wrong[e]
           /\ \/ total'[e] = total[e] /\ since'[e] = since[e]
                 /\ openings'[e] = IF e \in E THEN openings[e] + 1 ELSE openings[e]
              \/ e \in E /\ total'[e] = 0 /\ since'[e] = now /\ openings'[e] = 0
           /\ openings'[e] \in 0 .. MaxOpenings
<1>0. openings[e] \in 0 .. MaxOpenings /\ MaxOpenings \in Nat
  BY LockoutAssumption DEF TypeOK
<1>1. /\ wrong'[e] = IF e \in E THEN 0 ELSE wrong[e]
      /\ total'[e] = IF e \in E /\ openings[e] = MaxOpenings THEN 0 ELSE total[e]
      /\ since'[e] = IF e \in E /\ openings[e] = MaxOpenings THEN now ELSE since[e]
      /\ openings'[e] = IF e \in E /\ openings[e] = MaxOpenings THEN 0
                        ELSE IF e \in E THEN openings[e] + 1 ELSE openings[e]
  BY DEF Opened
<1>2. CASE e \in E /\ openings[e] = MaxOpenings
  BY <1>0, <1>1, <1>2
<1>3. CASE e \in E /\ openings[e] # MaxOpenings
  BY <1>0, <1>1, <1>3
<1>4. CASE e \notin E
  BY <1>0, <1>1, <1>4
<1> QED BY <1>2, <1>3, <1>4

LEMMA OpenedTypes ==
    ASSUME TypeOK, NEW E \in SUBSET Email, Opened(E)
    PROVE  /\ wrong' \in [Email -> Nat] /\ total' \in [Email -> Nat]
           /\ since' \in [Email -> Nat] /\ openings' \in [Email -> 0 .. MaxOpenings]
<1>1. /\ DOMAIN wrong' = Email /\ wrong' = [e \in Email |-> wrong'[e]]
      /\ DOMAIN total' = Email /\ total' = [e \in Email |-> total'[e]]
      /\ DOMAIN since' = Email /\ since' = [e \in Email |-> since'[e]]
      /\ DOMAIN openings' = Email /\ openings' = [e \in Email |-> openings'[e]]
  BY DEF Opened
<1>2. \A e \in Email : /\ wrong'[e] \in Nat /\ total'[e] \in Nat /\ since'[e] \in Nat
                       /\ openings'[e] \in 0 .. MaxOpenings
  <2> SUFFICES ASSUME NEW e \in Email
               PROVE  /\ wrong'[e] \in Nat /\ total'[e] \in Nat /\ since'[e] \in Nat
                      /\ openings'[e] \in 0 .. MaxOpenings
    OBVIOUS
  <2> QED BY AccountOpened DEF TypeOK
<1> QED BY <1>1, <1>2

\* The burst that is on starts no earlier than it did, as long as the lock does
\* not run out and the account is not opened.
LEMMA PaidNext ==
    ASSUME LockoutInv, [Next]_vars
    PROVE  \A e \in Email : Paid(e)'
<1> SUFFICES ASSUME NEW e \in Email PROVE Paid(e)'
  OBVIOUS
<1>0. TypeOK
  BY DEF LockoutInv
<1>t. /\ total[e] \in Nat /\ wrong[e] \in Nat /\ since[e] \in Nat /\ now \in Nat
      /\ openings[e] \in Nat
      /\ failedAttempts[e] \in [count : 0 .. MaxFailures - 1, lockedUntil : Nat]
      /\ failedAttempts[e].lockedUntil \in Nat
  BY <1>0, LockoutAssumption DEF TypeOK
<1>c. LockTime \in Nat /\ Burst \in Nat /\ BurstStart(e) \in Int /\ Base(e) \in Int
  BY <1>t, LockoutAssumption, Sizes DEF BurstStart, Base
<1>p. (total[e] - wrong[e]) * LockTime <= (BurstStart(e) - Base(e)) * Burst
  <2>1. BurstStart(e) - since[e] + openings[e] * LockTime = BurstStart(e) - Base(e)
    BY <1>t, <1>c DEF Base
  <2> QED BY <2>1 DEF LockoutInv
<1>s. failedAttempts[e].lockedUntil - LockTime <= now /\ BurstStart(e) <= now
  BY <1>t, <1>c DEF LockoutInv, LocksAreShort, BurstStart
<1>w. wrong[e] <= Burst
  BY <1>t, <1>c, GuessesFew DEF GuessesAreBounded
<1>1. ASSUME NEW b \in Int, BurstStart(e)' = b, BurstStart(e) <= b,
             since'[e] = since[e], openings'[e] = openings[e],
             total'[e] - wrong'[e] = total[e] - wrong[e]
      PROVE  Paid(e)'
  <2>1. (BurstStart(e) - Base(e)) * Burst <= (b - Base(e)) * Burst
    BY <1>t, <1>c, <1>1, Later
  <2>2. /\ (total[e] - wrong[e]) * LockTime \in Int
        /\ (BurstStart(e) - Base(e)) * Burst \in Int
        /\ (b - Base(e)) * Burst \in Int
    BY <1>t, <1>c, <1>1
  <2>3. (total[e] - wrong[e]) * LockTime <= (b - Base(e)) * Burst
    BY <1>p, <2>1, <2>2
  <2>4. b - Base(e) = b - since[e] + openings[e] * LockTime
    BY <1>t, <1>c DEF Base
  <2> QED BY <1>1, <2>3, <2>4 DEF Paid, Burst
<1>2. ASSUME UNCHANGED now, since'[e] = since[e], openings'[e] = openings[e],
             total'[e] = total[e], wrong'[e] = wrong[e],
             failedAttempts'[e] = failedAttempts[e]
      PROVE  Paid(e)'
  <2>1. BurstStart(e)' = BurstStart(e)
    BY <1>2 DEF BurstStart, Locked
  <2> QED BY <1>1, <1>2, <1>c, <2>1
\* The account is opened: the burst so far counts as one more.
<1>3. ASSUME wrong'[e] = 0, now' = now, failedAttempts'[e] = NoEntry,
             \/ total'[e] = total[e] /\ since'[e] = since[e]
                /\ openings'[e] = openings[e] + 1
             \/ total'[e] = 0 /\ since'[e] = now /\ openings'[e] = 0
      PROVE  Paid(e)'
  <2>1. BurstStart(e)' = now
    BY <1>3, <1>t DEF BurstStart, Locked, NoEntry
  <2>2. CASE total'[e] = 0 /\ since'[e] = now /\ openings'[e] = 0
    <3>1. (0 - 0) * LockTime <= (now - now + 0 * LockTime) * Burst
      BY <1>t, <1>c
    <3> QED BY <1>3, <2>1, <2>2, <3>1 DEF Paid, Burst
  <2>3. CASE total'[e] = total[e] /\ since'[e] = since[e]
             /\ openings'[e] = openings[e] + 1
    <3> DEFINE u == BurstStart(e) + LockTime
               v == now + LockTime
    <3>1. u \in Int /\ v \in Int /\ u - LockTime = BurstStart(e) /\ u <= v
      BY <1>t, <1>c, <1>s
    <3> HIDE DEF u
    <3>2. total[e] * LockTime <= (u - Base(e)) * Burst
      BY <1>t, <1>c, <1>w, <1>p, <3>1, LockPays
    <3>3. (u - Base(e)) * Burst <= (v - Base(e)) * Burst
      BY <1>c, <3>1, Later
    <3>4. total[e] * LockTime <= (v - Base(e)) * Burst
      <4>1. /\ total[e] * LockTime \in Int /\ (u - Base(e)) * Burst \in Int
            /\ (v - Base(e)) * Burst \in Int
        BY <1>t, <1>c, <3>1
      <4> QED BY <3>2, <3>3, <4>1
    <3>5. v - Base(e) = now - since[e] + (openings[e] + 1) * LockTime
      BY <1>t, <1>c DEF Base
    <3>6. total'[e] - wrong'[e] = total[e]
      BY <1>3, <1>t, <2>3
    <3> QED BY <1>3, <2>1, <2>3, <3>4, <3>5, <3>6 DEF Paid, Burst
  <2> QED BY <1>3, <2>2, <2>3
<1>4. ASSUME NEW a \in Attempt, Fail(a)
      PROVE  Paid(e)'
  <2>1. CASE e # attempt[a].email
    BY <1>0, <1>2, <1>4, <2>1 DEF Fail, TypeOK
  <2>2. CASE e = attempt[a].email
    <3>1. /\ failedAttempts'[e] = AfterFailure(failedAttempts[e])
          /\ total'[e] = total[e] + 1 /\ wrong'[e] = wrong[e] + 1
          /\ now' = now /\ since' = since /\ openings' = openings
      BY <1>0, <1>4, <2>2 DEF Fail, TypeOK
    <3>2. failedAttempts'[e].lockedUntil
            \in {now + LockTime, failedAttempts[e].lockedUntil}
      BY <1>t, <3>1, AfterFailureEntry
    <3>3. BurstStart(e)' \in Int /\ BurstStart(e) <= BurstStart(e)'
      BY <1>t, <1>c, <1>s, <3>1, <3>2, LockoutAssumption DEF BurstStart, Locked
    <3>4. total'[e] - wrong'[e] = total[e] - wrong[e]
      BY <1>t, <3>1
    <3> QED BY <1>1, <3>1, <3>3, <3>4
  <2> QED BY <2>1, <2>2
<1>5. ASSUME NEW a \in Attempt, Succeed(a)
      PROVE  Paid(e)'
  <2>1. attempt[a].email \in Email
    BY <1>0, <1>5 DEF Succeed, LockoutInv, TypeOK
  <2>2. Opened({attempt[a].email}) /\ now' = now
    BY <1>5 DEF Succeed
  <2>3. CASE e # attempt[a].email
    <3>1. failedAttempts'[e] = failedAttempts[e]
      BY <1>0, <1>5, <2>3 DEF Succeed, TypeOK
    <3> QED BY <1>0, <1>2, <2>1, <2>2, <2>3, <3>1, AccountOpened
  <2>4. CASE e = attempt[a].email
    <3>1. failedAttempts'[e] = NoEntry
      BY <1>0, <1>5, <2>4 DEF Succeed, TypeOK
    <3> QED BY <1>0, <1>3, <2>1, <2>2, <2>4, <3>1, AccountOpened
  <2> QED BY <2>3, <2>4
<1>6. CASE Restart
  BY <1>0, <1>6, <1>3, AccountOpened DEF Restart
<1>7. CASE Tick
  <2>1. /\ now' = now + 1 /\ UNCHANGED <<failedAttempts, total, since, openings>>
        /\ wrong'[e] = IF Locked(e) /\ ~Locked(e)' THEN 0 ELSE wrong[e]
    BY <1>7 DEF Tick
  <2>2. CASE Locked(e) /\ ~Locked(e)'
    <3>1. failedAttempts[e].lockedUntil = now + 1
      BY <1>t, <2>1, <2>2 DEF Locked
    <3>2. BurstStart(e) = failedAttempts[e].lockedUntil - LockTime
          /\ BurstStart(e)' = failedAttempts[e].lockedUntil
      BY <2>1, <2>2, <3>1 DEF BurstStart
    <3>3. total[e] * LockTime <= (failedAttempts[e].lockedUntil - Base(e)) * Burst
      BY <1>t, <1>c, <1>w, <1>p, <3>2, LockPays
    <3>4. total'[e] - wrong'[e] = total[e] /\ since'[e] = since[e]
          /\ openings'[e] = openings[e]
      BY <1>t, <2>1, <2>2
    <3>5. failedAttempts[e].lockedUntil - Base(e)
            = failedAttempts[e].lockedUntil - since[e] + openings[e] * LockTime
      BY <1>t, <1>c DEF Base
    <3> QED BY <3>2, <3>3, <3>4, <3>5 DEF Paid, Burst
  <2>3. CASE ~(Locked(e) /\ ~Locked(e)')
    <3>1. BurstStart(e)' \in Int /\ BurstStart(e) <= BurstStart(e)'
      BY <1>t, <1>c, <2>1, <2>3 DEF BurstStart, Locked
    <3> QED BY <1>1, <2>1, <2>3, <3>1
  <2> QED BY <2>2, <2>3
<1>8. ASSUME NEW a \in Attempt, NEW f \in Email, NEW c \in BOOLEAN, Admit(a, f, c)
      PROVE  Paid(e)'
  BY <1>2, <1>8 DEF Admit, history
<1>9. CASE UNCHANGED vars
  BY <1>2, <1>9 DEF vars, history
<1> QED BY <1>4, <1>5, <1>6, <1>7, <1>8, <1>9 DEF Next

LEMMA LockoutInit == Init => LockoutInv
<1>1. Init => TypeOK
  BY LockoutAssumption DEF Init, TypeOK, NoEntry, Free
<1>2. Init => \A a \in Attempt : attempt[a] = Free
  BY DEF Init
<1>3. Init => \A e \in Email : ~Locked(e) /\ wrong[e] = 0 /\ failedAttempts[e].count = 0
  BY DEF Init, Locked, NoEntry
<1>4. Init => LocksAreShort
  BY LockoutAssumption DEF Init, LocksAreShort, NoEntry
<1>5. ASSUME Init, NEW e \in Email PROVE Paid(e)
  <2>1. /\ total[e] = 0 /\ wrong[e] = 0 /\ since[e] = now /\ BurstStart(e) = now
        /\ openings[e] = 0
        /\ now \in Nat /\ LockTime \in Nat /\ Burst \in Nat
    BY <1>5, <1>3, Sizes, LockoutAssumption DEF Init, BurstStart
  <2>2. (0 - 0) * LockTime <= (now - now + 0 * LockTime) * Burst
    BY <2>1
  <2> QED BY <2>1, <2>2 DEF Paid
<1> QED BY <1>1, <1>2, <1>3, <1>4, <1>5 DEF LockoutInv, Paid

LEMMA LockoutNext == LockoutInv /\ [Next]_vars => LockoutInv'
<1> SUFFICES ASSUME LockoutInv, [Next]_vars PROVE LockoutInv'
  OBVIOUS
<1>0. /\ TypeOK
      /\ \A a \in Attempt : attempt[a].email = None => attempt[a] = Free
      /\ \A e \in Email : Account(e)
  BY DEF LockoutInv, Account
<1>short. LocksAreShort' /\ \A e \in Email : Paid(e)'
  BY <1>0, ShortLocks, PaidNext DEF LockoutInv, Paid
<1> SUFFICES /\ TypeOK'
             /\ (\A a \in Attempt : attempt[a].email = None => attempt[a] = Free)'
             /\ \A e \in Email : Account(e)'
  BY <1>short DEF LockoutInv, Account, Paid
<1>1. ASSUME NEW a \in Attempt, NEW e \in Email, NEW correct \in BOOLEAN,
             Admit(a, e, correct)
      PROVE  /\ TypeOK'
             /\ (\A b \in Attempt : attempt[b].email = None => attempt[b] = Free)'
             /\ \A f \in Email : Account(f)'
  <2>1. TypeOK' /\ (\A b \in Attempt : attempt[b].email = None => attempt[b] = Free)'
    BY <1>0, <1>1, LockoutAssumption DEF Admit, TypeOK, history
  <2>2. ASSUME NEW f \in Email PROVE Account(f)'
    <3>1. Locked(f)' <=> Locked(f)
      BY <1>1 DEF Admit, Locked
    <3>2. Locked(f) => InFlight(f)' = InFlight(f)
      BY <1>0, <1>1, LockoutAssumption DEF Admit, InFlight, TypeOK, Free
    <3> QED BY <1>0, <1>1, <3>1, <3>2 DEF Admit, Account, Burst, history
  <2> QED BY <2>1, <2>2
\* The end of a comparison frees its slot.
<1>free. ASSUME NEW a \in Attempt, attempt[a] # Free, NEW e, e = attempt[a].email,
                attempt' = [attempt EXCEPT ![a] = Free]
         PROVE  /\ e \in Email
                /\ attempt' \in [Attempt -> [email : Email \cup {None}, correct : BOOLEAN]]
                /\ (\A b \in Attempt : attempt[b].email = None => attempt[b] = Free)'
                /\ \A f \in Email : f # e => InFlight(f)' = InFlight(f)
                /\ Cardinality(InFlight(e)') = Cardinality(InFlight(e)) - 1
                /\ Cardinality(InFlight(e)) <= Cardinality(Attempt)
  <2>1. e \in Email
    BY <1>0, <1>free DEF TypeOK
  <2>2. Free \in [email : Email \cup {None}, correct : BOOLEAN]
    BY DEF Free
  <2>3. attempt' \in [Attempt -> [email : Email \cup {None}, correct : BOOLEAN]]
    BY <1>0, <1>free, <2>2 DEF TypeOK
  <2>4. \A b \in Attempt : attempt'[b] = IF b = a THEN Free ELSE attempt[b]
    BY <1>0, <1>free DEF TypeOK
  <2>5. \A f \in Email : InFlight(f)' = InFlight(f) \ {a}
    BY <2>4, LockoutAssumption DEF InFlight, Free
  <2>6. \A f \in Email : f # e => InFlight(f)' = InFlight(f)
    BY <1>free, <2>5 DEF InFlight
  <2>7. a \in InFlight(e)
    BY <1>free DEF InFlight
  <2>8. Cardinality(InFlight(e)') = Cardinality(InFlight(e)) - 1
    BY <2>1, <2>5, <2>7, Sizes, FS_RemoveElement
  <2>9. Cardinality(InFlight(e)) <= Cardinality(Attempt)
    <3>1. InFlight(e) \in SUBSET Attempt
      BY DEF InFlight
    <3> QED BY <3>1, LockoutAssumption, FS_Subset
  <2>10. (\A b \in Attempt : attempt[b].email = None => attempt[b] = Free)'
    BY <1>0, <2>4
  <2> QED BY <2>1, <2>3, <2>6, <2>8, <2>9, <2>10
<1>2. ASSUME NEW a \in Attempt, Fail(a)
      PROVE  /\ TypeOK'
             /\ (\A b \in Attempt : attempt[b].email = None => attempt[b] = Free)'
             /\ \A f \in Email : Account(f)'
  <2>e. PICK e : e = attempt[a].email
    OBVIOUS
  <2> DEFINE n == failedAttempts[e]
  <2>1. /\ attempt[a] # Free
        /\ failedAttempts' = [failedAttempts EXCEPT ![e] = AfterFailure(n)]
        /\ wrong' = [wrong EXCEPT ![e] = wrong[e] + 1]
        /\ total' = [total EXCEPT ![e] = total[e] + 1]
        /\ attempt' = [attempt EXCEPT ![a] = Free]
        /\ UNCHANGED <<now, since, openings>>
    BY <1>2, <2>e DEF Fail
  <2>2. /\ e \in Email
        /\ attempt' \in [Attempt -> [email : Email \cup {None}, correct : BOOLEAN]]
        /\ (\A b \in Attempt : attempt[b].email = None => attempt[b] = Free)'
        /\ \A f \in Email : f # e => InFlight(f)' = InFlight(f)
        /\ Cardinality(InFlight(e)') = Cardinality(InFlight(e)) - 1
        /\ Cardinality(InFlight(e)) <= Cardinality(Attempt)
    BY <1>free, <2>e, <2>1
  <2>3. /\ n \in [count : 0 .. MaxFailures - 1, lockedUntil : Nat]
        /\ wrong[e] \in Nat /\ total[e] \in Nat /\ now \in Nat
    BY <1>0, <2>2 DEF TypeOK
  <2>4. /\ AfterFailure(n) \in [count : 0 .. MaxFailures - 1, lockedUntil : Nat]
        /\ \/ n.count + 1 >= MaxFailures /\ AfterFailure(n).lockedUntil = now + LockTime
              /\ AfterFailure(n).count = 0
           \/ n.count + 1 < MaxFailures /\ AfterFailure(n).lockedUntil = n.lockedUntil
              /\ AfterFailure(n).count = n.count + 1
    BY <2>3, AfterFailureEntry
  <2>5. TypeOK'
    BY <1>0, <2>1, <2>2, <2>3, <2>4 DEF TypeOK
  <2>6. \A f \in Email : f # e => Account(f)'
    <3>1. ASSUME NEW f \in Email, f # e PROVE Account(f)'
      <4>1. failedAttempts'[f] = failedAttempts[f] /\ wrong'[f] = wrong[f]
        BY <1>0, <2>1, <2>2, <3>1 DEF TypeOK
      <4>2. InFlight(f)' = InFlight(f) /\ (Locked(f)' <=> Locked(f))
        BY <2>1, <2>2, <3>1, <4>1 DEF Locked
      <4>3. Account(f)
        BY <1>0
      <4> QED BY <4>1, <4>2, <4>3 DEF Account, Burst
    <3> QED BY <3>1
  <2>7. Account(e)'
    <3>1. failedAttempts'[e] = AfterFailure(n) /\ wrong'[e] = wrong[e] + 1
      BY <1>0, <2>1, <2>2 DEF TypeOK
    <3> DEFINE c == Cardinality(InFlight(e))
               d == Cardinality(InFlight(e)')
               A == Cardinality(Attempt)
    <3>2. c \in Nat /\ A \in Nat /\ d = c - 1 /\ c <= A
      BY <2>2, Sizes
    <3>3. IF n.lockedUntil > now THEN wrong[e] + c < MaxFailures + A
                                 ELSE wrong[e] <= n.count
      BY <1>0, <2>2 DEF Account, Locked, Burst
    <3>4. MaxFailures \in Nat /\ LockTime \in Nat /\ LockTime > 0
      BY LockoutAssumption
    <3> HIDE DEF c, d, A, n
    <3>5. IF AfterFailure(n).lockedUntil > now
          THEN wrong[e] + 1 + d < MaxFailures + A
          ELSE wrong[e] + 1 <= AfterFailure(n).count
      <4>1. n.count \in 0 .. MaxFailures - 1 /\ n.lockedUntil \in Nat
        BY <2>3
      <4>2. CASE n.lockedUntil > now
        BY <2>3, <2>4, <3>2, <3>3, <3>4, <4>1, <4>2
      <4>3. CASE ~(n.lockedUntil > now)
        BY <2>3, <2>4, <3>2, <3>3, <3>4, <4>1, <4>3
      <4> QED BY <4>2, <4>3
    <3> QED BY <2>1, <3>1, <3>5 DEF Account, Locked, Burst, d, A
  <2> QED BY <2>2, <2>5, <2>6, <2>7
<1>3. ASSUME NEW a \in Attempt, Succeed(a)
      PROVE  /\ TypeOK'
             /\ (\A b \in Attempt : attempt[b].email = None => attempt[b] = Free)'
             /\ \A f \in Email : Account(f)'
  <2>e. PICK e : e = attempt[a].email
    OBVIOUS
  <2>1. /\ attempt[a] # Free
        /\ failedAttempts' = [failedAttempts EXCEPT ![e] = NoEntry]
        /\ Opened({e})
        /\ attempt' = [attempt EXCEPT ![a] = Free]
        /\ now' = now
    BY <1>3, <2>e DEF Succeed
  <2>2. /\ e \in Email
        /\ attempt' \in [Attempt -> [email : Email \cup {None}, correct : BOOLEAN]]
        /\ (\A b \in Attempt : attempt[b].email = None => attempt[b] = Free)'
        /\ \A f \in Email : f # e => InFlight(f)' = InFlight(f)
    BY <1>free, <2>e, <2>1
  <2>3. TypeOK'
    BY <1>0, <2>1, <2>2, OpenedTypes, LockoutAssumption DEF TypeOK, NoEntry
  <2>4. ASSUME NEW f \in Email PROVE Account(f)'
    <3>1. CASE f = e
      <4>1. failedAttempts'[f] = NoEntry /\ wrong'[f] = 0
        BY <1>0, <2>1, <2>2, <3>1, AccountOpened DEF TypeOK
      <4> QED BY <1>0, <2>1, <4>1 DEF TypeOK, Account, Locked, NoEntry
    <3>2. CASE f # e
      <4>1. failedAttempts'[f] = failedAttempts[f] /\ wrong'[f] = wrong[f]
        BY <1>0, <2>1, <2>2, <3>2, AccountOpened DEF TypeOK
      <4>2. InFlight(f)' = InFlight(f) /\ (Locked(f)' <=> Locked(f))
        BY <2>1, <2>2, <3>2, <4>1 DEF Locked
      <4>3. Account(f)
        BY <1>0
      <4> QED BY <4>1, <4>2, <4>3 DEF Account, Burst
    <3> QED BY <3>1, <3>2
  <2> QED BY <2>2, <2>3, <2>4
<1>4. CASE Restart
  <2>1. TypeOK' /\ (\A b \in Attempt : attempt[b].email = None => attempt[b] = Free)'
    BY <1>0, <1>4, OpenedTypes, LockoutAssumption DEF Restart, TypeOK, NoEntry, Free
  <2>2. \A f \in Email : Account(f)'
    BY <1>0, <1>4, AccountOpened DEF Restart, TypeOK, Account, Locked, NoEntry
  <2> QED BY <2>1, <2>2
<1>5. CASE Tick
  <2>1. TypeOK' /\ (\A b \in Attempt : attempt[b].email = None => attempt[b] = Free)'
    BY <1>0, <1>5 DEF Tick, TypeOK
  <2>2. ASSUME NEW f \in Email PROVE Account(f)'
    <3>1. wrong'[f] = IF Locked(f) /\ ~Locked(f)' THEN 0 ELSE wrong[f]
      BY <1>5 DEF Tick
    <3>2. InFlight(f)' = InFlight(f) /\ failedAttempts'[f] = failedAttempts[f]
      BY <1>5 DEF Tick, InFlight
    <3>3. failedAttempts[f].count >= 0 /\ (Locked(f)' => Locked(f))
      BY <1>0, <1>5, <3>2 DEF Tick, TypeOK, Locked
    <3>4. Account(f)
      BY <1>0
    <3> QED BY <3>1, <3>2, <3>3, <3>4 DEF Account, Burst
  <2> QED BY <2>1, <2>2
<1>6. CASE UNCHANGED vars
  BY <1>0, <1>6 DEF vars, history, TypeOK, Account, Locked, InFlight, Burst
<1> QED BY <1>1, <1>2, <1>3, <1>4, <1>5, <1>6 DEF Next
-----------------------------------------------------------------------------
THEOREM LockoutInvariant == Spec => []LockoutInv
BY LockoutInit, LockoutNext, PTL DEF Spec

(* However many attempts overlap, fewer than MaxFailures plus the attempts  *)
(* in flight at once are found wrong before the account is open again.      *)
THEOREM GuessesTheorem == Spec => []GuessesAreBounded
BY GuessesFew, LockoutInvariant, PTL

(* A guesser who never gives up finds out no more than one burst of         *)
(* passwords per lock time and per success or restart (each of which clears  *)
(* a lock), and less than one burst more, for any limit, any lock time, any  *)
(* number of attempts at once and a stretch of time of any length.           *)
THEOREM RateTheorem == Spec => []GuessRateIsBounded
<1>1. LockoutInv => GuessRateIsBounded
  <2> SUFFICES ASSUME LockoutInv, NEW e \in Email
               PROVE  total[e] * LockTime
                        < (now - since[e] + (openings[e] + 1) * LockTime) * Burst
    BY DEF GuessRateIsBounded
  <2>1. /\ total[e] \in Nat /\ wrong[e] \in Nat /\ since[e] \in Nat /\ now \in Nat
        /\ openings[e] \in Nat /\ failedAttempts[e].lockedUntil \in Nat
    BY LockoutAssumption DEF LockoutInv, TypeOK
  <2>2. /\ LockTime \in Nat /\ LockTime > 0 /\ Burst \in Nat
        /\ BurstStart(e) \in Int /\ BurstStart(e) <= now /\ Base(e) \in Int
    BY <2>1, LockoutAssumption, Sizes DEF BurstStart, LockoutInv, LocksAreShort, Base
  <2>3. wrong[e] + 1 <= Burst
    BY <2>1, <2>2, GuessesFew DEF GuessesAreBounded
  <2>4. (total[e] - wrong[e]) * LockTime <= (BurstStart(e) - Base(e)) * Burst
    <3>1. BurstStart(e) - since[e] + openings[e] * LockTime = BurstStart(e) - Base(e)
      BY <2>1, <2>2 DEF Base
    <3> QED BY <3>1 DEF LockoutInv
  <2>5. (BurstStart(e) - Base(e)) * Burst <= (now - Base(e)) * Burst
    BY <2>1, <2>2, Later
  <2>6. (wrong[e] + 1) * LockTime <= Burst * LockTime
    BY <2>1, <2>2, <2>3, Later
  <2>7. total[e] * LockTime < ((now - Base(e)) + LockTime) * Burst
    BY <2>1, <2>2, <2>4, <2>5, <2>6, Sum
  <2>8. (now - Base(e)) + LockTime = now - since[e] + (openings[e] + 1) * LockTime
    BY <2>1, <2>2 DEF Base
  <2> QED BY <2>7, <2>8
<1> QED BY <1>1, LockoutInvariant, PTL

(* A failure counted late, after the lock was set, does not bring the end   *)
(* of the lock forward.                                                     *)
THEOREM LockTheorem == Spec => LockNeverShortened
<1>1. ASSUME LockoutInv, [Next]_vars, NEW e \in Email, Locked(e),
             failedAttempts'[e] # NoEntry
      PROVE  failedAttempts'[e].lockedUntil >= failedAttempts[e].lockedUntil
  <2>0. TypeOK /\ failedAttempts[e].lockedUntil \in Nat
    BY <1>1 DEF LockoutInv, TypeOK
  <2>1. CASE failedAttempts'[e] = failedAttempts[e]
    BY <2>0, <2>1
  <2>2. ASSUME NEW a \in Attempt, Fail(a), failedAttempts'[e] # failedAttempts[e]
        PROVE  failedAttempts'[e].lockedUntil >= failedAttempts[e].lockedUntil
    <3>1. failedAttempts'[e] = AfterFailure(failedAttempts[e])
      BY <2>0, <2>2 DEF Fail, TypeOK
    <3>2. AfterFailure(failedAttempts[e]).lockedUntil
            \in {now + LockTime, failedAttempts[e].lockedUntil}
      BY <2>0, AfterFailureEntry DEF TypeOK
    <3>3. now + LockTime >= failedAttempts[e].lockedUntil /\ now + LockTime \in Nat
      BY <1>1, <2>0, LockoutAssumption DEF LockoutInv, LocksAreShort, TypeOK
    <3> QED BY <2>0, <3>1, <3>2, <3>3
  <2>3. ASSUME NEW a \in Attempt, Succeed(a)
        PROVE  failedAttempts'[e] \in {failedAttempts[e], NoEntry}
    BY <2>0, <2>3 DEF Succeed, TypeOK
  <2>4. CASE Restart
    BY <1>1, <2>4 DEF Restart
  <2> QED BY <1>1, <2>1, <2>2, <2>3, <2>4 DEF Next, Admit, Tick, vars, history
<1>2. LockoutInv /\ [Next]_vars
        => [\A e \in Email : Locked(e) /\ failedAttempts'[e] # NoEntry =>
              failedAttempts'[e].lockedUntil >= failedAttempts[e].lockedUntil]_vars
  BY <1>1
<1> QED BY <1>2, LockoutInvariant, PTL DEF Spec, LockNeverShortened
=============================================================================
