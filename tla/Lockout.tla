------------------------------- MODULE Lockout -------------------------------
(***************************************************************************)
(* The account lockout of validateUser in                                  *)
(* src/src/modules/auth/auth.service.ts: a map in the memory of the        *)
(* process, read before bcrypt.compare is awaited and written after it, so *)
(* that attempts on one account overlap.                                   *)
(*                                                                         *)
(* An attempt is admitted (the lock is not held) or refused on the spot,   *)
(* which changes nothing; an admitted attempt ends when its comparison     *)
(* does.  Emails that no active account has never reach the map.           *)
(***************************************************************************)
EXTENDS Integers, FiniteSets

CONSTANTS Email,        \* the emails of active accounts
          Attempt,      \* slots for the comparisons in flight
          None,
          MaxFailures,  \* 5
          LockTime,     \* 15 minutes, in ticks
          MaxOpenings,  \* bound on the openings in a stretch of history
          MaxTime       \* bound on the clock

ASSUME LockoutAssumption == /\ None \notin Email
                            /\ IsFiniteSet(Attempt)
                            /\ MaxFailures \in Nat \ {0}
                            /\ LockTime \in Nat \ {0}
                            /\ MaxOpenings \in Nat
                            /\ MaxTime \in Nat

VARIABLES now,             \* Date.now()
          failedAttempts,  \* the map; an email that is not a key has NoEntry
          attempt,         \* the comparisons in flight, by slot
          wrong,           \* history: failures since the account was last
                           \* opened by a lock running out, a success or a restart
          total,           \* history: failures in the present stretch of time
          since,           \* history: when that began, at an opening
          openings         \* history: the successes and restarts in it since

history == <<wrong, total, since, openings>>
vars == <<now, failedAttempts, attempt, history>>

\* `?? { count: 0, lockedUntil: 0 }'.
NoEntry == [count |-> 0, lockedUntil |-> 0]

Free == [email |-> None, correct |-> FALSE]

TypeOK == /\ now \in Nat
          /\ failedAttempts \in [Email -> [count : 0 .. MaxFailures - 1,
                                           lockedUntil : Nat]]
          /\ attempt \in [Attempt -> [email : Email \cup {None}, correct : BOOLEAN]]
          /\ wrong \in [Email -> Nat]
          /\ total \in [Email -> Nat]
          /\ since \in [Email -> Nat]
          /\ openings \in [Email -> 0 .. MaxOpenings]

Locked(e) == failedAttempts[e].lockedUntil > now

\* FAULT: a failure below the limit writes an entry with no lock.
AfterFailure_LosesLock(entry) ==
    IF entry.count + 1 >= MaxFailures
    THEN [count |-> 0, lockedUntil |-> now + LockTime]
    ELSE [count |-> entry.count + 1, lockedUntil |-> 0]

\* FAULT: the lock is over at the next tick, whatever LockTime says.
AfterFailure_ShortLock(entry) ==
    IF entry.count + 1 >= MaxFailures
    THEN [count |-> 0, lockedUntil |-> now + 1]
    ELSE [entry EXCEPT !.count = @ + 1]

\* The entry after one more failure.
AfterFailure(entry) ==
    IF entry.count + 1 >= MaxFailures
    THEN [count |-> 0, lockedUntil |-> now + LockTime]
    ELSE [entry EXCEPT !.count = @ + 1]
-----------------------------------------------------------------------------
Init == /\ now = 1
        /\ failedAttempts = [e \in Email |-> NoEntry]
        /\ attempt = [a \in Attempt |-> Free]
        /\ wrong = [e \in Email |-> 0]
        /\ total = [e \in Email |-> 0]
        /\ since = [e \in Email |-> now]
        /\ openings = [e \in Email |-> 0]

\* A success or a restart: the accounts are open, whatever lock they had.
\* Beyond MaxOpenings the history begins a stretch of time anew.
Opened(E) ==
    LET Anew(e) == e \in E /\ openings[e] = MaxOpenings IN
    /\ wrong' = [e \in Email |-> IF e \in E THEN 0 ELSE wrong[e]]
    /\ total' = [e \in Email |-> IF Anew(e) THEN 0 ELSE total[e]]
    /\ since' = [e \in Email |-> IF Anew(e) THEN now ELSE since[e]]
    /\ openings' = [e \in Email |-> IF Anew(e) THEN 0
                                   ELSE IF e \in E THEN openings[e] + 1 ELSE openings[e]]

\* FAULT: the lock is not looked at before the comparison.
Admit_Locked(a, e, correct) ==
    /\ attempt[a] = Free
    /\ attempt' = [attempt EXCEPT ![a] = [email |-> e, correct |-> correct]]
    /\ UNCHANGED <<now, failedAttempts, history>>

\* findByEmail has returned, the lock is not held, the comparison starts.
Admit(a, e, correct) ==
    /\ attempt[a] = Free
    /\ ~Locked(e)
    /\ attempt' = [attempt EXCEPT ![a] = [email |-> e, correct |-> correct]]
    /\ UNCHANGED <<now, failedAttempts, history>>

\* The comparison fails: the map is read and written in one go.
Fail(a) ==
    LET e == attempt[a].email IN
    /\ attempt[a] # Free /\ ~attempt[a].correct
    /\ failedAttempts' = [failedAttempts EXCEPT ![e] = AfterFailure(@)]
    /\ wrong' = [wrong EXCEPT ![e] = @ + 1]
    /\ total' = [total EXCEPT ![e] = @ + 1]
    /\ attempt' = [attempt EXCEPT ![a] = Free]
    /\ UNCHANGED <<now, since, openings>>

\* The comparison succeeds: the entry goes, with whatever lock it holds.
Succeed(a) ==
    LET e == attempt[a].email IN
    /\ attempt[a] # Free /\ attempt[a].correct
    /\ failedAttempts' = [failedAttempts EXCEPT ![e] = NoEntry]
    /\ Opened({e})
    /\ attempt' = [attempt EXCEPT ![a] = Free]
    /\ UNCHANGED now

\* The process restarts: the map and the requests are gone.
Restart == /\ failedAttempts' = [e \in Email |-> NoEntry]
           /\ attempt' = [a \in Attempt |-> Free]
           /\ Opened(Email)
           /\ UNCHANGED now

Tick == /\ now < MaxTime
        /\ now' = now + 1
        /\ UNCHANGED <<failedAttempts, attempt, total, since, openings>>
        /\ wrong' = [e \in Email |-> IF Locked(e) /\ ~Locked(e)' THEN 0 ELSE wrong[e]]

Next == \/ \E a \in Attempt, e \in Email, correct \in BOOLEAN : Admit(a, e, correct)
        \/ \E a \in Attempt : Fail(a) \/ Succeed(a)
        \/ Restart
        \/ Tick

Spec == Init /\ [][Next]_vars
-----------------------------------------------------------------------------
\* The most comparisons that can fail before a lock holds all of them off.
Burst == MaxFailures + Cardinality(Attempt)

(* Overlapping attempts get past the check together, but not without end:   *)
(* between two moments at which the account is open again, the passwords    *)
(* that were compared and found wrong are fewer than MaxFailures plus the   *)
(* comparisons that can be in flight at once.                               *)
GuessesAreBounded ==
    \A e \in Email : wrong[e] < Burst

(* However patient the guessing: over any stretch of time no more than a    *)
(* burst of passwords is found wrong for every lock time in it and for       *)
(* every success or restart in it, and less than one burst more.  A success  *)
(* clears a lock that guesses overlapping with it have set (line 83), and a   *)
(* restart clears them all: each buys a guesser one burst, and no sequence   *)
(* of failures, successes, restarts and locks running out adds up to more.   *)
GuessRateIsBounded ==
    \A e \in Email :
        total[e] * LockTime < (now - since[e] + (openings[e] + 1) * LockTime) * Burst

InFlight(e) == {a \in Attempt : attempt[a].email = e}

LocksAreShort == \A e \in Email : failedAttempts[e].lockedUntil <= now + LockTime

\* When the lock was set, or now: the guesses of the bursts before this one
\* were paid for with locks that had run out by then.
BurstStart(e) == IF Locked(e) THEN failedAttempts[e].lockedUntil - LockTime ELSE now

\* The inductive invariant behind the two: an open account has counted every
\* wrong guess, and a locked one can only lose the comparisons that were in
\* flight when it was locked.
LockoutInv ==
    /\ TypeOK
    /\ \A a \in Attempt : attempt[a].email = None => attempt[a] = Free
    /\ LocksAreShort
    /\ \A e \in Email :
         IF Locked(e)
         THEN wrong[e] + Cardinality(InFlight(e)) < Burst
         ELSE wrong[e] <= failedAttempts[e].count
    /\ \A e \in Email :
         (total[e] - wrong[e]) * LockTime
             <= (BurstStart(e) - since[e] + openings[e] * LockTime) * Burst

(* A failure that was in flight when the lock was set, and is counted after *)
(* it, never brings the end of the lock forward; only forgetting the entry  *)
(* does.                                                                    *)
LockNeverShortened ==
    [][\A e \in Email :
         Locked(e) /\ failedAttempts'[e] # NoEntry =>
             failedAttempts'[e].lockedUntil >= failedAttempts[e].lockedUntil]_vars
=============================================================================
