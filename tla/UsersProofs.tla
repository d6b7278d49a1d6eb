---------------------------- MODULE UsersProofs ----------------------------
(***************************************************************************)
(* Emails stay apart, passwords are overwritten by those who were shown    *)
(* them, and a walk through the pages skips no more users than leave: for  *)
(* any number of users, of overlapping requests and of users on a page.    *)
(*                                                                         *)
(* The walk is the part with an argument.  A row is on the page that its   *)
(* position says, the number of listed rows created after it.  No two rows *)
(* share one, and when n rows leave the listing none moves up by more than *)
(* n, so that at most n rows ahead of the walk fall behind it; and the     *)
(* positions have no gaps, so that after a page that is not full there is  *)
(* nobody.                                                                 *)
(***************************************************************************)
EXTENDS Users, FiniteSetTheorems, FunctionTheorems, TLAPS

Scope == {"organization", "all"}

Above(scope, u) == {v \in Listed(scope) : row[v].createdAt > row[u].createdAt}

LEMMA Sizes ==
    ASSUME NEW S \in SUBSET User
    PROVE  IsFiniteSet(S) /\ Cardinality(S) \in Nat
BY UsersAssumption, FS_Subset, FS_CardinalityType

LEMMA ListedRows == \A scope : Listed(scope) \in SUBSET Rows /\ Rows \in SUBSET User
BY DEF Listed, Rows

LEMMA PositionType ==
    ASSUME NEW scope, NEW u
    PROVE  Position(scope, u) \in Nat /\ Above(scope, u) \in SUBSET User
           /\ Position(scope, u) = Cardinality(Above(scope, u))
           /\ IsFiniteSet(Above(scope, u))
<1>1. Above(scope, u) \in SUBSET User
  BY ListedRows DEF Above
<1> QED BY <1>1, Sizes DEF Position, Above

LEMMA RowType ==
    ASSUME TypeOK, NEW u \in Rows
    PROVE  row[u] \in Row /\ row[u].createdAt \in Nat
BY DEF TypeOK, Rows, Row

\* Who is above another has a smaller position.
LEMMA PositionsDescend ==
    ASSUME TypeOK, NEW scope, NEW u \in Rows, NEW v \in Above(scope, u)
    PROVE  Position(scope, v) < Position(scope, u)
<1>1. v \in Rows
  BY ListedRows DEF Above
<1>2. Above(scope, v) \subseteq Above(scope, u)
  BY <1>1, ListedRows, RowType DEF Above
<1>3. v \notin Above(scope, v)
  BY <1>1, RowType DEF Above
<1>4. /\ Cardinality(Above(scope, v)) <= Cardinality(Above(scope, u))
      /\ Cardinality(Above(scope, u)) # Cardinality(Above(scope, v))
  BY <1>2, <1>3, PositionType, FS_Subset
<1> QED BY <1>4, PositionType

LEMMA PositionsDiffer ==
    ASSUME TypeOK, CreatedInTurn, NEW scope, NEW v \in Listed(scope),
           NEW w \in Listed(scope), v # w
    PROVE  Position(scope, v) # Position(scope, w)
<1>1. v \in Rows /\ w \in Rows
  BY ListedRows
<1>2. row[v].createdAt # row[w].createdAt
  BY <1>1 DEF CreatedInTurn
<1>3. row[v].createdAt \in Nat /\ row[w].createdAt \in Nat
  BY <1>1, RowType
<1>4. v \in Above(scope, w) \/ w \in Above(scope, v)
  BY <1>2, <1>3 DEF Above
<1> QED BY <1>1, <1>4, PositionsDescend, PositionType

\* Every position before that of a row is taken by a row above it.
LEMMA NoGaps ==
    ASSUME TypeOK, CreatedInTurn, NEW scope, NEW u \in Rows,
           NEW i \in 0 .. Position(scope, u) - 1
    PROVE  \E v \in Above(scope, u) : Position(scope, v) = i
<1> DEFINE A == Above(scope, u)
           T == 0 .. Position(scope, u) - 1
           f == [v \in A |-> Position(scope, v)]
<1>1. A \subseteq Rows /\ IsFiniteSet(A) /\ Cardinality(A) = Position(scope, u)
      /\ Position(scope, u) \in Nat
  BY PositionType, ListedRows DEF Above
<1>2. f \in [A -> T]
  <2>1. \A v \in A : Position(scope, v) \in Nat /\ Position(scope, v) < Position(scope, u)
    BY PositionType, PositionsDescend
  <2> QED BY <2>1, <1>1
<1>3. \A v, w \in A : v # w => f[v] # f[w]
  BY <1>1, PositionsDiffer DEF Above
<1>4. f \in Injection(A, T)
  BY <1>2, <1>3 DEF Injection, IsInjective
<1>5. IsFiniteSet(T) /\ Cardinality(T) = Position(scope, u)
  BY <1>1, FS_Interval
<1>6. f \in Surjection(A, T)
  BY <1>1, <1>4, <1>5, FS_Injection
<1>7. \E v \in A : f[v] = i
  BY <1>6 DEF Surjection
<1> QED BY <1>7

\* Nobody is behind a page that is not full.
LEMMA ShortPage ==
    ASSUME TypeOK, CreatedInTurn, NEW scope, NEW page \in Nat \ {0},
           Cardinality(PageOf(scope, page)) < Limit, NEW u \in Listed(scope)
    PROVE  Position(scope, u) < Skip(page) + Limit
<1> SUFFICES ASSUME ~(Position(scope, u) < Skip(page) + Limit) PROVE FALSE
  OBVIOUS
<1>1. Skip(page) \in Nat /\ Limit \in Nat /\ Position(scope, u) \in Nat
  BY UsersAssumption, PositionType DEF Skip
<1> DEFINE J == Skip(page) .. Skip(page) + Limit - 1
           P == PageOf(scope, page)
           h == [i \in J |-> CHOOSE v \in Above(scope, u) : Position(scope, v) = i]
<1>2. u \in Rows
  BY ListedRows
<1>3. \A i \in J : h[i] \in Above(scope, u) /\ Position(scope, h[i]) = i
  <2> SUFFICES ASSUME NEW i \in J
               PROVE  \E v \in Above(scope, u) : Position(scope, v) = i
    OBVIOUS
  <2>1. i \in 0 .. Position(scope, u) - 1
    BY <1>1
  <2> QED BY <1>2, <2>1, NoGaps
<1>4. \A i \in J : h[i] \in P
  BY <1>3 DEF PageOf, Above
<1>5. h \in Injection(J, P)
  <2>1. h \in [J -> P]
    BY <1>4
  <2> HIDE DEF h, J, P
  <2>2. \A i, j \in J : h[i] = h[j] => i = j
    BY <1>3
  <2> QED BY <2>1, <2>2 DEF Injection, IsInjective
<1>6. IsFiniteSet(P) /\ Cardinality(P) \in Nat
  <2>1. P \in SUBSET User
    BY ListedRows DEF PageOf
  <2> QED BY <2>1, Sizes
<1>7. Cardinality(J) <= Cardinality(P)
  BY <1>5, <1>6, FS_Injection
<1>8. Cardinality(J) = Limit
  BY <1>1, FS_Interval, UsersAssumption
<1> QED BY <1>1, <1>6, <1>7, <1>8
-----------------------------------------------------------------------------
\* What UsersInv says of one request and of the walk.
Sound(q) == q # None /\ q.op # "insert" =>
              /\ q.user \in Rows
              /\ q.op = "write" /\ ~q.overtaken => row[q.user].password = q.presented

Ahead(k) == k # None =>
              /\ k.stayed \subseteq Listed(k.scope)
              /\ ~k.ended => Cardinality(Skipped(k)) <= k.left
              /\ k.ended => Cardinality(k.stayed \ k.seen) <= k.left

Table == /\ row \in [User -> Row \cup {None}]
         /\ member \subseteq Rows
         /\ EmailsAreUnique /\ CreatedInTurn

LEMMA InvParts == UsersInv <=> /\ TypeOK /\ Table
                               /\ \A w \in Worker : Sound(request[w])
                               /\ Ahead(walk)
BY DEF UsersInv, TypeOK, Table, Sound, Ahead, OverwriteIsEarned, FewAreSkipped

LEMMA InitUsers == Init => UsersInv
<1> SUFFICES ASSUME Init PROVE UsersInv
  OBVIOUS
<1>1. Cardinality(User) \in Nat
  BY Sizes
<1>2. row \in [User -> Row \cup {None}]
  <2>1. [email : Email, password : Password \cup {None}, active : BOOLEAN,
         createdAt : 1 .. Cardinality(User)] \subseteq Row
    BY <1>1 DEF Row
  <2> QED BY <2>1 DEF Init
<1>3. TypeOK /\ Table
  BY <1>2 DEF Init, TypeOK, Table, Rows
<1> QED BY <1>3, InvParts DEF Init, Sound, Ahead

\* Steps that leave the table of users alone.
LEMMA QuietStep ==
    ASSUME UsersInv, UNCHANGED row, member' \subseteq Rows,
           request' \in [Worker -> Slot \cup {None}],
           \A w \in Worker : Sound(request'[w]),
           walk' \in Walk \cup {None}, Ahead(walk)'
    PROVE  UsersInv'
<1>1. TypeOK /\ Table
  BY InvParts
<1>2. Rows' = Rows /\ EmailsAreUnique' /\ CreatedInTurn'
  BY <1>1 DEF Rows, Table, EmailsAreUnique, CreatedInTurn
<1>3. TypeOK'
  BY <1>1, ListedRows DEF TypeOK
<1>4. \A w \in Worker : Sound(request[w])'
  BY <1>2 DEF Sound
<1> QED BY <1>2, <1>3, <1>4 DEF UsersInv, Sound, Ahead, OverwriteIsEarned, FewAreSkipped

LEMMA SameWalk ==
    ASSUME Ahead(walk), UNCHANGED <<row, member, walk>>
    PROVE  Ahead(walk)'
BY DEF Ahead, Skipped, Listed, Rows, Position, Skip

\* A step that leaves the table and the walk alone and starts one request.
LEMMA StartStep ==
    ASSUME UsersInv, NEW w \in Worker, NEW slot \in Slot, Sound(slot), Start(w, slot)
    PROVE  UsersInv'
<1>1. /\ TypeOK /\ Table /\ Ahead(walk) /\ \A x \in Worker : Sound(request[x])
      /\ UNCHANGED <<row, member, walk>> /\ request' = [request EXCEPT ![w] = slot]
  BY InvParts DEF Start
<1>2. request' \in [Worker -> Slot \cup {None}] /\ \A x \in Worker : Sound(request'[x])
  BY <1>1 DEF TypeOK
<1> QED BY <1>1, <1>2, SameWalk, QuietStep DEF TypeOK, Table

\* A step that rewrites one row, in which its place in the listing is the same.
LEMMA RewriteStep ==
    ASSUME UsersInv, NEW u \in Rows, NEW r \in Row,
           row' = [row EXCEPT ![u] = r], UNCHANGED <<member, walk>>,
           r.createdAt = row[u].createdAt,
           \A v \in Rows \ {u} : row[v].email # r.email,
           request' \in [Worker -> Slot \cup {None}],
           \A w \in Worker : request'[w] # None /\ request'[w].op # "insert" =>
               /\ request'[w].user \in Rows
               /\ request'[w].op = "write" /\ ~request'[w].overtaken =>
                    request'[w].presented = IF request'[w].user = u THEN r.password
                                            ELSE row[request'[w].user].password
    PROVE  UsersInv'
<1>1. TypeOK /\ Table /\ Ahead(walk)
  BY InvParts
<1>2. u \in User /\ row[u] # None /\ r # None
  BY NoneIsNoUserRecord DEF Rows
<1>3. /\ \A v \in User : row'[v] = IF v = u THEN r ELSE row[v]
      /\ row' \in [User -> Row \cup {None}]
  BY <1>1, <1>2 DEF TypeOK
<1>4. Rows' = Rows
  BY <1>2, <1>3 DEF Rows
<1>5. \A v \in Rows : row'[v].createdAt = row[v].createdAt
  BY <1>2, <1>3, <1>4 DEF Rows
<1>6. TypeOK'
  BY <1>1, <1>3 DEF TypeOK
<1>7. EmailsAreUnique'
  BY <1>1, <1>3, <1>4 DEF Table, EmailsAreUnique, Rows
<1>8. CreatedInTurn'
  BY <1>1, <1>4, <1>5 DEF Table, CreatedInTurn
<1>9. \A scope \in Scope : Listed(scope)' = Listed(scope)
  BY <1>4 DEF Listed
<1>10. \A scope \in Scope, v \in Rows : Position(scope, v)' = Position(scope, v)
  BY <1>4, <1>5 DEF Position, Listed
<1>11. \A w \in Worker : Sound(request[w])'
  <2>1. \A v \in Rows : row'[v].password = IF v = u THEN r.password ELSE row[v].password
    BY <1>3 DEF Rows
  <2> QED BY <1>4, <2>1 DEF Sound
<1>12. OverwriteIsEarned'
  BY <1>11 DEF OverwriteIsEarned, Sound
<1>13. walk # None =>
         /\ walk.scope \in Scope /\ walk.stayed \subseteq Rows
         /\ walk.stayed \subseteq Listed(walk.scope)'
         /\ ~walk.ended => Cardinality(Skipped(walk)') <= walk.left
  <2> SUFFICES ASSUME walk # None, NEW scope \in Scope, walk.scope = scope
               PROVE  /\ walk.stayed \subseteq Rows
                      /\ walk.stayed \subseteq Listed(scope)'
                      /\ ~walk.ended => Cardinality(Skipped(walk)') <= walk.left
    BY <1>1 DEF TypeOK, Walk, Scope, Listed
  <2>1. walk.stayed \subseteq Listed(scope)
    BY <1>1 DEF Ahead
  <2>2. \A v \in walk.stayed : Position(walk.scope, v)' = Position(walk.scope, v)
    BY <1>10, <2>1, ListedRows DEF Position, Listed
  <2>3. Skipped(walk)' = Skipped(walk)
    BY <2>2 DEF Skipped, Skip
  <2> QED BY <1>1, <1>9, <2>1, <2>3, ListedRows DEF Ahead
<1>14. FewAreSkipped'
  BY <1>1 DEF Ahead, FewAreSkipped
<1> QED BY <1>1, <1>4, <1>6, <1>7, <1>8, <1>11, <1>12, <1>13, <1>14
        DEF UsersInv, Table, Sound, Listed, Position, Skip

\* When the listing changes, no more fall behind a line than leave it.
LEMMA FallBehind ==
    ASSUME TypeOK, CreatedInTurn, Rows' \subseteq User, Rows \subseteq Rows',
           \A v \in Rows : row'[v].createdAt = row[v].createdAt,
           NEW scope, NEW S \in SUBSET Listed(scope), NEW line \in Int
    PROVE  Cardinality({u \in S \cap Listed(scope)' : Position(scope, u)' < line})
             <= Cardinality({u \in S : Position(scope, u) < line})
                + Cardinality(Leaving(scope))
<1> DEFINE B == {u \in S : Position(scope, u) < line}
           C == {u \in S \cap Listed(scope)' : Position(scope, u)' < line}
           L == Leaving(scope)
           d == Cardinality(L)
           J == line .. line + d - 1
           f == [u \in C \ B |-> Position(scope, u)]
<1>1. /\ S \in SUBSET User /\ B \in SUBSET User /\ C \in SUBSET User /\ L \in SUBSET User
  BY ListedRows DEF Leaving
<1>2. /\ IsFiniteSet(B) /\ IsFiniteSet(C) /\ IsFiniteSet(L) /\ IsFiniteSet(C \ B)
      /\ Cardinality(B) \in Nat /\ Cardinality(C) \in Nat /\ d \in Nat
      /\ Cardinality(C \ B) \in Nat
  BY <1>1, Sizes
<1>3. ASSUME NEW u \in C \ B PROVE f[u] \in J
  <2>1. u \in Rows /\ u \in Listed(scope) /\ Position(scope, u)' < line
        /\ ~(Position(scope, u) < line)
    BY <1>3, ListedRows
  <2>2. Above(scope, u) \subseteq Above(scope, u)' \cup L
    BY <2>1, ListedRows DEF Above, Leaving
  <2>3. Above(scope, u)' \in SUBSET User
    BY DEF Above, Listed
  <2>4. /\ IsFiniteSet(Above(scope, u)') /\ Cardinality(Above(scope, u)') \in Nat
        /\ Position(scope, u)' = Cardinality(Above(scope, u)')
    BY <2>3, Sizes DEF Position, Above
  <2>5. /\ IsFiniteSet(Above(scope, u)' \cup L)
        /\ Cardinality(Above(scope, u)' \cup L) \in Nat
        /\ Cardinality(Above(scope, u)' \cup L) <= Cardinality(Above(scope, u)') + d
    <3>1. Above(scope, u)' \cup L \in SUBSET User
      BY <2>3, <1>1
    <3>2. Above(scope, u)' \cap L \in SUBSET User
      BY <1>1
    <3>3. Cardinality(Above(scope, u)' \cup L)
            = Cardinality(Above(scope, u)') + d - Cardinality(Above(scope, u)' \cap L)
      BY <1>2, <2>4, FS_Union
    <3> HIDE DEF L
    <3> QED BY <1>2, <2>4, <3>1, <3>2, <3>3, Sizes
  <2>6. Position(scope, u) <= Cardinality(Above(scope, u)' \cup L)
    BY <2>2, <2>5, PositionType, FS_Subset
  <2>7. f[u] = Position(scope, u) /\ Position(scope, u) \in Nat
    BY <1>3, PositionType
  <2> HIDE DEF f, d, L
  <2> QED BY <1>2, <2>1, <2>4, <2>5, <2>6, <2>7
<1>4. f \in Injection(C \ B, J)
  <2>1. f \in [C \ B -> J]
    BY <1>3
  <2>2. \A u, v \in C \ B : f[u] = f[v] => u = v
    BY PositionsDiffer
  <2> HIDE DEF f, J, B, C
  <2> QED BY <2>1, <2>2 DEF Injection, IsInjective
<1>5. IsFiniteSet(J) /\ Cardinality(J) = d
  <2>1. line + d - 1 \in Int
    BY <1>2
  <2>2. Cardinality(J) = IF line > line + d - 1 THEN 0 ELSE (line + d - 1) - line + 1
    BY <2>1, FS_Interval
  <2> QED BY <1>2, <2>1, <2>2, FS_Interval
<1> HIDE DEF B, C, L, J, f, d
<1>6. Cardinality(C \ B) <= d
  BY <1>4, <1>5, FS_Injection
<1>7. Cardinality(C) <= Cardinality(B) + Cardinality(C \ B)
  <2>1. C \subseteq B \cup (C \ B) /\ B \cap (C \ B) = {}
    OBVIOUS
  <2>2. Cardinality(B \cup (C \ B)) = Cardinality(B) + Cardinality(C \ B)
    BY <1>2, <2>1, FS_Union, FS_EmptySet
  <2>3. IsFiniteSet(B \cup (C \ B))
    BY <1>2, FS_Union
  <2> QED BY <2>1, <2>2, <2>3, FS_Subset
<1> QED BY <1>2, <1>6, <1>7 DEF B, C, L, d

\* A step that changes the listing keeps the count of the walk.
LEMMA WatchStep ==
    ASSUME TypeOK, CreatedInTurn, Ahead(walk), Watch, Rows' \subseteq User,
           Rows \subseteq Rows',
           \A v \in Rows : row'[v].createdAt = row[v].createdAt
    PROVE  walk' \in Walk \cup {None} /\ Ahead(walk)'
<1>1. CASE walk = None
  BY <1>1, NoneIsNoUserRecord DEF Watch, Ahead
<1>2. CASE walk # None
  <2>1. PICK scope \in Scope :
          /\ walk.scope = scope
          /\ walk' = [walk EXCEPT !.stayed = @ \cap Listed(scope)',
                                  !.left = @ + Cardinality(Leaving(scope))]
    BY <1>2 DEF Watch, Scope
  <2> DEFINE d == Cardinality(Leaving(scope))
             S == walk.stayed \ walk.seen
  <2>2. walk \in Walk
    BY <1>2 DEF TypeOK
  <2>d. d \in Nat
    <3>1. Leaving(scope) \in SUBSET User
      BY ListedRows DEF Leaving
    <3> QED BY <3>1, Sizes
  <2> HIDE DEF d
  <2>3. /\ walk'.scope = scope /\ walk'.page = walk.page /\ walk'.seen = walk.seen
        /\ walk'.ended = walk.ended
        /\ walk'.stayed = walk.stayed \cap Listed(scope)'
        /\ walk'.left = walk.left + d
    BY <2>1, <2>2 DEF Walk, d
  <2>4. walk' \in Walk
    <3>1. PICK n \in Nat : n = walk.left + d
      BY <2>2, <2>d DEF Walk
    <3>2. walk' = [walk EXCEPT !.stayed = walk.stayed \cap Listed(scope)', !.left = n]
      BY <2>1, <2>2, <3>1 DEF d, Walk
    <3> QED BY <2>2, <3>2 DEF Walk
  <2>5. /\ walk.left \in Nat /\ walk.page \in Nat /\ Skip(walk.page) \in Int
        /\ walk.stayed \subseteq Listed(scope) /\ walk.stayed \in SUBSET User
    BY <1>2, <2>1, <2>2, UsersAssumption DEF Walk, Skip, Ahead
  <2>6. ASSUME ~walk'.ended PROVE Cardinality(Skipped(walk)') <= walk'.left
    <3>1. Cardinality(Skipped(walk)) <= walk.left
      BY <1>2, <2>3, <2>6 DEF Ahead
    <3>2. Skipped(walk) = {u \in S : Position(scope, u) < Skip(walk.page)}
      BY <2>1 DEF Skipped
    <3>3. Skipped(walk)' = {u \in S \cap Listed(scope)' :
                               Position(scope, u)' < Skip(walk.page)}
      <4>1. walk'.stayed \ walk'.seen = S \cap Listed(scope)'
        BY <2>3
      <4>2. \A u : Position(walk.scope, u)' = Position(scope, u)'
        BY <2>3 DEF Position, Listed
      <4>3. Skip(walk.page)' = Skip(walk.page)
        BY <2>3 DEF Skip
      <4> QED BY <4>1, <4>2, <4>3 DEF Skipped
    <3>4. Cardinality(Skipped(walk)') <= Cardinality(Skipped(walk)) + d
      <4>1. S \in SUBSET Listed(scope)
        BY <2>5
      <4> HIDE DEF S
      <4> QED BY <3>2, <3>3, <4>1, <2>5, FallBehind DEF d
    <3>5. Cardinality(Skipped(walk)) \in Nat /\ Cardinality(Skipped(walk)') \in Nat
      <4>1. Skipped(walk) \in SUBSET User /\ Skipped(walk)' \in SUBSET User
        BY <2>5, <3>2, <3>3
      <4> QED BY <4>1, Sizes
    <3> QED BY <2>3, <2>5, <2>d, <3>1, <3>4, <3>5
  <2>7. ASSUME walk'.ended PROVE Cardinality(walk'.stayed \ walk'.seen) <= walk'.left
    <3>1. Cardinality(S) <= walk.left
      BY <1>2, <2>3, <2>7 DEF Ahead
    <3>2. walk'.stayed \ walk'.seen \subseteq S /\ S \in SUBSET User
          /\ walk'.stayed \ walk'.seen \in SUBSET User
      BY <2>3, <2>5
    <3> HIDE DEF S
    <3>3. /\ Cardinality(walk'.stayed \ walk'.seen) <= Cardinality(S)
          /\ Cardinality(walk'.stayed \ walk'.seen) \in Nat /\ Cardinality(S) \in Nat
      BY <3>2, Sizes, FS_Subset
    <3> QED BY <2>3, <2>5, <2>d, <3>1, <3>3
  <2>8. walk'.stayed \subseteq Listed(walk.scope)'
    BY <2>3 DEF Listed
  <2> QED BY <2>4, <2>6, <2>7, <2>8 DEF Ahead
<1> QED BY <1>1, <1>2

\* The walk moves on: who was on the page is seen, and who is ahead is ahead.
LEMMA FindAllStep ==
    ASSUME UsersInv, FindAll
    PROVE  walk' \in Walk \cup {None} /\ Ahead(walk)'
<1>1. TypeOK /\ Table /\ Ahead(walk) /\ walk # None /\ ~walk.ended
  BY InvParts DEF FindAll
<1>2. PICK scope \in Scope : scope = walk.scope
  BY <1>1 DEF TypeOK, Walk, Scope
<1> DEFINE found == PageOf(scope, walk.page)
<1>3. /\ walk \in Walk /\ walk.page \in Nat \ {0} /\ found \in SUBSET User
      /\ walk.stayed \subseteq Listed(scope)
  BY <1>1, <1>2, ListedRows DEF TypeOK, Walk, PageOf, Ahead
<1>4. walk' = [walk EXCEPT !.page = @ + 1, !.seen = @ \cup found,
                           !.ended = Cardinality(found) < Limit]
      /\ UNCHANGED row /\ UNCHANGED member
  BY <1>2 DEF FindAll
<1> HIDE DEF found
<1>5. /\ walk'.page = walk.page + 1 /\ walk'.seen = walk.seen \cup found
      /\ walk'.ended = (Cardinality(found) < Limit)
      /\ walk'.scope = scope /\ walk'.stayed = walk.stayed /\ walk'.left = walk.left
  BY <1>2, <1>3, <1>4 DEF Walk
<1>6. walk' \in Walk
  <2>1. PICK b \in BOOLEAN : walk'.ended = b
    <3>1. (Cardinality(found) < Limit) \in BOOLEAN
      BY <1>3, Sizes, UsersAssumption
    <3> QED BY <1>5, <3>1
  <2>2. PICK k \in Nat \ {0} : k = walk.page + 1
    BY <1>3
  <2>3. PICK S \in SUBSET User : S = walk.seen \cup found
    BY <1>3 DEF Walk
  <2>4. walk' = [walk EXCEPT !.page = k, !.seen = S, !.ended = b]
    BY <1>3, <1>4, <2>1, <2>2, <2>3 DEF Walk
  <2> QED BY <1>3, <2>4 DEF Walk
<1>7. Skip(walk.page + 1) = Skip(walk.page) + Limit /\ Skip(walk.page) \in Int
  <2>1. walk.page \in Int /\ Limit \in Int
    BY <1>3, UsersAssumption
  <2> QED BY <2>1, UsersAssumption DEF Skip
\* Who is unseen and behind the next page was so behind this one.
<1>8. ASSUME NEW u \in walk.stayed \ (walk.seen \cup found),
             Position(scope, u) < Skip(walk.page + 1)
      PROVE  u \in Skipped(walk)
  <2>1. u \in Listed(scope) /\ Position(scope, u) \in Nat
    BY <1>3, <1>8, PositionType
  <2>2. Position(scope, u) \notin Skip(walk.page) .. Skip(walk.page) + Limit - 1
    BY <1>8, <2>1 DEF found, PageOf
  <2>3. Position(scope, u) < Skip(walk.page)
    BY <1>7, <1>8, <2>1, <2>2, UsersAssumption
  <2> QED BY <1>2, <1>8, <2>3 DEF Skipped
<1>9. Cardinality(Skipped(walk)) <= walk.left /\ walk.left \in Nat
      /\ Skipped(walk) \in SUBSET User
  BY <1>1, <1>3 DEF Ahead, Walk, Skipped
<1>10. ASSUME NEW T \in SUBSET Skipped(walk) PROVE Cardinality(T) <= walk.left
  <2>1. T \in SUBSET User
    BY <1>9
  <2> QED BY <1>9, <2>1, Sizes, FS_Subset
<1>11. walk'.stayed \subseteq Listed(walk.scope)'
  BY <1>3, <1>4, <1>5 DEF Listed, Rows
<1>12. Skipped(walk)' \subseteq Skipped(walk)
  <2>1. \A u : Position(walk.scope, u)' = Position(scope, u)
    BY <1>4, <1>5 DEF Position, Listed, Rows
  <2>2. Skip(walk.page)' = Skip(walk.page + 1)
    BY <1>5 DEF Skip
  <2> QED BY <1>5, <1>8, <2>1, <2>2 DEF Skipped
<1>13. ASSUME walk'.ended PROVE walk'.stayed \ walk'.seen \subseteq Skipped(walk)
  <2> SUFFICES ASSUME NEW u \in walk.stayed \ (walk.seen \cup found)
               PROVE  Position(scope, u) < Skip(walk.page + 1)
    BY <1>5, <1>8
  <2>1. u \in Listed(scope) /\ Cardinality(found) < Limit
    BY <1>3, <1>5, <1>13
  <2> QED BY <1>1, <1>3, <1>7, <2>1, ShortPage DEF Table, found
<1> QED BY <1>5, <1>6, <1>10, <1>11, <1>12, <1>13 DEF Ahead

\* What every write of a password of u does to the other requests.
LEMMA OvertakeStep ==
    ASSUME TypeOK, NEW u \in Rows, NEW requests \in [Worker -> Slot \cup {None}],
           \A w \in Worker : requests[w] = request[w] \/ requests[w] = None,
           \A w \in Worker : Sound(request[w])
    PROVE  /\ Overtake(u, requests) \in [Worker -> Slot \cup {None}]
           /\ \A w \in Worker :
                LET q == Overtake(u, requests)[w] IN
                q # None /\ q.op # "insert" =>
                  /\ q.user \in Rows
                  /\ q.op = "write" /\ ~q.overtaken =>
                       q.user # u /\ q.presented = row[q.user].password
<1> SUFFICES ASSUME NEW w \in Worker
             PROVE  /\ Overtake(u, requests)[w] \in Slot \cup {None}
                    /\ LET q == Overtake(u, requests)[w] IN
                       q # None /\ q.op # "insert" =>
                         /\ q.user \in Rows
                         /\ q.op = "write" /\ ~q.overtaken =>
                              q.user # u /\ q.presented = row[q.user].password
  BY DEF Overtake
<1> DEFINE s == requests[w]
           hit == s # None /\ s.op = "write" /\ s.user = u
           t == [s EXCEPT !.overtaken = TRUE]
<1>1. Overtake(u, requests)[w] = IF hit THEN t ELSE s
  BY DEF Overtake
<1>2. s \in Slot \cup {None} /\ Sound(s)
  BY DEF Sound
<1>3. CASE hit
  <2>1. s \in [op : {"write"}, user : User, presented : Password \cup {None},
               overtaken : BOOLEAN]
    BY <1>2, <1>3 DEF Slot
  <2>2. t \in Slot /\ t.user = u /\ t.overtaken /\ t.op = "write"
    BY <2>1, <1>3 DEF Slot
  <2> QED BY <1>1, <1>3, <2>2
<1>4. CASE ~hit
  BY <1>1, <1>2, <1>4 DEF Sound
<1> QED BY <1>3, <1>4
-----------------------------------------------------------------------------
LEMMA CreateStep ==
    ASSUME UsersInv, NEW w \in Worker, NEW u \in User, NEW p \in Password,
           NEW joined \in BOOLEAN, CreateUser(w, u, p, joined)
    PROVE  UsersInv'
<1>1. /\ TypeOK /\ Table /\ Ahead(walk) /\ \A x \in Worker : Sound(request[x])
  BY InvParts
<1>2. /\ request[w] \in Slot /\ request[w].op = "insert" /\ row[u] = None
      /\ ~Taken(request[w].email) /\ Watch
      /\ request' = [request EXCEPT ![w] = None]
      /\ member' = IF joined THEN member \cup {u} ELSE member
  BY <1>1 DEF CreateUser, Finish, TypeOK
<1> DEFINE r == [email |-> request[w].email, password |-> p, active |-> TRUE,
                 createdAt |-> Cardinality(Rows) + 1]
<1>3. Cardinality(Rows) \in Nat /\ IsFiniteSet(Rows) /\ u \notin Rows
  BY <1>2, Sizes DEF Rows
<1>4. r \in Row /\ r # None
  <2>1. request[w].email \in Email
    BY <1>2 DEF Slot
  <2>2. r \in Row
    BY <1>3, <2>1 DEF Row
  <2> QED BY <2>2, NoneIsNoUserRecord
<1>5. row' = [row EXCEPT ![u] = r] /\ r.createdAt = Cardinality(Rows) + 1
      /\ r.email = request[w].email
  BY DEF CreateUser
<1> HIDE DEF r
<1>6. /\ \A v \in User : row'[v] = IF v = u THEN r ELSE row[v]
      /\ row' \in [User -> Row \cup {None}]
  BY <1>1, <1>4, <1>5 DEF TypeOK
<1>7. Rows' = Rows \cup {u}
  BY <1>4, <1>6 DEF Rows
<1>8. Cardinality(Rows') = Cardinality(Rows) + 1
  BY <1>3, <1>7, FS_AddElement
<1>9. \A v \in Rows : row'[v] = row[v]
  BY <1>3, <1>6 DEF Rows
<1>10. EmailsAreUnique'
  <2>1. \A v \in Rows : row[v].email # r.email
    BY <1>2, <1>5 DEF Taken
  <2>2. row'[u] = r
    BY <1>6
  <2> QED BY <1>1, <1>7, <1>9, <2>1, <2>2 DEF Table, EmailsAreUnique
<1>11. CreatedInTurn'
  <2>1. \A v \in Rows : row[v].createdAt \in Nat /\ row[v].createdAt <= Cardinality(Rows)
    BY <1>1, RowType DEF Table, CreatedInTurn
  <2>2. row'[u].createdAt = Cardinality(Rows) + 1
    BY <1>5, <1>6
  <2>3. \A v \in Rows : row'[v].createdAt = row[v].createdAt
    BY <1>9
  <2>4. \A v \in Rows' : row'[v].createdAt <= Cardinality(Rows)'
    BY <1>3, <1>7, <1>8, <2>1, <2>2, <2>3
  <2>5. \A v, x \in Rows' : v # x => row'[v].createdAt # row'[x].createdAt
    BY <1>1, <1>3, <1>7, <2>1, <2>2, <2>3 DEF Table, CreatedInTurn
  <2> QED BY <2>4, <2>5 DEF CreatedInTurn
<1>12. walk' \in Walk \cup {None} /\ Ahead(walk)'
  BY <1>1, <1>2, <1>7, <1>9, WatchStep, ListedRows DEF Table
<1>13. \A x \in Worker : Sound(request[x])'
  <2>1. \A x \in Worker : request'[x] = None \/ request'[x] = request[x]
    BY <1>1, <1>2 DEF TypeOK
  <2> QED BY <1>1, <1>7, <1>9, <2>1 DEF Sound
<1>14. TypeOK'
  BY <1>1, <1>2, <1>6, <1>12 DEF TypeOK
<1>15. Table'
  BY <1>1, <1>2, <1>6, <1>7, <1>10, <1>11 DEF Table
<1> QED BY <1>12, <1>13, <1>14, <1>15
        DEF UsersInv, Table, Sound, Ahead, OverwriteIsEarned, FewAreSkipped

\* An administrator's request ends with a change of its row.
LEMMA ManageStep ==
    ASSUME UsersInv, NEW w \in Worker, NEW u, NEW r,
           request[w] # None, request[w].op = "manage", request[w].user = u,
           r \in Row, row' = [row EXCEPT ![u] = r], Finish(w),
           UNCHANGED <<member, walk>>,
           r.createdAt = row[u].createdAt, r.password = row[u].password,
           \A v \in Rows \ {u} : row[v].email # r.email
    PROVE  UsersInv'
<1>a. /\ \A x \in Worker : Sound(request[x])
      /\ request \in [Worker -> Slot \cup {None}]
  BY InvParts DEF TypeOK
<1>1. u \in Rows
  BY <1>a DEF Sound
<1>2. /\ request' \in [Worker -> Slot \cup {None}]
      /\ \A x \in Worker : Sound(request'[x])
  BY <1>a DEF Finish, Sound
<1>3. \A x \in Worker : request'[x] # None /\ request'[x].op # "insert" =>
        /\ request'[x].user \in Rows
        /\ request'[x].op = "write" /\ ~request'[x].overtaken =>
             request'[x].presented = IF request'[x].user = u THEN r.password
                                     ELSE row[request'[x].user].password
  BY <1>2 DEF Sound
<1> QED BY <1>1, <1>2, <1>3, RewriteStep

LEMMA StepUsers ==
    ASSUME UsersInv, Next
    PROVE  UsersInv'
<1> USE NoneIsNoUserRecord
<1>a. /\ TypeOK /\ Table /\ Ahead(walk) /\ \A w \in Worker : Sound(request[w])
      /\ request \in [Worker -> Slot \cup {None}] /\ walk \in Walk \cup {None}
      /\ member \subseteq Rows
  BY InvParts DEF TypeOK, Table
\* One request comes to its end, and nothing else happens.
<1>b. ASSUME NEW w \in Worker
      PROVE  /\ [request EXCEPT ![w] = None] \in [Worker -> Slot \cup {None}]
             /\ \A x \in Worker : Sound([request EXCEPT ![w] = None][x])
  BY <1>a DEF Sound
<1>1. ASSUME NEW w \in Worker, NEW e \in Email, FindByEmail(w, e)
      PROVE  UsersInv'
  <2> DEFINE slot == [op |-> "insert", email |-> e]
  <2>1. slot \in Slot /\ Sound(slot)
    BY DEF Slot, Sound
  <2>2. Start(w, slot)
    BY <1>1 DEF FindByEmail
  <2> HIDE DEF slot
  <2> QED BY <2>1, <2>2, StartStep
<1>2. ASSUME NEW w \in Worker, NEW u \in User, NEW presented \in Password \cup {None},
             u \in Rows, row[u].password = presented,
             Start(w, [op |-> "write", user |-> u, presented |-> presented,
                       overtaken |-> FALSE])
      PROVE  UsersInv'
  <2> DEFINE slot == [op |-> "write", user |-> u, presented |-> presented,
                      overtaken |-> FALSE]
  <2>1. slot \in Slot /\ Sound(slot)
    BY <1>2 DEF Slot, Sound
  <2>2. Start(w, slot)
    BY <1>2
  <2> HIDE DEF slot
  <2> QED BY <2>1, <2>2, StartStep
<1>3. ASSUME NEW w \in Worker, NEW u \in User, NEW system \in BOOLEAN,
             ValidateSameOrganization(w, u, system)
      PROVE  UsersInv'
  <2> DEFINE slot == [op |-> "manage", user |-> u]
  <2>1. slot \in Slot /\ Sound(slot)
    BY <1>3 DEF Slot, Sound, ValidateSameOrganization
  <2>2. Start(w, slot)
    BY <1>3 DEF ValidateSameOrganization
  <2> HIDE DEF slot
  <2> QED BY <2>1, <2>2, StartStep
\* A request for a row that is there: who and which.
<1>c. ASSUME NEW w \in Worker, request[w] # None, request[w].op # "insert"
      PROVE  /\ request[w].user \in Rows /\ row[request[w].user] \in Row
  BY <1>a, <1>c, RowType DEF Sound
<1>4. ASSUME NEW u \in Rows, NEW p \in Password,
             NEW requests \in [Worker -> Slot \cup {None}],
             \A w \in Worker : requests[w] = request[w] \/ requests[w] = None,
             row' = [row EXCEPT ![u].password = p],
             request' = Overtake(u, requests), UNCHANGED <<member, walk>>
      PROVE  UsersInv'
  <2> DEFINE r == [row[u] EXCEPT !.password = p]
  <2>1. r \in Row /\ r.createdAt = row[u].createdAt /\ r.email = row[u].email
    BY <1>a, RowType DEF Row
  <2>2. row' = [row EXCEPT ![u] = r]
    BY <1>4
  <2>3. \A v \in Rows \ {u} : row[v].email # r.email
    BY <1>a, <2>1 DEF Table, EmailsAreUnique
  <2> HIDE DEF r
  <2>4. /\ request' \in [Worker -> Slot \cup {None}]
        /\ \A w \in Worker :
             request'[w] # None /\ request'[w].op # "insert" =>
               /\ request'[w].user \in Rows
               /\ request'[w].op = "write" /\ ~request'[w].overtaken =>
                    /\ request'[w].user # u
                    /\ request'[w].presented = row[request'[w].user].password
    BY <1>4, <1>a, OvertakeStep
  <2>5. \A w \in Worker : request'[w] # None /\ request'[w].op # "insert" =>
          /\ request'[w].user \in Rows
          /\ request'[w].op = "write" /\ ~request'[w].overtaken =>
               request'[w].presented = IF request'[w].user = u THEN r.password
                                       ELSE row[request'[w].user].password
    BY <2>4
  <2>6. request' \in [Worker -> Slot \cup {None}] /\ UNCHANGED <<member, walk>>
    BY <1>4, <2>4
  <2> QED BY <2>1, <2>2, <2>3, <2>5, <2>6, RewriteStep
<1>6. ASSUME NEW w \in Worker, NEW e \in Email, Update(w, e)
      PROVE  UsersInv'
  <2> DEFINE u == request[w].user
             r == [row[u] EXCEPT !.email = e]
  <2>1. /\ request[w] # None /\ request[w].op = "manage" /\ request[w].user = u
        /\ row[u] \in Row /\ u \in Rows
    BY <1>6, <1>c DEF Update
  <2>2. r \in Row /\ r.createdAt = row[u].createdAt /\ r.password = row[u].password
    BY <2>1 DEF Row
  <2>3. r.email = e
    BY <2>1 DEF Row
  <2>4. row' = [row EXCEPT ![u] = r] /\ Finish(w) /\ UNCHANGED <<member, walk>>
    BY <1>6 DEF Update
  <2>5. \A v \in Rows \ {u} : row[v].email # r.email
    BY <1>6, <2>3 DEF Update
  <2> HIDE DEF r
  <2> QED BY <2>1, <2>2, <2>4, <2>5, ManageStep
<1>7. ASSUME NEW w \in Worker, NEW active \in BOOLEAN, UpdateStatus(w, active)
      PROVE  UsersInv'
  <2> DEFINE u == request[w].user
             r == [row[u] EXCEPT !.active = active]
  <2>1. /\ request[w] # None /\ request[w].op = "manage" /\ request[w].user = u
        /\ row[u] \in Row /\ u \in Rows
    BY <1>7, <1>c DEF UpdateStatus
  <2>2. /\ r \in Row /\ r.createdAt = row[u].createdAt /\ r.password = row[u].password
        /\ r.email = row[u].email
    BY <2>1 DEF Row
  <2>3. row' = [row EXCEPT ![u] = r] /\ Finish(w) /\ UNCHANGED <<member, walk>>
    BY <1>7 DEF UpdateStatus
  <2>4. \A v \in Rows \ {u} : row[v].email # r.email
    BY <1>a, <2>1, <2>2 DEF Table, EmailsAreUnique
  <2> HIDE DEF r, u
  <2> QED BY <2>1, <2>2, <2>3, <2>4, ManageStep
<1>8. ASSUME NEW w \in Worker, NEW p \in Password, UpdatePassword(w, p)
      PROVE  UsersInv'
  <2> DEFINE requests == [request EXCEPT ![w] = None]
  <2>1. request[w].user \in Rows
    BY <1>8, <1>c DEF UpdatePassword
  <2>2. /\ requests \in [Worker -> Slot \cup {None}]
        /\ \A x \in Worker : requests[x] = request[x] \/ requests[x] = None
    BY <1>a, <1>b
  <2>3. row' = [row EXCEPT ![request[w].user].password = p]
        /\ request' = Overtake(request[w].user, requests) /\ UNCHANGED <<member, walk>>
    BY <1>8 DEF UpdatePassword
  <2> HIDE DEF requests
  <2> QED BY <2>1, <2>2, <2>3, <1>4
<1>9. ASSUME NEW u \in User, NEW p \in Password, ResetPassword(u, p)
      PROVE  UsersInv'
  BY <1>9, <1>a, <1>4 DEF ResetPassword
<1>10. ASSUME NEW w \in Worker, Conflict(w)
       PROVE  UsersInv'
  BY <1>10, <1>a, <1>b, SameWalk, QuietStep DEF Conflict, Finish
<1>11. CASE Restart
  <2>1. Sound(None)
    BY DEF Sound
  <2> QED BY <1>11, <1>a, <2>1, SameWalk, QuietStep DEF Restart
<1>12. CASE ChangeMembers
  <2>1. member' \subseteq Rows /\ UNCHANGED <<row, request>> /\ Watch
    BY <1>12, <1>a DEF ChangeMembers
  <2>2. Rows' = Rows /\ Rows \subseteq User
    BY <2>1, ListedRows DEF Rows
  <2>3. walk' \in Walk \cup {None} /\ Ahead(walk)'
    BY <1>a, <2>1, <2>2, WatchStep DEF Table
  <2> QED BY <1>a, <2>1, <2>3, QuietStep
<1>13. ASSUME NEW scope \in Scope, BeginWalk(scope)
       PROVE  UsersInv'
  <2> DEFINE k == [page |-> 1, scope |-> scope, seen |-> {}, stayed |-> Listed(scope),
                   left |-> 0, ended |-> FALSE]
  <2>1. k \in Walk
    BY ListedRows DEF Walk, Scope
  <2>2. Listed(scope)' = Listed(scope)
    BY <1>13 DEF BeginWalk, Listed, Rows
  <2>3. walk' = k /\ UNCHANGED <<row, member, request>>
    BY <1>13 DEF BeginWalk
  <2>4. /\ walk'.scope = scope /\ walk'.stayed = Listed(scope) /\ walk'.page = 1
        /\ ~walk'.ended /\ walk'.left = 0
    BY <2>3
  <2>5. walk'.stayed \subseteq Listed(walk.scope)'
    BY <2>2, <2>4 DEF Listed
  <2>6. Skipped(walk)' = {}
    <3>1. \A u : Position(walk.scope, u)' = Position(scope, u)
      BY <2>4, <1>13 DEF BeginWalk, Position, Listed, Rows
    <3>2. Skip(walk.page)' = 0
      BY <2>4, UsersAssumption DEF Skip
    <3>3. \A u : ~(Position(walk.scope, u)' < Skip(walk.page)')
      BY <3>1, <3>2, PositionType
    <3> QED BY <3>3 DEF Skipped
  <2>7. Ahead(walk)'
    BY <2>4, <2>5, <2>6, FS_EmptySet DEF Ahead
  <2> HIDE DEF k
  <2> QED BY <1>a, <2>1, <2>3, <2>7, QuietStep
<1>14. CASE FindAll
  BY <1>14, <1>a, FindAllStep, QuietStep DEF FindAll
<1> QED BY <1>1, <1>2, <1>3, <1>6, <1>7, <1>8, <1>9, <1>10, <1>11, <1>12, <1>13, <1>14,
           CreateStep DEF Next, SetPassword, ChangePassword, Scope

THEOREM UsersInvariant == Spec => []UsersInv
<1>1. ASSUME UsersInv, UNCHANGED vars PROVE UsersInv'
  BY <1>1, InvParts, SameWalk, QuietStep DEF vars, TypeOK, Table
<1>2. UsersInv /\ [Next]_vars => UsersInv'
  BY <1>1, StepUsers
<1> QED BY InitUsers, <1>2, PTL DEF Spec

(* No two accounts ever have one email (auth.service.ts 93-143,             *)
(* users.service.ts 85-141): the lookups give the friendlier answer, the    *)
(* unique key of schema.prisma keeps the promise.                           *)
THEOREM EmailsTheorem == Spec => []EmailsAreUnique
<1>1. UsersInv => EmailsAreUnique
  BY DEF UsersInv
<1> QED BY <1>1, UsersInvariant, PTL

(* A password is overwritten by setPassword and changePassword              *)
(* (auth.service.ts 390-426) only for a caller that was shown it, or that   *)
(* overlapped with the request that wrote it.                               *)
THEOREM OverwriteTheorem == Spec => []OverwriteIsEarned
<1>1. UsersInv => OverwriteIsEarned
  BY DEF UsersInv
<1> QED BY <1>1, UsersInvariant, PTL

(* A walk through the pages of findAll (users.repository.ts 32-73) that     *)
(* ends with a page that is not full has missed no more of those who were   *)
(* there all along than have left, for any number of users and any limit.   *)
THEOREM WalkTheorem == Spec => []FewAreSkipped
<1>1. UsersInv => FewAreSkipped
  BY DEF UsersInv
<1> QED BY <1>1, UsersInvariant, PTL
=============================================================================
