-------------------------------- MODULE Users --------------------------------
(***************************************************************************)
(* The users table and everything that writes it: register, the handlers   *)
(* of UsersService, the setting, changing and resetting of passwords; and  *)
(* a client that walks through the pages of GET /users in the meantime.    *)
(* A handler looks at the table first and writes after at least one await: *)
(* between the two the row, the email or the listing may have changed.     *)
(*                                                                         *)
(* One organization is told apart, that of the administrators; who belongs *)
(* to it is changed by the handlers of Tenancy at any time.                *)
(***************************************************************************)
EXTENDS Integers, FiniteSets

CONSTANTS User,         \* ids; a row never goes, remove only deactivates it
          Email,
          Password,     \* bcrypt hashes, one for each password
          Worker,       \* slots for the requests in flight
          None,         \* null, and the blank password of an account without one
          SystemAdmin,  \* users with the role system_admin
          Limit,        \* users on a page
          MaxLeft       \* bound on the departures during a walk

ASSUME UsersAssumption == /\ IsFiniteSet(User)
                          /\ None \notin Password
                          /\ SystemAdmin \subseteq User
                          /\ Limit \in Nat \ {0}
                          /\ MaxLeft \in Nat

VARIABLES row,      \* the table
          member,   \* the users with a role in the organization
          request,  \* what the requests in flight have looked up
          walk      \* the client that walks through the pages

vars == <<row, member, request, walk>>

Row == [email : Email, password : Password \cup {None}, active : BOOLEAN,
        createdAt : Nat]

\* insert: the email was free.  write: presented is the password shown for the
\* account, and overtaken says that another one was written since (history).
\* manage: an administrator may change the account.
Slot == [op : {"insert"}, email : Email]
        \cup [op : {"write"}, user : User, presented : Password \cup {None},
              overtaken : BOOLEAN]
        \cup [op : {"manage"}, user : User]

\* page: the next one to ask for; scope: the organization, or everybody, which
\* is for system administrators.  The rest is history: who was seen, who has
\* been in the listing since the walk began, and how often somebody has left it.
Walk == [page : Nat \ {0}, scope : {"organization", "all"}, seen : SUBSET User,
         stayed : SUBSET User, left : Nat, ended : BOOLEAN]

ASSUME NoneIsNoUserRecord == None \notin Row \cup Slot \cup Walk

TypeOK == /\ row \in [User -> Row \cup {None}]
          /\ member \in SUBSET User
          /\ request \in [Worker -> Slot \cup {None}]
          /\ walk \in Walk \cup {None}

Rows == {u \in User : row[u] # None}

Taken(e) == \E u \in Rows : row[u].email = e

\* `where' of findAll.
Listed(scope) == {u \in Rows : scope = "all" \/ u \in member}

\* orderBy: { createdAt: 'desc' }; no two rows are created at one instant.
Position(scope, u) ==
    Cardinality({v \in Listed(scope) : row[v].createdAt > row[u].createdAt})

\* FAULT: pages are counted from 0.
Skip_FromZero(page) == page * Limit

Skip(page) == (page - 1) * Limit

PageOf(scope, page) == {u \in Listed(scope) :
                          Position(scope, u) \in Skip(page) .. Skip(page) + Limit - 1}

Leaving(scope) == Listed(scope) \ Listed(scope)'

\* The walk takes note of who leaves its listing.
Watch == \/ walk = None /\ walk' = None
         \/ \E scope \in {"organization", "all"} :
              /\ walk # None /\ walk.scope = scope
              /\ walk.left + Cardinality(Leaving(scope)) <= MaxLeft
              /\ walk' = [walk EXCEPT !.stayed = @ \cap Listed(scope)',
                                      !.left = @ + Cardinality(Leaving(scope))]
-----------------------------------------------------------------------------
(* No two accounts have one email, however the lookups of register, create  *)
(* and update overlap; findByEmail finds the account or none.               *)
EmailsAreUnique == \A u, v \in Rows : u # v => row[u].email # row[v].email

CreatedInTurn ==
    /\ \A u, v \in Rows : u # v => row[u].createdAt # row[v].createdAt
    /\ \A u \in Rows : row[u].createdAt <= Cardinality(Rows)

\* A table as it may be found: created in some order, some of the accounts
\* without a password.
Init == /\ row \in [User -> [email : Email, password : Password \cup {None},
                             active : BOOLEAN, createdAt : 1 .. Cardinality(User)]
                            \cup {None}]
        /\ EmailsAreUnique /\ CreatedInTurn
        /\ member \in SUBSET Rows
        /\ request = [w \in Worker |-> None]
        /\ walk = None

Start(w, slot) == /\ request[w] = None
                  /\ request' = [request EXCEPT ![w] = slot]
                  /\ UNCHANGED <<row, member, walk>>

Finish(w) == request' = [request EXCEPT ![w] = None]

\* register and create begin with the email, which must be free.
FindByEmail(w, e) == /\ ~Taken(e)
                     /\ Start(w, [op |-> "insert", email |-> e])

\* FAULT: the lookup is all that keeps emails apart.
CreateUser_NoKey(w, u, p, joined) ==
    /\ request[w] # None /\ request[w].op = "insert"
    /\ row[u] = None
    /\ row' = [row EXCEPT ![u] = [email |-> request[w].email, password |-> p,
                                  active |-> TRUE,
                                  createdAt |-> Cardinality(Rows) + 1]]
    /\ member' = IF joined THEN member \cup {u} ELSE member
    /\ Finish(w)
    /\ Watch

\* The transaction of register, which gives the user an organization of its
\* own, or of createWithMembership, with a role in the organization if there is
\* one to give.  The unique key of the table has the last word.
CreateUser(w, u, p, joined) ==
    /\ request[w] # None /\ request[w].op = "insert" /\ ~Taken(request[w].email)
    /\ row[u] = None
    /\ row' = [row EXCEPT ![u] = [email |-> request[w].email, password |-> p,
                                  active |-> TRUE,
                                  createdAt |-> Cardinality(Rows) + 1]]
    /\ member' = IF joined THEN member \cup {u} ELSE member
    /\ Finish(w)
    /\ Watch

\* The insert, or the update of an email, runs into the unique key.
Conflict(w) ==
    /\ request[w] # None
    /\ \/ request[w].op = "insert" /\ Taken(request[w].email)
       \/ request[w].op = "manage" /\ Rows # {request[w].user}
    /\ Finish(w)
    /\ UNCHANGED <<row, member, walk>>

\* setPassword has found no password.
SetPassword(w, u) ==
    /\ u \in Rows /\ row[u].password = None
    /\ Start(w, [op |-> "write", user |-> u, presented |-> None, overtaken |-> FALSE])

\* FAULT: the current password is not compared.
ChangePassword_Unchecked(w, u, current) ==
    /\ u \in Rows /\ row[u].password # None
    /\ Start(w, [op |-> "write", user |-> u, presented |-> current, overtaken |-> FALSE])

\* changePassword has found the current password to be right.
ChangePassword(w, u, current) ==
    /\ u \in Rows /\ row[u].password = current
    /\ Start(w, [op |-> "write", user |-> u, presented |-> current, overtaken |-> FALSE])

\* The other requests on their way to write a password of u are overtaken.
Overtake(u, requests) ==
    [w \in Worker |-> IF requests[w] # None /\ requests[w].op = "write"
                         /\ requests[w].user = u
                      THEN [requests[w] EXCEPT !.overtaken = TRUE] ELSE requests[w]]

\* updatePassword, of setPassword and changePassword.
UpdatePassword(w, p) ==
    LET u == request[w].user IN
    /\ request[w] # None /\ request[w].op = "write"
    /\ row' = [row EXCEPT ![u].password = p]
    /\ request' = Overtake(u, [request EXCEPT ![w] = None])
    /\ UNCHANGED <<member, walk>>

\* The transaction of resetPassword, for a link of this user (Recovery).
ResetPassword(u, p) ==
    /\ u \in Rows
    /\ row' = [row EXCEPT ![u].password = p]
    /\ request' = Overtake(u, request)
    /\ UNCHANGED <<member, walk>>

\* validateSameOrganization, which does not look when a system administrator
\* asks.  The caller is somebody else for updateStatus and remove.
ValidateSameOrganization(w, u, system) ==
    /\ u \in Rows
    /\ system \/ u \in member \ SystemAdmin
    /\ Start(w, [op |-> "manage", user |-> u])

\* FAULT: an email in use may be given to another account.
Update_NoKey(w, e) ==
    /\ request[w] # None /\ request[w].op = "manage"
    /\ row' = [row EXCEPT ![request[w].user].email = e]
    /\ Finish(w)
    /\ UNCHANGED <<member, walk>>

\* update: the email may be changed, under the unique key.
Update(w, e) ==
    /\ request[w] # None /\ request[w].op = "manage"
    /\ \A v \in Rows \ {request[w].user} : row[v].email # e
    /\ row' = [row EXCEPT ![request[w].user].email = e]
    /\ Finish(w)
    /\ UNCHANGED <<member, walk>>

\* updateStatus, and remove with FALSE.
UpdateStatus(w, active) ==
    /\ request[w] # None /\ request[w].op = "manage"
    /\ row' = [row EXCEPT ![request[w].user].active = active]
    /\ Finish(w)
    /\ UNCHANGED <<member, walk>>

\* A handler of Tenancy adds a member or removes one.
ChangeMembers == /\ \E u \in Rows : member' \in {member \cup {u}, member \ {u}}
                 /\ UNCHANGED <<row, request>>
                 /\ Watch

\* The process restarts; the client tries again.
Restart == /\ request' = [w \in Worker |-> None]
           /\ UNCHANGED <<row, member, walk>>

BeginWalk(scope) ==
    /\ walk = None
    /\ walk' = [page |-> 1, scope |-> scope, seen |-> {}, stayed |-> Listed(scope),
                left |-> 0, ended |-> FALSE]
    /\ UNCHANGED <<row, member, request>>

\* findAll for the next page; a page that is not full is the last one.
FindAll ==
    /\ walk # None /\ ~walk.ended
    /\ LET found == PageOf(walk.scope, walk.page) IN
       walk' = [walk EXCEPT !.page = @ + 1,
                            !.seen = @ \cup found,
                            !.ended = Cardinality(found) < Limit]
    /\ UNCHANGED <<row, member, request>>

Next == \/ \E w \in Worker :
             \/ \E e \in Email : FindByEmail(w, e) \/ Update(w, e)
             \/ \E u \in User, p \in Password, joined \in BOOLEAN : CreateUser(w, u, p, joined)
             \/ Conflict(w)
             \/ \E u \in User : \/ SetPassword(w, u)
                                \/ \E p \in Password : ChangePassword(w, u, p)
                                \/ \E system \in BOOLEAN : ValidateSameOrganization(w, u, system)
             \/ \E p \in Password : UpdatePassword(w, p)
             \/ \E active \in BOOLEAN : UpdateStatus(w, active)
        \/ \E u \in User, p \in Password : ResetPassword(u, p)
        \/ ChangeMembers
        \/ Restart
        \/ \E scope \in {"organization", "all"} : BeginWalk(scope)
        \/ FindAll

Spec == Init /\ [][Next]_vars
-----------------------------------------------------------------------------
(* A request that is about to overwrite a password was shown that password, *)
(* or found none, unless another one was written while it was in flight: it *)
(* is only a request that overlaps that can overwrite what its caller does  *)
(* not know.                                                                *)
OverwriteIsEarned ==
    \A w \in Worker :
        request[w] # None /\ request[w].op = "write" /\ ~request[w].overtaken =>
            row[request[w].user].password = request[w].presented

(* A client that asks for page after page until one is not full has been    *)
(* shown everybody who was in the listing all along, even though users are  *)
(* added while it walks, but for one user for every time that somebody left *)
(* the listing, when the pages move up behind it: nobody, if nobody left.   *)
FewAreSkipped ==
    walk # None /\ walk.ended => Cardinality(walk.stayed \ walk.seen) <= walk.left

\* Who is on a page that the walk has left behind and was not seen.
Skipped(k) == {u \in k.stayed \ k.seen : Position(k.scope, u) < Skip(k.page)}

\* The inductive invariant: no more users are skipped than have left.
UsersInv ==
    /\ TypeOK
    /\ member \subseteq Rows
    /\ EmailsAreUnique /\ CreatedInTurn
    /\ \A w \in Worker : request[w] # None /\ request[w].op # "insert" =>
                             request[w].user \in Rows
    /\ OverwriteIsEarned
    /\ walk # None =>
         /\ walk.stayed \subseteq Listed(walk.scope)
         /\ ~walk.ended => Cardinality(Skipped(walk)) <= walk.left
    /\ FewAreSkipped
=============================================================================
