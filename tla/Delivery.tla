------------------------------ MODULE Delivery ------------------------------
(***************************************************************************)
(* Notifications: the sockets of the WebSocket gateway, the pushes of      *)
(* /notifications/push and the handler of user.registered, composed with   *)
(* Access.  A socket joins its rooms once, when it connects, from the      *)
(* claims of the access token it shows; nothing makes it leave them but    *)
(* the end of the connection, although the token runs out, the session is  *)
(* switched and memberships go.                                            *)
(***************************************************************************)
EXTENDS Access

CONSTANT Socket

VARIABLES socket,    \* the open sockets: what their rooms were joined for
          handler,   \* the handler of user.registered, by user
          heard,     \* history: who heard what was not a broadcast
          belonged   \* history: who was a member of which organization

deliveryVars == <<socket, handler, heard, belonged>>

Nobody == User \cup {None}

\* The rooms user:<user>, org:<org> and app:<app>, those that are not None.
\* A service token opens a socket and joins none.
Rooms == [user : Nobody, org : Place, app : Scope]
NoRooms == [user |-> None, org |-> None, app |-> None]

ASSUME NoneIsNoRooms == None \notin Rooms

Handler == {"idle", "mailing", "greeted", "lost"}

DeliveryTypeOK ==
    /\ socket \in [Socket -> Rooms \cup {None}]
    /\ handler \in [User -> Handler]
    /\ heard \in SUBSET [by : Nobody, org : Place, user : Nobody]
    /\ belonged \in SUBSET (User \X Org)

Open == {k \in Socket : socket[k] # None}

InUserRoom(u) == {k \in Open : socket[k].user = u}
InOrgRoom(o) == {k \in Open : socket[k].org = o}

\* FAULT: the rooms are not named when the event is emitted.
Audience_All(o, u) == Open

\* push without broadcast: an organization goes before a user.
Audience(o, u) == IF o # None THEN InOrgRoom(o) ELSE InUserRoom(u)

Hear(o, u) ==
    heard' = heard \cup {[by |-> socket[k].user, org |-> o,
                          user |-> IF o # None THEN None ELSE u] : k \in Audience(o, u)}
-----------------------------------------------------------------------------
DeliveryInit == /\ Init
                /\ socket = [k \in Socket |-> None]
                /\ handler = [u \in User |-> "idle"]
                /\ heard = {}
                /\ belonged = {}

\* handleConnection with the access token of a user: three rooms at most.
HandleConnection(k, t) ==
    /\ socket[k] = None
    /\ Valid(t)
    /\ LET s == token[t].reading IN
         socket' = [socket EXCEPT ![k] = [user |-> s.user, org |-> s.org, app |-> s.app]]
    /\ UNCHANGED <<handler, heard>>

\* handleConnection with a service token.
HandleService(k) ==
    /\ socket[k] = None
    /\ socket' = [socket EXCEPT ![k] = NoRooms]
    /\ UNCHANGED <<handler, heard>>

\* handleDisconnect: the client goes, or its network does.
HandleDisconnect(k) ==
    /\ socket[k] # None
    /\ socket' = [socket EXCEPT ![k] = None]
    /\ UNCHANGED <<handler, heard>>

\* The end of register, once the tokens are there: the event is emitted and
\* the handler starts with the mail.
EmitRegistered(u) ==
    /\ handler[u] = "idle"
    /\ \E t \in Token : token[t] # None /\ token[t].reading.user = u
    /\ handler' = [handler EXCEPT ![u] = "mailing"]
    /\ UNCHANGED <<socket, heard>>

\* FAULT: a mail that could not be sent ends the handler.
HandleUserRegistered_Throws(u) ==
    /\ handler[u] = "mailing"
    /\ \/ handler' = [handler EXCEPT ![u] = "greeted"] /\ Hear(None, u)
       \/ handler' = [handler EXCEPT ![u] = "idle"] /\ UNCHANGED heard
    /\ UNCHANGED socket

\* The mail is sent or has failed, and is only logged then; the welcome goes
\* to the sockets the user has open now.
HandleUserRegistered(u) ==
    /\ handler[u] = "mailing"
    /\ handler' = [handler EXCEPT ![u] = "greeted"]
    /\ Hear(None, u)
    /\ UNCHANGED socket

\* push to one target; a broadcast leaves nothing behind to tell apart.
Push(o, u) ==
    /\ o # None \/ u # None
    /\ Hear(o, u)
    /\ UNCHANGED <<socket, handler>>

\* A restart closes every socket and forgets the handlers.
CloseAll ==
    /\ socket' = [k \in Socket |-> None]
    /\ handler' = [u \in User |-> IF handler[u] = "mailing" THEN "lost" ELSE handler[u]]
    /\ UNCHANGED <<heard, belonged>>

Deliver ==
    \/ \E k \in Socket : \/ \E t \in Token : HandleConnection(k, t)
                         \/ HandleService(k)
                         \/ HandleDisconnect(k)
    \/ \E u \in User : EmitRegistered(u) \/ HandleUserRegistered(u)
    \/ \E o \in Place, u \in Nobody : Push(o, u)

DeliveryNext ==
    \/ /\ Running
       /\ belonged' = belonged \cup {<<m.user, m.org>> : m \in member'}
       /\ UNCHANGED <<socket, handler, heard>>
    \/ Restart /\ CloseAll
    \/ Deliver /\ UNCHANGED <<vars, belonged>>

\* A mail that is being sent is delivered or fails: nodemailer settles its
\* promise, on its own timeouts at the latest.
Greeting == \A u \in User : WF_<<vars, deliveryVars>>(
                HandleUserRegistered(u) /\ UNCHANGED <<vars, belonged>>)

DeliverySpec == DeliveryInit /\ [][DeliveryNext]_<<vars, deliveryVars>> /\ Greeting
-----------------------------------------------------------------------------
(* A user is in the room of an organization only if it has been a member of *)
(* it: the claims a socket is admitted with (websocket.gateway.ts 43-73)    *)
(* come from a sign-in, a switch or a chain of refreshes that began with a  *)
(* membership, whatever has become of the membership since.                 *)
RoomsAreEarned ==
    \A k \in Open : socket[k].org # None => <<socket[k].user, socket[k].org>> \in belonged

(* What is pushed to an organization is heard by its members, past or       *)
(* present, and by nobody else; what is pushed to a user, the welcome       *)
(* included, is heard by that user alone, and never by a service.           *)
MessagesStayInside ==
    \A h \in heard : IF h.org # None THEN <<h.by, h.org>> \in belonged ELSE h.by = h.user

\* The inductive invariant behind the two: the same of tokens, and of requests
\* on their way to one; a lookup for /iam/check may be about any organization.
Earned(s) == s.org # None => <<s.user, s.org>> \in belonged

DeliveryInv ==
    /\ DeliveryTypeOK
    /\ \A m \in member : <<m.user, m.org>> \in belonged
    /\ \A t \in Token : token[t] # None => Earned(token[t].reading)
    /\ \A q \in Request : request[q] # None /\ request[q].pc # "fill" =>
                              Earned(request[q].reading)
    /\ RoomsAreEarned
    /\ MessagesStayInside

(* Every user that registers is greeted, whether the mail could be sent or  *)
(* not (notifications.service.ts 24-46), unless the process goes down       *)
(* before the mail is settled.                                              *)
EveryoneIsGreeted ==
    \A u \in User : handler[u] = "mailing" ~> handler[u] \in {"greeted", "lost"}
=============================================================================
