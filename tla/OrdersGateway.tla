--------------------------- MODULE OrdersGateway ---------------------------
(***************************************************************************)
(* OrdersGateway (src/src/realtime/orders.gateway.ts) on top of            *)
(* OrdersEvents: Socket.IO clients join the room of an order and get the   *)
(* events emitted while they are in it.                                    *)
(*                                                                         *)
(* handleConnection awaits only the verification of a token with a local   *)
(* secret, which no socket message can overtake; subscribeOrder awaits the *)
(* database, and anything may happen to the client meanwhile.              *)
(***************************************************************************)
EXTENDS OrdersEvents

CONSTANTS
  Clients,
  Users,
  Staff,         \* users that are admins, operators or support
  Owner,         \* per order: its user
  Handshakes,    \* the tokens a client may send in auth, header and query
  WindowMs,      \* windowMs of the rate limit, in ticks
  MaxCalls,      \* maxCalls
  Horizon        \* last tick considered

\* A token is absent, not acceptable, or names its user.
Tokens == {"none", "invalid"} \cup Users

ASSUME UsersAssumption ==
  /\ Users \cap {"none", "invalid", None} = {}
  /\ Staff \subseteq Users
  /\ Owner \in [OrderIds -> Users]
ASSUME HandshakesAssumption == Handshakes \subseteq [auth : Tokens, header : Tokens, query : Tokens]
ASSUME LimitAssumption ==
  /\ WindowMs \in Nat \ {0}
  /\ MaxCalls \in Nat \ {0}
  /\ Horizon \in Nat

VARIABLES
  socket,        \* per client: "new", "connected" or "gone"
  user,          \* per client: client.data.user
  subscribeCalls,\* per client: the calls the limit counts
  rooms,         \* per order: the sockets in its room
  asking,        \* subscribeOrder calls that await canSubscribeToOrder
  rows,          \* orders in the database
  now,
  \* history
  passed,        \* per client: all calls the limit let pass
  joinedAt,      \* per client and order: the newest version when it joined
  got,           \* per client and order: version received last since then
  left,          \* per client: orders it left and has not asked for again
  overtaken      \* per client: the orders of these it left while one of its own
                 \* subscribeOrder calls for them was under way

\* The array of times is a set of calls: their number keeps those of one tick
\* apart, and their order makes no difference to filter and length.
Call == [at : 0..Horizon, number : Nat]

gatewayVars == <<socket, user, subscribeCalls, rooms, asking, rows, now,
                 passed, joinedAt, got, left, overtaken>>
vars == <<eventVars, gatewayVars>>

Init ==
  /\ EventsInit
  /\ socket = [c \in Clients |-> "new"]
  /\ user = [c \in Clients |-> None]
  /\ subscribeCalls = [c \in Clients |-> {}]
  /\ rooms = [o \in OrderIds |-> {}]
  /\ asking = {}
  /\ rows = OrderIds
  /\ now = 0
  /\ passed = [c \in Clients |-> {}]
  /\ joinedAt = [c \in Clients |-> [o \in OrderIds |-> None]]
  /\ got = [c \in Clients |-> [o \in OrderIds |-> None]]
  /\ left = [c \in Clients |-> {}]
  /\ overtaken = [c \in Clients |-> {}]

\* getTokenFromHandshake: the first source that has a token counts.
TokenFromHandshake(h) ==
  CASE h.auth # "none" -> h.auth
    [] h.auth = "none" /\ h.header # "none" -> h.header
    [] OTHER -> h.query

\* handleConnection
Connect(c, h) ==
  /\ socket[c] = "new"
  /\ \/ /\ TokenFromHandshake(h) \in Users
        /\ socket' = [socket EXCEPT ![c] = "connected"]
        /\ user' = [user EXCEPT ![c] = TokenFromHandshake(h)]
        /\ subscribeCalls' = [subscribeCalls EXCEPT ![c] = {}]
     \/ /\ TokenFromHandshake(h) \notin Users
        /\ socket' = [socket EXCEPT ![c] = "gone"]
        /\ UNCHANGED <<user, subscribeCalls>>
  /\ UNCHANGED <<eventVars, rooms, asking, rows, now, passed, joinedAt, got, left, overtaken>>

\* The orders of which the client has a subscribeOrder call under way.
AskedFor(c) == {a.orderId : a \in {b \in asking : b.client = c}}

\* handleDisconnect, after Socket.IO has taken the socket out of its rooms.
Disconnect(c) ==
  /\ socket[c] = "connected"
  /\ socket' = [socket EXCEPT ![c] = "gone"]
  /\ rooms' = [o \in OrderIds |-> rooms[o] \ {c}]
  /\ subscribeCalls' = [subscribeCalls EXCEPT ![c] = {}]
  /\ left' = [left EXCEPT ![c] = OrderIds]
  /\ overtaken' = [overtaken EXCEPT ![c] = AskedFor(c)]
  /\ UNCHANGED <<eventVars, user, asking, rows, now, passed, joinedAt, got>>

\* Mutant: a call is forgotten one tick too early.
MutShortWindow(t) == now - t < WindowMs - 1

\* A call at time t still counts.
Recent(t) == now - t < WindowMs

\* Mutant: the limit is exceeded before it is noticed.
MutOneTooMany(n) == n > MaxCalls

OverLimit(n) == n >= MaxCalls

\* subscribeOrder up to its await: assertRateLimit, which counts calls
\* without an orderId too, then the checks of the payload.
SubscribeOrder(c, payload) ==
  LET recent == {k \in subscribeCalls[c] : Recent(k.at)}
      this == [at |-> now, number |-> Cardinality(passed[c]) + 1]
  IN
  /\ socket[c] = "connected"
  /\ \/ /\ OverLimit(Cardinality(recent))
        /\ subscribeCalls' = [subscribeCalls EXCEPT ![c] = recent]
        /\ UNCHANGED <<asking, passed, left, overtaken>>
     \/ /\ ~OverLimit(Cardinality(recent))
        /\ subscribeCalls' = [subscribeCalls EXCEPT ![c] = recent \cup {this}]
        /\ passed' = [passed EXCEPT ![c] = @ \cup {this}]
        /\ asking' = asking \cup
             {[client |-> c, orderId |-> o, call |-> this.number] : o \in payload}
        /\ left' = [left EXCEPT ![c] = @ \ payload]
        /\ overtaken' = [overtaken EXCEPT ![c] = @ \ payload]
  /\ UNCHANGED <<eventVars, socket, user, rooms, rows, now, joinedAt, got>>

\* Mutant: any user may follow any order.
MutAnyUser(o, u) == o \in rows

\* canSubscribeToOrder with assertCanAccessOrder
CanSubscribeToOrder(o, u) == o \in rows /\ (u \in Staff \/ u = Owner[o])

\* canSubscribeToOrder answers.  The socket joins the room even if it has been
\* closed or has unsubscribed in the meantime.  (The row is read a little before
\* the room is joined; a step in between changes nothing the properties tell
\* apart: the owner never changes, and the room of a deleted order is silent.)
FinishSubscribe(a) ==
  /\ a \in asking
  /\ asking' = asking \ {a}
  /\ \/ /\ ~CanSubscribeToOrder(a.orderId, user[a.client])
        /\ UNCHANGED <<rooms, joinedAt, got>>
     \/ /\ CanSubscribeToOrder(a.orderId, user[a.client])
        /\ rooms' = [rooms EXCEPT ![a.orderId] = @ \cup {a.client}]
        /\ IF a.client \in rooms[a.orderId] THEN UNCHANGED <<joinedAt, got>>
           ELSE /\ joinedAt' = [joinedAt EXCEPT ![a.client][a.orderId] = latest[a.orderId]]
                /\ got' = [got EXCEPT ![a.client][a.orderId] = None]
  /\ UNCHANGED <<eventVars, socket, user, subscribeCalls, rows, now, passed, left, overtaken>>

\* The client leaves the room of o: history only.
NoteLeave(c, o) ==
  /\ left' = [left EXCEPT ![c] = @ \cup {o}]
  /\ overtaken' = [overtaken EXCEPT ![c] = (@ \ {o}) \cup ({o} \cap AskedFor(c))]

\* Mutant: the room's name is built differently when leaving.
MutWrongRoom(c, o) ==
  /\ socket[c] = "connected"
  /\ NoteLeave(c, o)
  /\ UNCHANGED <<eventVars, socket, user, subscribeCalls, rooms, asking, rows, now,
                 passed, joinedAt, got>>

\* unsubscribeOrder; a payload without an orderId changes nothing.
UnsubscribeOrder(c, o) ==
  /\ socket[c] = "connected"
  /\ rooms' = [rooms EXCEPT ![o] = @ \ {c}]
  /\ NoteLeave(c, o)
  /\ UNCHANGED <<eventVars, socket, user, subscribeCalls, asking, rows, now, passed, joinedAt, got>>

\* Socket.IO skips sockets that are gone.
Recipients(o) == {c \in rooms[o] : socket[c] = "connected"}

\* emitOrderStatus, called for every event on events$.
EmitOrderStatus ==
  got' = [c \in Clients |-> [o \in OrderIds |->
            IF \E e \in emission' : e.orderId = o /\ c \in Recipients(o)
            THEN (CHOOSE e \in emission' : e.orderId = o).version ELSE got[c][o]]]

\* processOrderMessage announces a change it has committed.  (updateOrder would
\* too, but the validation pipe lets no request through to it.)
PublishStatusChanged(o, v) ==
  /\ Publish(o, v)
  /\ EmitOrderStatus
  /\ UNCHANGED <<socket, user, subscribeCalls, rooms, asking, rows, now,
                 passed, joinedAt, left, overtaken>>

\* The throttle timer of a group, with what its trailing event leads to.
ThrottleTimer(o) ==
  /\ EndThrottling(o)
  /\ EmitOrderStatus
  /\ UNCHANGED <<socket, user, subscribeCalls, rooms, asking, rows, now,
                 passed, joinedAt, left, overtaken>>

\* DELETE /orders/:id; the room stays.
DeleteOrder(o) ==
  /\ o \in rows
  /\ rows' = rows \ {o}
  /\ UNCHANGED <<eventVars, socket, user, subscribeCalls, rooms, asking, now,
                 passed, joinedAt, got, left, overtaken>>

Tick ==
  /\ now < Horizon
  /\ now' = now + 1
  /\ UNCHANGED <<eventVars, socket, user, subscribeCalls, rooms, asking, rows,
                 passed, joinedAt, got, left, overtaken>>

Idle ==
  /\ asking = {} /\ \A o \in OrderIds : ~throttled[o]
  /\ UNCHANGED vars

Next ==
  \/ \E c \in Clients, h \in Handshakes : Connect(c, h)
  \/ \E c \in Clients : Disconnect(c) \/ SubscribeOrder(c, {})
  \/ \E c \in Clients, o \in OrderIds : SubscribeOrder(c, {o}) \/ UnsubscribeOrder(c, o)
  \/ \E a \in asking : FinishSubscribe(a)
  \/ \E o \in OrderIds, v \in Versions : PublishStatusChanged(o, v)
  \/ \E o \in OrderIds : ThrottleTimer(o) \/ DeleteOrder(o)
  \/ Tick
  \/ Idle

\* Timers fire; nothing is assumed of the clients or of the database.
Fairness == \A o \in OrderIds : WF_vars(ThrottleTimer(o))

Spec == Init /\ [][Next]_vars
FairSpec == Spec /\ Fairness

-----------------------------------------------------------------------------
(* Properties.                                                             *)

\* Types of all variables; no more calls are counted than the limit allows.
TypeOK ==
  /\ EventsTypeOK
  /\ socket \in [Clients -> {"new", "connected", "gone"}]
  /\ user \in [Clients -> Users \cup {None}]
  /\ subscribeCalls \in [Clients -> SUBSET Call]
  /\ \A c \in Clients : Cardinality(subscribeCalls[c]) <= MaxCalls
  /\ rooms \in [OrderIds -> SUBSET Clients]
  /\ asking \subseteq [client : Clients, orderId : OrderIds, call : Nat]
  /\ rows \subseteq OrderIds
  /\ now \in 0..Horizon
  /\ passed \in [Clients -> SUBSET Call]
  /\ joinedAt \in [Clients -> [OrderIds -> Versions \cup {None}]]
  /\ got \in [Clients -> [OrderIds -> Versions \cup {None}]]
  /\ left \in [Clients -> SUBSET OrderIds]
  /\ overtaken \in [Clients -> SUBSET OrderIds]

\* README.md: "When order status changes, server emits `order.status` to
\* room".  A connected client in the room of an order has, once the throttle
\* is quiet, received the newest version if it is not the one it joined at.
SubscribersSeeTheNewest ==
  \A o \in OrderIds : \A c \in Recipients(o) :
    ~throttled[o] /\ latest[o] # joinedAt[c][o] => got[c][o] = latest[o]

\* Only staff and the order's own user are in its room, whatever calls and
\* deletions overlap with the check of the database.
MembersMayRead ==
  \A o \in OrderIds : \A c \in rooms[o] : user[c] \in Staff \/ user[c] = Owner[o]

\* A client that unsubscribed or disconnected and is in the room again without
\* having asked again was brought back by a subscribeOrder call of its own that
\* still awaited the database when it left, and by nothing else.
LeaversStayOut ==
  \A c \in Clients : \A o \in left[c] : c \in rooms[o] => o \in overtaken[c]

\* orders.gateway.ts on unsubscribeOrder: "8.2) client.leave(orderRoom(orderId))
\* 8.3) return { ok: true }".  A connected client that was told so, and has not
\* asked again, is not in the room.
UnsubscribedAreOut ==
  \A c \in Clients : socket[c] = "connected" =>
    \A o \in left[c] : c \notin rooms[o]

\* The comment on subscribeOrder: a window of 3000 ms, a limit of 5 calls.  In
\* no window of WindowMs ticks does the limit let more than MaxCalls calls of
\* a socket pass, refused calls and calls without an orderId in between.
RateLimitHolds ==
  \A c \in Clients, start \in 0..Horizon :
    Cardinality({k \in passed[c] : k.at \in start..(start + WindowMs - 1)}) <= MaxCalls
=============================================================================
