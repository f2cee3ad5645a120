------------------------ MODULE OrdersGateway_proofs ------------------------
(***************************************************************************)
(* The gateway only listens: whatever its clients, the database and the    *)
(* clock do, the event service behaves as OrdersEvents says.  What is      *)
(* proved of EventsSpec therefore holds of the composed system.            *)
(*                                                                         *)
(* The safety invariants of the gateway are proved in three groups: who is *)
(* in a room (RoomsInv), which calls the rate limit counts (CallsInv), and *)
(* what the members of a room have received (ReceiptsInv).                 *)
(***************************************************************************)
EXTENDS OrdersGateway, OrdersEvents_proofs

\* Every step of the composed system publishes an event, ends a throttle
\* period, or leaves the event service alone.
LEMMA GatewayStep == [Next]_vars => [EventsNext]_eventVars
<1> SUFFICES ASSUME [Next]_vars PROVE [EventsNext]_eventVars
  OBVIOUS
<1>1. CASE UNCHANGED vars
  BY <1>1 DEF vars
<1>8. CASE \E c \in Clients, h \in Handshakes : Connect(c, h)
  BY <1>8 DEF Connect
<1>2. CASE \E c \in Clients : Disconnect(c) \/ SubscribeOrder(c, {})
  BY <1>2 DEF Disconnect, SubscribeOrder
<1>3. CASE \E c \in Clients, o \in OrderIds : SubscribeOrder(c, {o}) \/ UnsubscribeOrder(c, o)
  BY <1>3 DEF SubscribeOrder, UnsubscribeOrder
<1>4. CASE \E a \in asking : FinishSubscribe(a)
  BY <1>4 DEF FinishSubscribe
<1>5. CASE \E o \in OrderIds, v \in Versions : PublishStatusChanged(o, v)
  BY <1>5 DEF PublishStatusChanged, EventsNext
<1>6. CASE \E o \in OrderIds : ThrottleTimer(o) \/ DeleteOrder(o)
  BY <1>6 DEF ThrottleTimer, DeleteOrder, EventsNext
<1>7. CASE Tick \/ Idle
  BY <1>7 DEF Tick, Idle, vars
<1> QED
  BY <1>1, <1>2, <1>3, <1>4, <1>5, <1>6, <1>7, <1>8 DEF Next

\* OrdersGateway subscribes to events$ and never writes to the service: the
\* composed system implements the specification of the service.
THEOREM GatewayListens == Spec => EventsSpec
<1>1. Init => EventsInit
  BY DEF Init
<1> QED
  BY <1>1, GatewayStep, PTL DEF Spec, EventsSpec

\* In the system with clients, subscriptions and deletions too, the newest
\* event of an order has been emitted or waits behind a running timer.
THEOREM NewestKeptForClients == Spec => []NewestIsNotSwallowed
  BY GatewayListens, NewestKept, PTL

-----------------------------------------------------------------------------
(* The inductive invariant.                                                *)

GatewayTypes ==
  /\ socket \in [Clients -> {"new", "connected", "gone"}]
  /\ user \in [Clients -> Users \cup {None}]
  /\ subscribeCalls \in [Clients -> SUBSET Call]
  /\ rooms \in [OrderIds -> SUBSET Clients]
  /\ asking \subseteq [client : Clients, orderId : OrderIds, call : Nat]
  /\ rows \subseteq OrderIds
  /\ now \in 0..Horizon
  /\ passed \in [Clients -> SUBSET Call]
  /\ joinedAt \in [Clients -> [OrderIds -> Versions \cup {None}]]
  /\ got \in [Clients -> [OrderIds -> Versions \cup {None}]]
  /\ left \in [Clients -> SUBSET OrderIds]
  /\ overtaken \in [Clients -> SUBSET OrderIds]

\* A socket that has not passed handleConnection is in no room, and none of
\* its calls is under way.
NewcomersAreOut ==
  \A c \in Clients : socket[c] = "new" =>
    /\ \A o \in OrderIds : c \notin rooms[o]
    /\ \A a \in asking : a.client # c

\* No call is under way that would bring back a client that left with none.
LeaversAskNoMore ==
  \A c \in Clients : \A o \in left[c] \ overtaken[c] :
    \A a \in asking : ~(a.client = c /\ a.orderId = o)

RoomsInv == NewcomersAreOut /\ MembersMayRead /\ LeaversStayOut /\ LeaversAskNoMore

\* The calls let pass are of the past and have different numbers, and those
\* that are recent are still counted.
CallsAreCounted ==
  \A c \in Clients :
    /\ IsFiniteSet(passed[c])
    /\ \A k \in passed[c] : k.at <= now /\ k.number <= Cardinality(passed[c])
    /\ IsFiniteSet(subscribeCalls[c]) /\ Cardinality(subscribeCalls[c]) <= MaxCalls
    /\ socket[c] = "new" => passed[c] = {}
    /\ socket[c] = "connected" => \A k \in passed[c] : Recent(k.at) => k \in subscribeCalls[c]

CallsInv == CallsAreCounted /\ RateLimitHolds

\* A member of a room has received the last version emitted; one that has
\* received none joined at that version, or after an event that still waits.
ReceiptsInv ==
  \A o \in OrderIds : \A c \in Recipients(o) :
    IF got[c][o] = None
    THEN sendValue[o] # None \/ emitted[o] = joinedAt[c][o]
    ELSE got[c][o] = emitted[o]

GatewayInv == EventsInv /\ NewestInv /\ GatewayTypes /\ RoomsInv /\ CallsInv /\ ReceiptsInv

-----------------------------------------------------------------------------
(* Types.                                                                  *)

\* What emitOrderStatus delivers: the members of the room of the order emitted
\* get its version, everybody else keeps what it has.
LEMMA EmitDelivers ==
  ASSUME GatewayTypes, EmitOrderStatus, NEW x \in OrderIds, NEW v \in Versions,
         emission' = {[orderId |-> x, version |-> v]}
  PROVE  got' = [c \in Clients |-> [o \in OrderIds |->
                   IF o = x /\ c \in Recipients(o) THEN v ELSE got[c][o]]]
<1>1. ASSUME NEW o \in OrderIds, o = x
      PROVE  (CHOOSE e \in emission' : e.orderId = o).version = v
  <2> DEFINE it == CHOOSE e \in emission' : e.orderId = o
  <2>1. \E e \in emission' : e.orderId = o
    BY <1>1
  <2>2. it \in emission'
    BY <2>1
  <2> HIDE DEF it
  <2>3. it.version = v
    BY <2>2
  <2> QED
    BY <2>3 DEF it
<1>2. ASSUME NEW o \in OrderIds, NEW c \in Clients
      PROVE  (\E e \in emission' : e.orderId = o /\ c \in Recipients(o))
             <=> (o = x /\ c \in Recipients(o))
  OBVIOUS
<1> QED
  BY <1>1, <1>2 DEF EmitOrderStatus

\* A step that emits nothing delivers nothing.
LEMMA SilentDelivers ==
  ASSUME GatewayTypes, EmitOrderStatus, emission' = {}
  PROVE  got' = got
BY DEF GatewayTypes, EmitOrderStatus

\* What a step of the service does to the rest of its state: it emits one event
\* of one order, or nothing.
LEMMA ServiceStep ==
  ASSUME EventsInv, NEW o \in OrderIds,
         (\E v \in Versions : Publish(o, v)) \/ EndThrottling(o)
  PROVE  \/ emission' = {} /\ emitted' = emitted
         \/ \E v \in Versions :
              /\ emission' = {[orderId |-> o, version |-> v]}
              /\ emitted' = [emitted EXCEPT ![o] = v]
              /\ sendValue' = [sendValue EXCEPT ![o] = None]
<1>1. CASE \E v \in Versions : Publish(o, v)
  BY <1>1 DEF Publish, Silent, Emit
<1>2. CASE EndThrottling(o)
  BY <1>2 DEF EndThrottling, Silent, Emit, EventsInv, EventsTypeOK
<1> QED
  BY <1>1, <1>2

\* An event delivers versions and nothing else.
LEMMA DeliveredTypes ==
  ASSUME EventsInv, GatewayTypes, NEW o \in OrderIds, EmitOrderStatus,
         (\E v \in Versions : Publish(o, v)) \/ EndThrottling(o)
  PROVE  got' \in [Clients -> [OrderIds -> Versions \cup {None}]]
<1>1. CASE emission' = {}
  BY <1>1, SilentDelivers DEF GatewayTypes
<1>2. CASE emission' # {}
  <2>1. PICK v \in Versions : emission' = {[orderId |-> o, version |-> v]}
    BY <1>2, ServiceStep
  <2>2. got' = [c \in Clients |-> [y \in OrderIds |->
                  IF y = o /\ c \in Recipients(y) THEN v ELSE got[c][y]]]
    BY <2>1, EmitDelivers
  <2> QED
    BY <2>2 DEF GatewayTypes
<1> QED
  BY <1>1, <1>2

\* The types are preserved; a call is numbered with a natural because only
\* finitely many have passed.
LEMMA TypesStep ==
  ASSUME EventsInv, GatewayTypes, CallsInv, Next
  PROVE  GatewayTypes'
<1>1. ASSUME NEW c \in Clients, NEW h \in Handshakes, Connect(c, h)
      PROVE  GatewayTypes'
  <2>1. CASE TokenFromHandshake(h) \in Users
    <3>1. UNCHANGED <<rooms, asking, rows, now, passed, joinedAt, got, left, overtaken>>
      BY <1>1 DEF Connect
    <3>2. /\ socket' = [socket EXCEPT ![c] = "connected"]
          /\ user' = [user EXCEPT ![c] = TokenFromHandshake(h)]
          /\ subscribeCalls' = [subscribeCalls EXCEPT ![c] = {}]
      BY <1>1, <2>1 DEF Connect
    <3> QED
      BY <2>1, <3>1, <3>2 DEF GatewayTypes
  <2>2. CASE TokenFromHandshake(h) \notin Users
    BY <1>1, <2>2 DEF Connect, GatewayTypes
  <2> QED
    BY <2>1, <2>2
<1>2. ASSUME NEW c \in Clients, Disconnect(c)
      PROVE  GatewayTypes'
  <2>1. UNCHANGED <<user, asking, rows, now, passed, joinedAt, got>>
    BY <1>2 DEF Disconnect
  <2>2. /\ socket' \in [Clients -> {"new", "connected", "gone"}]
        /\ rooms' \in [OrderIds -> SUBSET Clients]
        /\ subscribeCalls' \in [Clients -> SUBSET Call]
    BY <1>2 DEF Disconnect, GatewayTypes
  <2>3. AskedFor(c) \subseteq OrderIds
    BY DEF AskedFor, GatewayTypes
  <2>4. /\ left' \in [Clients -> SUBSET OrderIds]
        /\ overtaken' \in [Clients -> SUBSET OrderIds]
    BY <1>2, <2>3 DEF Disconnect, GatewayTypes
  <2> QED
    BY <2>1, <2>2, <2>4 DEF GatewayTypes
<1>3. ASSUME NEW c \in Clients, NEW payload \in SUBSET OrderIds, SubscribeOrder(c, payload)
      PROVE  GatewayTypes'
  <2> DEFINE recent == {k \in subscribeCalls[c] : Recent(k.at)}
             this == [at |-> now, number |-> Cardinality(passed[c]) + 1]
  <2>1. Cardinality(passed[c]) \in Nat
    BY FS_CardinalityType DEF CallsInv, CallsAreCounted
  <2>2. this \in Call
    BY <2>1 DEF GatewayTypes, Call
  <2>3. recent \in SUBSET Call
    BY DEF GatewayTypes
  <2>4. {[client |-> c, orderId |-> o, call |-> this.number] : o \in payload}
          \subseteq [client : Clients, orderId : OrderIds, call : Nat]
    BY <2>1
  <2>5. CASE OverLimit(Cardinality(recent))
    BY <1>3, <2>3, <2>5 DEF SubscribeOrder, GatewayTypes
  <2>6. CASE ~OverLimit(Cardinality(recent))
    <3>1. /\ subscribeCalls' = [subscribeCalls EXCEPT ![c] = recent \cup {this}]
          /\ passed' = [passed EXCEPT ![c] = @ \cup {this}]
          /\ asking' = asking \cup
               {[client |-> c, orderId |-> o, call |-> this.number] : o \in payload}
          /\ left' = [left EXCEPT ![c] = @ \ payload]
          /\ overtaken' = [overtaken EXCEPT ![c] = @ \ payload]
      BY <1>3, <2>6 DEF SubscribeOrder
    <3> HIDE DEF recent, this
    <3>2. UNCHANGED <<socket, user, rooms, rows, now, joinedAt, got>>
      BY <1>3 DEF SubscribeOrder
    <3> QED
      BY <2>2, <2>3, <2>4, <3>1, <3>2 DEF GatewayTypes
  <2> QED
    BY <2>5, <2>6
<1>4. ASSUME NEW c \in Clients, NEW o \in OrderIds, UnsubscribeOrder(c, o)
      PROVE  GatewayTypes'
  <2>1. UNCHANGED <<socket, user, subscribeCalls, asking, rows, now, passed, joinedAt, got>>
    BY <1>4 DEF UnsubscribeOrder
  <2>2. rooms' \in [OrderIds -> SUBSET Clients]
    BY <1>4 DEF UnsubscribeOrder, GatewayTypes
  <2>3. /\ left' \in [Clients -> SUBSET OrderIds]
        /\ overtaken' \in [Clients -> SUBSET OrderIds]
    BY <1>4 DEF UnsubscribeOrder, NoteLeave, GatewayTypes
  <2> QED
    BY <2>1, <2>2, <2>3 DEF GatewayTypes
<1>5. ASSUME NEW a \in asking, FinishSubscribe(a)
      PROVE  GatewayTypes'
  <2>1. a.client \in Clients /\ a.orderId \in OrderIds
    BY DEF GatewayTypes
  <2>2. latest[a.orderId] \in Versions \cup {None}
    BY <2>1 DEF EventsInv, EventsTypeOK
  <2>3. CASE rooms' = rooms /\ joinedAt' = joinedAt /\ got' = got
    BY <1>5, <2>3 DEF FinishSubscribe, GatewayTypes
  <2>4. CASE rooms' = [rooms EXCEPT ![a.orderId] = @ \cup {a.client}]
    <3>1. rooms' \in [OrderIds -> SUBSET Clients]
      BY <2>1, <2>4 DEF GatewayTypes
    <3>2. CASE joinedAt' = joinedAt /\ got' = got
      BY <1>5, <3>1, <3>2 DEF FinishSubscribe, GatewayTypes
    <3>3. CASE /\ joinedAt' = [joinedAt EXCEPT ![a.client][a.orderId] = latest[a.orderId]]
               /\ got' = [got EXCEPT ![a.client][a.orderId] = None]
      <4>1. joinedAt' \in [Clients -> [OrderIds -> Versions \cup {None}]]
        BY <2>1, <2>2, <3>3 DEF GatewayTypes
      <4>2. got' \in [Clients -> [OrderIds -> Versions \cup {None}]]
        BY <2>1, <3>3 DEF GatewayTypes
      <4> QED
        BY <1>5, <3>1, <4>1, <4>2 DEF FinishSubscribe, GatewayTypes
    <3> QED
      BY <1>5, <2>4, <3>2, <3>3 DEF FinishSubscribe
  <2> QED
    BY <1>5, <2>3, <2>4 DEF FinishSubscribe
<1>6. CASE \E o \in OrderIds, v \in Versions : PublishStatusChanged(o, v)
  <2>1. got' \in [Clients -> [OrderIds -> Versions \cup {None}]]
    BY <1>6, DeliveredTypes DEF PublishStatusChanged
  <2> QED
    BY <1>6, <2>1 DEF PublishStatusChanged, GatewayTypes
<1>7. CASE \E o \in OrderIds : ThrottleTimer(o)
  <2>1. got' \in [Clients -> [OrderIds -> Versions \cup {None}]]
    BY <1>7, DeliveredTypes DEF ThrottleTimer
  <2> QED
    BY <1>7, <2>1 DEF ThrottleTimer, GatewayTypes
<1>8. CASE \E o \in OrderIds : DeleteOrder(o)
  BY <1>8 DEF DeleteOrder, GatewayTypes
<1>9. CASE Tick
  BY <1>9, LimitAssumption DEF Tick, GatewayTypes
<1>10. CASE Idle
  BY <1>10 DEF Idle, vars, gatewayVars, GatewayTypes
<1> QED
  BY <1>1, <1>2, <1>3, <1>4, <1>5, <1>6, <1>7, <1>8, <1>9, <1>10 DEF Next

-----------------------------------------------------------------------------
(* Rooms.                                                                  *)

\* The steps that touch neither the sockets, the rooms, the calls under way nor
\* the users keep RoomsInv.
LEMMA RoomsFrame ==
  ASSUME RoomsInv, UNCHANGED <<socket, user, rooms, asking, left, overtaken>>
  PROVE  RoomsInv'
BY DEF RoomsInv, NewcomersAreOut, MembersMayRead, LeaversStayOut, LeaversAskNoMore

\* handleConnection sets the user of a socket that is in no room yet.
LEMMA RoomsConnect ==
  ASSUME GatewayTypes, RoomsInv, NEW c \in Clients, NEW h \in Handshakes, Connect(c, h)
  PROVE  RoomsInv'
<1>1. socket[c] = "new" /\ \A o \in OrderIds : c \notin rooms[o]
  BY DEF Connect, RoomsInv, NewcomersAreOut
<1>2. \A x \in Clients : x # c => user'[x] = user[x] /\ socket'[x] = socket[x]
  BY DEF Connect, GatewayTypes
<1>3. socket'[c] # "new"
  BY DEF Connect, GatewayTypes
<1>4. UNCHANGED <<rooms, asking, left, overtaken>>
  BY DEF Connect
<1>5. NewcomersAreOut'
  BY <1>2, <1>3, <1>4 DEF RoomsInv, NewcomersAreOut
<1>6. MembersMayRead'
  BY <1>1, <1>2, <1>4 DEF RoomsInv, MembersMayRead, GatewayTypes
<1> QED
  BY <1>4, <1>5, <1>6 DEF RoomsInv, LeaversStayOut, LeaversAskNoMore

\* A socket that goes leaves all rooms; only a call under way can put it back,
\* and those calls have just been overtaken.
LEMMA RoomsDisconnect ==
  ASSUME GatewayTypes, RoomsInv, NEW c \in Clients, Disconnect(c)
  PROVE  RoomsInv'
<1>1. /\ socket' = [socket EXCEPT ![c] = "gone"]
      /\ rooms' = [o \in OrderIds |-> rooms[o] \ {c}]
      /\ left' = [left EXCEPT ![c] = OrderIds]
      /\ overtaken' = [overtaken EXCEPT ![c] = AskedFor(c)]
      /\ UNCHANGED <<user, asking>>
  BY DEF Disconnect
<1>2. NewcomersAreOut' /\ MembersMayRead'
  BY <1>1 DEF GatewayTypes, RoomsInv, NewcomersAreOut, MembersMayRead
<1>3. \A x \in Clients : x # c => left'[x] = left[x] /\ overtaken'[x] = overtaken[x]
  BY <1>1 DEF GatewayTypes
<1>4. left'[c] = OrderIds /\ overtaken'[c] = AskedFor(c)
  BY <1>1 DEF GatewayTypes
<1>5. \A o \in left'[c] \ overtaken'[c] : \A a \in asking : ~(a.client = c /\ a.orderId = o)
  BY <1>4 DEF AskedFor
<1>6. \A x \in Clients : \A o \in left'[x] : o \in OrderIds
  BY <1>3, <1>4 DEF GatewayTypes
<1>7. LeaversStayOut'
  BY <1>1, <1>3, <1>4, <1>6 DEF RoomsInv, LeaversStayOut
<1>8. LeaversAskNoMore'
  BY <1>1, <1>3, <1>5 DEF RoomsInv, LeaversAskNoMore
<1> QED
  BY <1>2, <1>7, <1>8 DEF RoomsInv

\* unsubscribeOrder takes the client out of one room and overtakes the calls for
\* that order that are under way.
LEMMA RoomsUnsubscribe ==
  ASSUME GatewayTypes, RoomsInv, NEW c \in Clients, NEW o \in OrderIds, UnsubscribeOrder(c, o)
  PROVE  RoomsInv'
<1>1. /\ rooms' = [rooms EXCEPT ![o] = @ \ {c}]
      /\ left' = [left EXCEPT ![c] = @ \cup {o}]
      /\ overtaken' = [overtaken EXCEPT ![c] = (@ \ {o}) \cup ({o} \cap AskedFor(c))]
      /\ UNCHANGED <<socket, user, asking>>
  BY DEF UnsubscribeOrder, NoteLeave
<1>2. \A x \in OrderIds : rooms'[x] \subseteq rooms[x]
  BY <1>1 DEF GatewayTypes
<1>3. NewcomersAreOut' /\ MembersMayRead'
  BY <1>1, <1>2 DEF RoomsInv, NewcomersAreOut, MembersMayRead
<1>4. ASSUME NEW x \in Clients, NEW y \in left'[x], x # c \/ y # o
      PROVE  y \in left[x] /\ (y \in overtaken'[x] <=> y \in overtaken[x])
  BY <1>1, <1>4 DEF GatewayTypes
<1>8. o \in overtaken'[c] <=> o \in AskedFor(c)
  BY <1>1 DEF GatewayTypes
<1>5. c \notin rooms'[o]
  BY <1>1 DEF GatewayTypes
<1>6. LeaversStayOut'
  BY <1>2, <1>4, <1>5 DEF RoomsInv, LeaversStayOut, GatewayTypes
<1>7. LeaversAskNoMore'
  BY <1>1, <1>4, <1>8 DEF RoomsInv, LeaversAskNoMore, AskedFor
<1> QED
  BY <1>3, <1>6, <1>7 DEF RoomsInv

\* subscribeOrder changes no room before its await, and a client that asks for
\* an order has no longer left it.
LEMMA RoomsSubscribe ==
  ASSUME GatewayTypes, RoomsInv, NEW c \in Clients, NEW payload \in SUBSET OrderIds,
         SubscribeOrder(c, payload)
  PROVE  RoomsInv'
<1>1. /\ socket[c] = "connected"
      /\ UNCHANGED <<socket, user, rooms>>
  BY DEF SubscribeOrder
<1>2. CASE UNCHANGED <<asking, left, overtaken>>
  BY <1>1, <1>2, RoomsFrame
<1>3. CASE /\ \A a \in asking' : a \in asking \/ (a.client = c /\ a.orderId \in payload)
           /\ left' = [left EXCEPT ![c] = @ \ payload]
           /\ overtaken' = [overtaken EXCEPT ![c] = @ \ payload]
  <2>1. ASSUME NEW x \in Clients, NEW y \in left'[x]
        PROVE  /\ y \in left[x] /\ ~(x = c /\ y \in payload)
               /\ y \in overtaken'[x] <=> y \in overtaken[x]
    BY <1>3 DEF GatewayTypes
  <2>2. NewcomersAreOut' /\ MembersMayRead'
    BY <1>1, <1>3 DEF RoomsInv, NewcomersAreOut, MembersMayRead
  <2>3. LeaversStayOut'
    BY <1>1, <2>1 DEF RoomsInv, LeaversStayOut
  <2>4. LeaversAskNoMore'
    BY <1>3, <2>1 DEF RoomsInv, LeaversAskNoMore
  <2> QED
    BY <2>2, <2>3, <2>4 DEF RoomsInv
<1> QED
  BY <1>2, <1>3 DEF SubscribeOrder

\* The answer of canSubscribeToOrder is about the user of the socket, who has
\* not changed since it connected.
LEMMA RoomsFinish ==
  ASSUME GatewayTypes, RoomsInv, NEW a \in asking, FinishSubscribe(a)
  PROVE  RoomsInv'
<1>1. /\ a.client \in Clients /\ a.orderId \in OrderIds
      /\ asking' = asking \ {a}
      /\ UNCHANGED <<socket, user, left, overtaken>>
  BY DEF GatewayTypes, FinishSubscribe
<1>2. CASE UNCHANGED rooms
  BY <1>1, <1>2 DEF RoomsInv, NewcomersAreOut, MembersMayRead, LeaversStayOut, LeaversAskNoMore
<1>3. CASE /\ CanSubscribeToOrder(a.orderId, user[a.client])
           /\ rooms' = [rooms EXCEPT ![a.orderId] = @ \cup {a.client}]
  <2>1. user[a.client] \in Staff \/ user[a.client] = Owner[a.orderId]
    BY <1>3 DEF CanSubscribeToOrder
  <2>2. \A o \in OrderIds : \A c \in rooms'[o] :
          c \in rooms[o] \/ (c = a.client /\ o = a.orderId)
    BY <1>1, <1>3 DEF GatewayTypes
  <2>3. NewcomersAreOut'
    BY <1>1, <2>2 DEF RoomsInv, NewcomersAreOut
  <2>4. MembersMayRead'
    BY <1>1, <2>1, <2>2 DEF RoomsInv, MembersMayRead
  <2>5. LeaversStayOut'
    BY <1>1, <2>2 DEF RoomsInv, LeaversStayOut, LeaversAskNoMore, GatewayTypes
  <2>6. LeaversAskNoMore'
    BY <1>1 DEF RoomsInv, LeaversAskNoMore
  <2> QED
    BY <2>3, <2>4, <2>5, <2>6 DEF RoomsInv
<1> QED
  BY <1>2, <1>3 DEF FinishSubscribe

\* No step puts a client into a room it may not be in.
LEMMA RoomsStep ==
  ASSUME GatewayTypes, RoomsInv, Next
  PROVE  RoomsInv'
<1>1. CASE \E c \in Clients, h \in Handshakes : Connect(c, h)
  BY <1>1, RoomsConnect
<1>2. CASE \E c \in Clients : Disconnect(c) \/ SubscribeOrder(c, {})
  BY <1>2, RoomsDisconnect, RoomsSubscribe
<1>3. ASSUME NEW c \in Clients, NEW o \in OrderIds,
             SubscribeOrder(c, {o}) \/ UnsubscribeOrder(c, o)
      PROVE  RoomsInv'
  BY <1>3, RoomsSubscribe, RoomsUnsubscribe
<1>4. CASE \E a \in asking : FinishSubscribe(a)
  BY <1>4, RoomsFinish
<1>5. CASE \E o \in OrderIds, v \in Versions : PublishStatusChanged(o, v)
  BY <1>5, RoomsFrame DEF PublishStatusChanged
<1>6. CASE \E o \in OrderIds : ThrottleTimer(o) \/ DeleteOrder(o)
  BY <1>6, RoomsFrame DEF ThrottleTimer, DeleteOrder
<1>7. CASE Tick \/ Idle
  BY <1>7, RoomsFrame DEF Tick, Idle, vars, gatewayVars
<1> QED
  BY <1>1, <1>2, <1>3, <1>4, <1>5, <1>6, <1>7 DEF Next

-----------------------------------------------------------------------------
(* The rate limit.                                                         *)

\* Steps that leave the sockets, the calls and the clock alone.
LEMMA CallsFrame ==
  ASSUME CallsInv, UNCHANGED <<socket, subscribeCalls, passed, now>>
  PROVE  CallsInv'
BY DEF CallsInv, CallsAreCounted, RateLimitHolds, Recent

\* A socket starts with no calls, and counts none once it is gone.
LEMMA CallsReset ==
  ASSUME GatewayTypes, CallsInv, NEW c \in Clients,
         Disconnect(c) \/ \E h \in Handshakes : Connect(c, h)
  PROVE  CallsInv'
<1>1. UNCHANGED <<passed, now>>
  BY DEF Disconnect, Connect
<1>2. \A x \in Clients : x # c =>
        socket'[x] = socket[x] /\ subscribeCalls'[x] = subscribeCalls[x]
  BY DEF Disconnect, Connect, GatewayTypes
<1>3. subscribeCalls'[c] = {} \/ subscribeCalls'[c] = subscribeCalls[c]
  BY DEF Disconnect, Connect, GatewayTypes
<1>4. socket'[c] = "gone" \/ (socket'[c] = "connected" /\ passed[c] = {})
  BY DEF Disconnect, Connect, GatewayTypes, CallsInv, CallsAreCounted
<1>5. IsFiniteSet({}) /\ Cardinality({}) = 0
  BY FS_EmptySet
<1>6. IsFiniteSet(subscribeCalls'[c]) /\ Cardinality(subscribeCalls'[c]) <= MaxCalls
  <2>1. CASE subscribeCalls'[c] = {}
    <3>1. 0 <= MaxCalls
      BY LimitAssumption
    <3> QED
      BY <1>5, <2>1, <3>1
  <2>2. CASE subscribeCalls'[c] = subscribeCalls[c]
    BY <2>2 DEF CallsInv, CallsAreCounted
  <2> QED
    BY <1>3, <2>1, <2>2
<1>7. CallsAreCounted'
  BY <1>1, <1>2, <1>4, <1>6 DEF CallsInv, CallsAreCounted, Recent
<1>8. RateLimitHolds'
  BY <1>1 DEF CallsInv, RateLimitHolds
<1> QED
  BY <1>7, <1>8 DEF CallsInv

\* As time goes on, fewer calls are recent.
LEMMA CallsTick ==
  ASSUME GatewayTypes, CallsInv, Tick
  PROVE  CallsInv'
<1>1. UNCHANGED <<socket, subscribeCalls, passed>> /\ now' = now + 1
  BY DEF Tick
<1>2. now \in Int /\ WindowMs \in Int
  BY LimitAssumption DEF GatewayTypes
<1>3. \A c \in Clients : \A k \in passed[c] : k.at \in Int
  BY LimitAssumption DEF GatewayTypes, Call
<1>4. \A c \in Clients : \A k \in passed[c] :
        /\ k.at <= now => k.at <= now'
        /\ Recent(k.at)' => Recent(k.at)
  BY <1>1, <1>2, <1>3 DEF Recent
<1> QED
  BY <1>1, <1>4 DEF CallsInv, CallsAreCounted, RateLimitHolds

\* assertRateLimit: the calls of any window that includes the present one are
\* recent, so subscribeCalls holds them all and its length bounds their number.
LEMMA CallsSubscribe ==
  ASSUME GatewayTypes, CallsInv, NEW c \in Clients, NEW payload \in SUBSET OrderIds,
         SubscribeOrder(c, payload)
  PROVE  CallsInv'
<1> DEFINE recent == {k \in subscribeCalls[c] : Recent(k.at)}
           this == [at |-> now, number |-> Cardinality(passed[c]) + 1]
           Window(P, start) == {k \in P : k.at \in start..(start + WindowMs - 1)}
<1>1. /\ socket[c] = "connected" /\ UNCHANGED <<socket, now>>
      /\ now \in Int /\ WindowMs \in Nat /\ MaxCalls \in Nat \ {0}
  BY LimitAssumption DEF SubscribeOrder, GatewayTypes
<1>2. /\ IsFiniteSet(recent) /\ Cardinality(recent) \in Nat
      /\ Cardinality(recent) <= MaxCalls
  <2>1. recent \subseteq subscribeCalls[c]
    OBVIOUS
  <2>2. IsFiniteSet(subscribeCalls[c]) /\ Cardinality(subscribeCalls[c]) <= MaxCalls
    BY DEF CallsInv, CallsAreCounted
  <2>3. Cardinality(recent) <= Cardinality(subscribeCalls[c])
    BY <2>1, <2>2, FS_Subset
  <2>4. IsFiniteSet(recent)
    BY <2>1, <2>2, FS_Subset
  <2> QED
    BY <1>1, <2>2, <2>3, <2>4, FS_CardinalityType
<1>3. \A k \in passed[c] : k.at \in Int /\ k.number \in Nat
  BY LimitAssumption DEF GatewayTypes, Call
<1>4. \A k \in passed[c] : Recent(k.at) => k \in recent
  BY <1>1 DEF CallsInv, CallsAreCounted
<1>5. CASE /\ subscribeCalls' = [subscribeCalls EXCEPT ![c] = recent]
           /\ passed' = passed
  <2>1. \A x \in Clients :
          subscribeCalls'[x] = IF x = c THEN recent ELSE subscribeCalls[x]
    BY <1>5 DEF GatewayTypes
  <2> HIDE DEF recent
  <2>2. CallsAreCounted'
    BY <1>1, <1>2, <1>4, <1>5, <2>1 DEF CallsInv, CallsAreCounted, Recent
  <2>3. RateLimitHolds'
    BY <1>5 DEF CallsInv, RateLimitHolds
  <2> QED
    BY <2>2, <2>3 DEF CallsInv
<1>6. CASE /\ ~OverLimit(Cardinality(recent))
           /\ subscribeCalls' = [subscribeCalls EXCEPT ![c] = recent \cup {this}]
           /\ passed' = [passed EXCEPT ![c] = @ \cup {this}]
  <2>1. /\ IsFiniteSet(passed[c]) /\ Cardinality(passed[c]) \in Nat
        /\ \A k \in passed[c] : k.at <= now /\ k.number <= Cardinality(passed[c])
    BY FS_CardinalityType DEF CallsInv, CallsAreCounted
  <2>2. this.at = now /\ this.number = Cardinality(passed[c]) + 1
    OBVIOUS
  <2>3. /\ \A x \in Clients : x # c =>
             passed'[x] = passed[x] /\ subscribeCalls'[x] = subscribeCalls[x]
        /\ passed'[c] = passed[c] \cup {this}
        /\ subscribeCalls'[c] = recent \cup {this}
    BY <1>6 DEF GatewayTypes
  <2> HIDE DEF this, recent
  <2>4. /\ IsFiniteSet(subscribeCalls'[c])
        /\ Cardinality(subscribeCalls'[c]) <= MaxCalls
    <3>1. Cardinality(recent) + 1 <= MaxCalls
      BY <1>1, <1>2, <1>6 DEF OverLimit
    <3>2. /\ IsFiniteSet(recent \cup {this})
          /\ Cardinality(recent \cup {this}) =
               IF this \in recent THEN Cardinality(recent) ELSE Cardinality(recent) + 1
      BY <1>2, FS_AddElement
    <3> QED
      BY <1>1, <1>2, <2>3, <3>1, <3>2
  <2>5. this \notin passed[c]
    BY <1>3, <2>1, <2>2
  <2>6. IsFiniteSet(passed'[c]) /\ Cardinality(passed'[c]) = Cardinality(passed[c]) + 1
    BY <2>1, <2>3, <2>5, FS_AddElement
  <2>7. \A k \in passed'[c] : k.at <= now' /\ k.number <= Cardinality(passed'[c])
    BY <1>1, <1>3, <2>1, <2>2, <2>3, <2>6
  <2>8. \A k \in passed'[c] : Recent(k.at)' => k \in subscribeCalls'[c]
    BY <1>1, <1>4, <2>3 DEF Recent
  <2>9. CallsAreCounted'
    BY <1>1, <2>3, <2>4, <2>6, <2>7, <2>8 DEF CallsInv, CallsAreCounted, Recent
  <2>10. ASSUME NEW x \in Clients, NEW start \in 0..Horizon
         PROVE  Cardinality(Window(passed'[x], start)) <= MaxCalls
    <3>1. Cardinality(Window(passed[x], start)) <= MaxCalls
      BY DEF CallsInv, RateLimitHolds
    <3>2. CASE x # c
      BY <2>3, <3>1, <3>2
    <3>3. CASE x = c /\ now \notin start..(start + WindowMs - 1)
      <4>1. Window(passed'[c], start) = Window(passed[c], start)
        BY <2>2, <2>3, <3>3
      <4> QED
        BY <3>1, <3>3, <4>1
    <3>4. CASE x = c /\ now \in start..(start + WindowMs - 1)
      <4>1. \A k \in passed[c] : k.at \in start..(start + WindowMs - 1) => Recent(k.at)
        BY <1>1, <1>3, <3>4, LimitAssumption DEF Recent
      <4>2. Window(passed'[c], start) \subseteq subscribeCalls'[c]
        BY <1>4, <2>3, <4>1
      <4> HIDE DEF Window
      <4>3. Cardinality(Window(passed'[c], start)) <= Cardinality(subscribeCalls'[c])
        BY <2>4, <4>2, FS_Subset
      <4>4. IsFiniteSet(Window(passed'[c], start))
        BY <2>4, <4>2, FS_Subset
      <4> QED
        BY <1>1, <2>4, <3>4, <4>3, <4>4, FS_CardinalityType
    <3> QED
      BY <3>2, <3>3, <3>4
  <2>11. RateLimitHolds'
    BY <2>10 DEF RateLimitHolds
  <2> QED
    BY <2>9, <2>11 DEF CallsInv
<1> QED
  BY <1>5, <1>6 DEF SubscribeOrder

\* The limit is never exceeded, whatever the clients send and when.
LEMMA CallsStep ==
  ASSUME GatewayTypes, CallsInv, Next
  PROVE  CallsInv'
<1>1. CASE \E c \in Clients, h \in Handshakes : Connect(c, h)
  BY <1>1, CallsReset
<1>2. CASE \E c \in Clients : Disconnect(c) \/ SubscribeOrder(c, {})
  BY <1>2, CallsReset, CallsSubscribe
<1>3. ASSUME NEW c \in Clients, NEW o \in OrderIds,
             SubscribeOrder(c, {o}) \/ UnsubscribeOrder(c, o)
      PROVE  CallsInv'
  BY <1>3, CallsSubscribe, CallsFrame DEF UnsubscribeOrder
<1>4. CASE \E a \in asking : FinishSubscribe(a)
  BY <1>4, CallsFrame DEF FinishSubscribe
<1>5. CASE \E o \in OrderIds, v \in Versions : PublishStatusChanged(o, v)
  BY <1>5, CallsFrame DEF PublishStatusChanged
<1>6. CASE \E o \in OrderIds : ThrottleTimer(o) \/ DeleteOrder(o)
  BY <1>6, CallsFrame DEF ThrottleTimer, DeleteOrder
<1>7. CASE Tick
  BY <1>7, CallsTick
<1>8. CASE Idle
  BY <1>8, CallsFrame DEF Idle, vars, gatewayVars
<1> QED
  BY <1>1, <1>2, <1>3, <1>4, <1>5, <1>6, <1>7, <1>8 DEF Next

-----------------------------------------------------------------------------
(* What the members of a room have received.                               *)

\* Steps that change neither what is emitted nor what is received, and connect
\* no member of a room.
LEMMA ReceiptsFrame ==
  ASSUME ReceiptsInv, UNCHANGED <<sendValue, emitted, got, joinedAt>>,
         \A o \in OrderIds : Recipients(o)' \subseteq Recipients(o)
  PROVE  ReceiptsInv'
BY DEF ReceiptsInv

\* A socket connects before it enters a room.
LEMMA ReceiptsConnect ==
  ASSUME GatewayTypes, RoomsInv, ReceiptsInv, NEW c \in Clients, NEW h \in Handshakes,
         Connect(c, h)
  PROVE  ReceiptsInv'
<1>1. \A o \in OrderIds : c \notin rooms[o]
  BY DEF Connect, RoomsInv, NewcomersAreOut
<1>2. \A x \in Clients : x # c => socket'[x] = socket[x]
  BY DEF Connect, GatewayTypes
<1>3. UNCHANGED <<rooms, sendValue, emitted, got, joinedAt>>
  BY DEF Connect, eventVars
<1>4. \A o \in OrderIds : Recipients(o)' \subseteq Recipients(o)
  BY <1>1, <1>2, <1>3 DEF Recipients, GatewayTypes
<1> QED
  BY <1>3, <1>4, ReceiptsFrame

\* A client joins at the newest version, which has been emitted or waits.
LEMMA ReceiptsFinish ==
  ASSUME NewestInv, GatewayTypes, ReceiptsInv, NEW a \in asking, FinishSubscribe(a)
  PROVE  ReceiptsInv'
<1>1. /\ a.client \in Clients /\ a.orderId \in OrderIds
      /\ UNCHANGED <<socket, sendValue, emitted>>
  BY DEF GatewayTypes, FinishSubscribe, eventVars
<1>2. CASE UNCHANGED <<rooms, joinedAt, got>>
  BY <1>1, <1>2 DEF ReceiptsInv, Recipients
<1>3. CASE /\ rooms' = [rooms EXCEPT ![a.orderId] = @ \cup {a.client}]
           /\ a.client \in rooms[a.orderId]
           /\ UNCHANGED <<joinedAt, got>>
  <2>1. rooms' = rooms
    BY <1>1, <1>3 DEF GatewayTypes
  <2> QED
    BY <1>1, <1>3, <2>1 DEF ReceiptsInv, Recipients
<1>4. CASE /\ rooms' = [rooms EXCEPT ![a.orderId] = @ \cup {a.client}]
           /\ joinedAt' = [joinedAt EXCEPT ![a.client][a.orderId] = latest[a.orderId]]
           /\ got' = [got EXCEPT ![a.client][a.orderId] = None]
  <2>1. ASSUME NEW o \in OrderIds, NEW c \in Recipients(o)', c # a.client \/ o # a.orderId
        PROVE  /\ c \in Recipients(o)
               /\ got'[c][o] = got[c][o] /\ joinedAt'[c][o] = joinedAt[c][o]
    BY <1>1, <1>4, <2>1 DEF Recipients, GatewayTypes
  <2>2. /\ got'[a.client][a.orderId] = None
        /\ joinedAt'[a.client][a.orderId] = latest[a.orderId]
    BY <1>1, <1>4 DEF GatewayTypes
  <2>3. sendValue[a.orderId] # None \/ emitted[a.orderId] = latest[a.orderId]
    BY <1>1 DEF NewestInv, NewestIsNotSwallowed
  <2> QED
    BY <1>1, <2>1, <2>2, <2>3 DEF ReceiptsInv
<1> QED
  BY <1>2, <1>3, <1>4 DEF FinishSubscribe

\* An emission reaches every member of the room; a step without one leaves an
\* event that waits, and the last one emitted, where they are.
LEMMA ReceiptsEvent ==
  ASSUME EventsInv, GatewayTypes, ReceiptsInv, NEW o \in OrderIds, EmitOrderStatus,
         (\E v \in Versions : Publish(o, v)) \/ EndThrottling(o),
         UNCHANGED <<socket, rooms, joinedAt>>
  PROVE  ReceiptsInv'
<1>1. \A x \in OrderIds : Recipients(x)' = Recipients(x) /\ Recipients(x) \subseteq Clients
  BY DEF Recipients, GatewayTypes
<1>2. CASE emission' = {}
  <2>1. got' = got
    BY <1>2, SilentDelivers
  <2>2. emitted' = emitted
    BY <1>2, ServiceStep
  <2>3. \A x \in OrderIds : sendValue[x] # None => sendValue'[x] # None
    <3>1. sendValue' = sendValue \/ \E v \in Versions : sendValue' = [sendValue EXCEPT ![o] = v]
      <4>1. CASE \E v \in Versions : Publish(o, v)
        BY <1>2, <4>1 DEF Publish, Emit
      <4>2. CASE EndThrottling(o)
        BY <1>2, <4>2 DEF EndThrottling, Emit
      <4> QED
        BY <4>1, <4>2
    <3> QED
      BY <3>1, NoneAssumption DEF EventsInv, EventsTypeOK
  <2> QED
    BY <1>1, <2>1, <2>2, <2>3 DEF ReceiptsInv
<1>3. CASE emission' # {}
  <2>1. PICK v \in Versions :
          /\ emission' = {[orderId |-> o, version |-> v]}
          /\ emitted' = [emitted EXCEPT ![o] = v]
          /\ sendValue' = [sendValue EXCEPT ![o] = None]
    BY <1>3, ServiceStep
  <2>2. got' = [c \in Clients |-> [x \in OrderIds |->
                  IF x = o /\ c \in Recipients(x) THEN v ELSE got[c][x]]]
    BY <2>1, EmitDelivers
  <2>3. ASSUME NEW x \in OrderIds, NEW c \in Recipients(x)
        PROVE  IF got'[c][x] = None
               THEN sendValue'[x] # None \/ emitted'[x] = joinedAt'[c][x]
               ELSE got'[c][x] = emitted'[x]
    <3>1. CASE x = o
      BY <1>1, <2>1, <2>2, <3>1, NoneAssumption DEF EventsInv, EventsTypeOK
    <3>2. CASE x # o
      BY <1>1, <2>1, <2>2, <3>2 DEF ReceiptsInv, EventsInv, EventsTypeOK
    <3> QED
      BY <3>1, <3>2
  <2> QED
    BY <1>1, <2>3 DEF ReceiptsInv
<1> QED
  BY <1>2, <1>3

\* No step lets a member of a room miss what is emitted.
LEMMA ReceiptsStep ==
  ASSUME EventsInv, NewestInv, GatewayTypes, RoomsInv, ReceiptsInv, Next
  PROVE  ReceiptsInv'
<1>1. CASE \E c \in Clients, h \in Handshakes : Connect(c, h)
  BY <1>1, ReceiptsConnect
<1>2. ASSUME NEW c \in Clients, Disconnect(c)
      PROVE  ReceiptsInv'
  <2>1. \A o \in OrderIds : Recipients(o)' \subseteq Recipients(o)
    BY <1>2 DEF Disconnect, Recipients, GatewayTypes
  <2> QED
    BY <1>2, <2>1, ReceiptsFrame DEF Disconnect, eventVars
<1>3. ASSUME NEW c \in Clients, NEW payload \in SUBSET OrderIds, SubscribeOrder(c, payload)
      PROVE  ReceiptsInv'
  <2>1. \A o \in OrderIds : Recipients(o)' \subseteq Recipients(o)
    BY <1>3 DEF SubscribeOrder, Recipients
  <2> QED
    BY <1>3, <2>1, ReceiptsFrame DEF SubscribeOrder, eventVars
<1>4. ASSUME NEW c \in Clients, NEW o \in OrderIds, UnsubscribeOrder(c, o)
      PROVE  ReceiptsInv'
  <2>1. \A x \in OrderIds : Recipients(x)' \subseteq Recipients(x)
    BY <1>4 DEF UnsubscribeOrder, Recipients, GatewayTypes
  <2> QED
    BY <1>4, <2>1, ReceiptsFrame DEF UnsubscribeOrder, eventVars
<1>5. CASE \E a \in asking : FinishSubscribe(a)
  BY <1>5, ReceiptsFinish
<1>6. CASE \E o \in OrderIds, v \in Versions : PublishStatusChanged(o, v)
  BY <1>6, ReceiptsEvent DEF PublishStatusChanged
<1>7. CASE \E o \in OrderIds : ThrottleTimer(o)
  BY <1>7, ReceiptsEvent DEF ThrottleTimer
<1>8. CASE (\E o \in OrderIds : DeleteOrder(o)) \/ Tick \/ Idle
  <2>1. UNCHANGED <<sendValue, emitted, got, joinedAt, socket, rooms>>
    BY <1>8 DEF DeleteOrder, Tick, Idle, vars, gatewayVars, eventVars
  <2>2. \A o \in OrderIds : Recipients(o)' \subseteq Recipients(o)
    BY <2>1 DEF Recipients
  <2> QED
    BY <2>1, <2>2, ReceiptsFrame
<1> QED
  BY <1>1, <1>2, <1>3, <1>4, <1>5, <1>6, <1>7, <1>8 DEF Next

-----------------------------------------------------------------------------
(* The theorems.                                                           *)

\* Nobody has connected, called or received anything at the start.
LEMMA GatewayInit == Init => GatewayInv
<1> SUFFICES ASSUME Init PROVE GatewayInv
  OBVIOUS
<1>1. EventsInv /\ NewestInv
  BY CountInit, NewestInit DEF Init
<1>2. GatewayTypes
  BY LimitAssumption DEF Init, GatewayTypes
<1>3. RoomsInv
  BY DEF Init, RoomsInv, NewcomersAreOut, MembersMayRead, LeaversStayOut, LeaversAskNoMore
<1>4. IsFiniteSet({}) /\ Cardinality({}) = 0 /\ 0 <= MaxCalls
  BY FS_EmptySet, LimitAssumption
<1>5. CallsAreCounted
  BY <1>4 DEF Init, CallsAreCounted
<1>6. RateLimitHolds
  <2>1. ASSUME NEW c \in Clients, NEW start \in 0..Horizon
        PROVE  {k \in passed[c] : k.at \in start..(start + WindowMs - 1)} = {}
    BY DEF Init
  <2> QED
    BY <1>4, <2>1 DEF RateLimitHolds
<1>7. ReceiptsInv
  BY DEF Init, ReceiptsInv, Recipients
<1> QED
  BY <1>1, <1>2, <1>3, <1>5, <1>6, <1>7 DEF GatewayInv, CallsInv

\* The invariant of the composed system is inductive.
LEMMA GatewayInductive == GatewayInv /\ [Next]_vars => GatewayInv'
<1> SUFFICES ASSUME GatewayInv, [Next]_vars PROVE GatewayInv'
  OBVIOUS
<1>1. EventsInv' /\ NewestInv'
  <2>1. [EventsNext]_eventVars
    BY GatewayStep
  <2> QED
    BY <2>1, EventsInductive, NewestInductive DEF GatewayInv
<1>2. CASE UNCHANGED vars
  <2>1. UNCHANGED gatewayVars /\ UNCHANGED eventVars
    BY <1>2 DEF vars
  <2>2. GatewayTypes'
    BY <2>1 DEF GatewayInv, GatewayTypes, gatewayVars
  <2>3. RoomsInv' /\ CallsInv'
    BY <2>1, RoomsFrame, CallsFrame DEF GatewayInv, gatewayVars
  <2>4. ReceiptsInv'
    BY <2>1 DEF GatewayInv, ReceiptsInv, Recipients, gatewayVars, eventVars
  <2> QED
    BY <1>1, <2>2, <2>3, <2>4 DEF GatewayInv
<1>3. CASE Next
  BY <1>1, <1>3, TypesStep, RoomsStep, CallsStep, ReceiptsStep DEF GatewayInv
<1> QED
  BY <1>2, <1>3

\* The variables of the gateway and of the service have their types, and
\* assertRateLimit never counts more than maxCalls calls of a socket.
THEOREM GatewayTypeCorrect == Spec => []TypeOK
<1>1. GatewayInv => TypeOK
  BY DEF GatewayInv, EventsInv, GatewayTypes, CallsInv, CallsAreCounted, TypeOK
<1> QED
  BY GatewayInit, GatewayInductive, <1>1, PTL DEF Spec

\* subscribeOrder joins the room after an await, and handleConnection sets the
\* user: still only staff and the order's own user are ever in its room.
THEOREM MembersMayAlwaysRead == Spec => []MembersMayRead
<1>1. GatewayInv => MembersMayRead
  BY DEF GatewayInv, RoomsInv
<1> QED
  BY GatewayInit, GatewayInductive, <1>1, PTL DEF Spec

\* After unsubscribeOrder or handleDisconnect only two things bring a client back
\* into a room: a new subscribeOrder call, or one that was under way when it left.
THEOREM LeaversAlwaysStayOut == Spec => []LeaversStayOut
<1>1. GatewayInv => LeaversStayOut
  BY DEF GatewayInv, RoomsInv
<1> QED
  BY GatewayInit, GatewayInductive, <1>1, PTL DEF Spec

\* assertRateLimit: in no window of windowMs do more than maxCalls calls of a
\* socket pass, for every windowMs, every maxCalls and every schedule of calls.
THEOREM RateAlwaysLimited == Spec => []RateLimitHolds
<1>1. GatewayInv => RateLimitHolds
  BY DEF GatewayInv, CallsInv
<1> QED
  BY GatewayInit, GatewayInductive, <1>1, PTL DEF Spec

\* emitOrderStatus behind groupBy, distinctUntilChanged and throttleTime: a
\* connected client in a room has received the newest version once no timer
\* runs, unless it joined at that version.
THEOREM SubscribersAlwaysSeeTheNewest == Spec => []SubscribersSeeTheNewest
<1>1. GatewayInv => SubscribersSeeTheNewest
  <2> SUFFICES ASSUME GatewayInv, NEW o \in OrderIds, NEW c \in Recipients(o),
                      ~throttled[o], latest[o] # joinedAt[c][o]
               PROVE  got[c][o] = latest[o]
    BY DEF SubscribersSeeTheNewest
  <2>1. sendValue[o] = None /\ latest[o] = emitted[o]
    BY DEF GatewayInv, NewestInv, NewestIsNotSwallowed
  <2> QED
    BY <2>1 DEF GatewayInv, ReceiptsInv
<1> QED
  BY GatewayInit, GatewayInductive, <1>1, PTL DEF Spec
=============================================================================
