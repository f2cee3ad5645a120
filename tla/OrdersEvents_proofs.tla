------------------------ MODULE OrdersEvents_proofs ------------------------
(***************************************************************************)
(* That deduplication and throttling never swallow the newest event of an  *)
(* order, for any sets of orders and versions.  NewestIsNotSwallowed is    *)
(* not inductive: a repetition is dropped by comparing with lastVersion,   *)
(* so the proof also needs that lastVersion is the version published last. *)
(***************************************************************************)
EXTENDS OrdersEvents, FiniteSetTheorems, TLAPS

Shape ==
  /\ lastVersion \in [OrderIds -> Versions \cup {None}]
  /\ throttled \in [OrderIds -> BOOLEAN]
  /\ sendValue \in [OrderIds -> Versions \cup {None}]
  /\ latest \in [OrderIds -> Versions \cup {None}]
  /\ emitted \in [OrderIds -> Versions \cup {None}]

NewestInv ==
  /\ Shape
  /\ lastVersion = latest
  /\ NewestIsNotSwallowed

\* Nothing has been published or emitted at the start.
LEMMA NewestInit == EventsInit => NewestInv
  BY DEF EventsInit, NewestInv, Shape, NewestIsNotSwallowed

\* An event replaces the one waiting, is emitted at once, or repeats the
\* newest one; publishStatusChanged has no other way.
LEMMA NewestPublish ==
  ASSUME NewestInv, NEW o \in OrderIds, NEW v \in Versions, Publish(o, v)
  PROVE  NewestInv'
<1>1. Shape'
  BY NoneAssumption DEF NewestInv, Shape, Publish, Repeated, Emit, Silent
<1>2. (lastVersion = latest)'
  BY DEF NewestInv, Shape, Publish
<1>3. ASSUME NEW x \in OrderIds
      PROVE  /\ latest'[x] = (IF sendValue'[x] = None THEN emitted'[x] ELSE sendValue'[x])
             /\ sendValue'[x] # None => throttled'[x]
  <2>1. CASE Repeated(o, v)
    BY <2>1, NoneAssumption
    DEF NewestInv, Shape, NewestIsNotSwallowed, Publish, Repeated, Silent
  <2>2. CASE ~Repeated(o, v) /\ throttled[o]
    BY <2>2, NoneAssumption
    DEF NewestInv, Shape, NewestIsNotSwallowed, Publish, Silent
  <2>3. CASE ~Repeated(o, v) /\ ~throttled[o]
    BY <2>3, NoneAssumption
    DEF NewestInv, Shape, NewestIsNotSwallowed, Publish, Emit
  <2> QED
    BY <2>1, <2>2, <2>3 DEF Publish
<1> QED
  BY <1>1, <1>2, <1>3 DEF NewestInv, NewestIsNotSwallowed

\* The end of a throttle period emits what waits, or finds nothing waiting.
LEMMA NewestTimer ==
  ASSUME NewestInv, NEW o \in OrderIds, EndThrottling(o)
  PROVE  NewestInv'
<1>1. Shape'
  BY NoneAssumption DEF NewestInv, Shape, EndThrottling, Emit, Silent
<1>2. (lastVersion = latest)'
  BY DEF NewestInv, EndThrottling
<1>3. NewestIsNotSwallowed'
  BY NoneAssumption
  DEF NewestInv, Shape, NewestIsNotSwallowed, EndThrottling, Emit, Silent
<1> QED
  BY <1>1, <1>2, <1>3 DEF NewestInv

\* NewestInv is inductive.
LEMMA NewestInductive == NewestInv /\ [EventsNext]_eventVars => NewestInv'
<1> SUFFICES ASSUME NewestInv, [EventsNext]_eventVars PROVE NewestInv'
  OBVIOUS
<1>1. CASE UNCHANGED eventVars
  BY <1>1 DEF NewestInv, Shape, NewestIsNotSwallowed, eventVars
<1>2. CASE \E o \in OrderIds, v \in Versions : Publish(o, v)
  BY <1>2, NewestPublish
<1>3. CASE \E o \in OrderIds : EndThrottling(o)
  BY <1>3, NewestTimer
<1> QED
  BY <1>1, <1>2, <1>3 DEF EventsNext

\* publishStatusChanged and the throttle timers never lose the newest event of
\* an order: it has been emitted, or it waits behind a running timer.
THEOREM NewestKept == EventsSpec => []NewestIsNotSwallowed
<1>1. NewestInv => NewestIsNotSwallowed
  BY DEF NewestInv
<1> QED
  BY NewestInit, NewestInductive, <1>1, PTL DEF EventsSpec

-----------------------------------------------------------------------------
(* The counters.                                                           *)

Waiting == {o \in OrderIds : sendValue[o] # None}

\* Every event received was dropped, was emitted, waits, or was replaced while
\* it waited.
EventsAreCounted ==
  /\ IsFiniteSet(Waiting)
  /\ metrics.dedupDropped + metrics.emitted + Cardinality(Waiting) <= metrics.received

EventsInv == EventsTypeOK /\ EventsAreCounted

\* A counter of metrics goes up by one, the others stay.
LEMMA CountTypes ==
  ASSUME NEW m \in [received : Nat, dedupDropped : Nat, emitted : Nat]
  PROVE  /\ Count(m, "received") \in [received : Nat, dedupDropped : Nat, emitted : Nat]
         /\ Count(m, "received").received = m.received + 1
         /\ Count(m, "received").dedupDropped = m.dedupDropped
         /\ Count(m, "received").emitted = m.emitted
         /\ Count(m, "dedupDropped") \in [received : Nat, dedupDropped : Nat, emitted : Nat]
         /\ Count(m, "dedupDropped").received = m.received
         /\ Count(m, "dedupDropped").dedupDropped = m.dedupDropped + 1
         /\ Count(m, "dedupDropped").emitted = m.emitted
         /\ Count(m, "emitted") \in [received : Nat, dedupDropped : Nat, emitted : Nat]
         /\ Count(m, "emitted").received = m.received
         /\ Count(m, "emitted").dedupDropped = m.dedupDropped
         /\ Count(m, "emitted").emitted = m.emitted + 1
BY DEF Count

\* With counters that add up, each of them is at most received.
LEMMA CountersAreBounded ==
  ASSUME NEW m \in [received : Nat, dedupDropped : Nat, emitted : Nat], NEW n \in Nat,
         m.dedupDropped + m.emitted + n <= m.received, m.received <= MaxPublishes
  PROVE  m \in [received : 0..MaxPublishes, dedupDropped : 0..MaxPublishes,
                emitted : 0..MaxPublishes]
<1>1. m = [received |-> m.received, dedupDropped |-> m.dedupDropped, emitted |-> m.emitted]
  OBVIOUS
<1>2. /\ m.received \in 0..MaxPublishes
      /\ m.dedupDropped \in 0..MaxPublishes
      /\ m.emitted \in 0..MaxPublishes
  BY PublishesAssumption
<1> QED
  BY <1>1, <1>2

\* An emission puts one event on events$, and a silent step none.
LEMMA EmissionTypes ==
  ASSUME NEW o \in OrderIds, NEW v \in Versions,
         emission' = {} \/ emission' = {[orderId |-> o, version |-> v]}
  PROVE  emission' \subseteq Event /\ Cardinality(emission') <= 1
<1>1. CASE emission' = {}
  BY <1>1, FS_EmptySet
<1>2. CASE emission' = {[orderId |-> o, version |-> v]}
  <2>1. Cardinality(emission') = 1
    BY <1>2, FS_Singleton
  <2>2. [orderId |-> o, version |-> v] \in Event
    BY DEF Event
  <2> QED
    BY <1>2, <2>1, <2>2
<1> QED
  BY <1>1, <1>2

\* Nothing has been counted at the start.
LEMMA CountInit == EventsInit => EventsInv
<1> SUFFICES ASSUME EventsInit PROVE EventsInv
  OBVIOUS
<1>1. Waiting = {}
  BY DEF EventsInit, Waiting
<1>2. IsFiniteSet(Waiting) /\ Cardinality(Waiting) = 0
  BY <1>1, FS_EmptySet
<1>3. EventsAreCounted
  BY <1>2 DEF EventsInit, EventsAreCounted
<1>4. Cardinality(emission) = 0
  BY FS_EmptySet DEF EventsInit
<1> QED
  BY <1>3, <1>4, PublishesAssumption DEF EventsInit, EventsInv, EventsTypeOK

\* publishStatusChanged counts an event once as received and at most once as
\* dropped or emitted.
LEMMA CountPublish ==
  ASSUME EventsInv, NEW o \in OrderIds, NEW v \in Versions, Publish(o, v)
  PROVE  EventsInv'
<1> DEFINE W == Waiting
           m == Count(metrics, "received")
<1>1. /\ metrics \in [received : Nat, dedupDropped : Nat, emitted : Nat]
      /\ metrics.received < MaxPublishes
      /\ metrics.dedupDropped + metrics.emitted + Cardinality(W) <= metrics.received
      /\ IsFiniteSet(W) /\ Cardinality(W) \in Nat
  <2>1. metrics \in [received : 0..MaxPublishes, dedupDropped : 0..MaxPublishes,
                     emitted : 0..MaxPublishes]
    BY DEF EventsInv, EventsTypeOK
  <2>2. metrics \in [received : Nat, dedupDropped : Nat, emitted : Nat]
    BY <2>1, PublishesAssumption
  <2> QED
    BY <2>2, FS_CardinalityType DEF EventsInv, EventsAreCounted, Publish
<1>2. /\ m \in [received : Nat, dedupDropped : Nat, emitted : Nat]
      /\ m.received = metrics.received + 1
      /\ m.dedupDropped = metrics.dedupDropped
      /\ m.emitted = metrics.emitted
  BY <1>1, CountTypes
<1>7. /\ metrics.received \in Nat /\ metrics.dedupDropped \in Nat /\ metrics.emitted \in Nat
      /\ Cardinality(W) \in Nat
  BY <1>1
<1> HIDE DEF m, W
<1>3. /\ metrics' \in [received : Nat, dedupDropped : Nat, emitted : Nat]
      /\ metrics'.received = metrics.received + 1
      /\ IsFiniteSet(Waiting') /\ Cardinality(Waiting') \in Nat
      /\ metrics'.dedupDropped + metrics'.emitted + Cardinality(Waiting') <= metrics'.received
      /\ emission' = {} \/ emission' = {[orderId |-> o, version |-> v]}
  <2>1. CASE Repeated(o, v)
    <3>1. metrics' = Count(m, "dedupDropped")
      BY <2>1 DEF Publish, m
    <3>2. Waiting' = W
      BY <2>1 DEF Publish, Waiting, W
    <3>3. emission' = {}
      BY <2>1 DEF Publish, Silent
    <3>4. /\ metrics' \in [received : Nat, dedupDropped : Nat, emitted : Nat]
          /\ metrics'.received = metrics.received + 1
          /\ metrics'.dedupDropped = metrics.dedupDropped + 1
          /\ metrics'.emitted = metrics.emitted
      BY <3>1, <1>2, CountTypes
    <3>5. metrics'.dedupDropped + metrics'.emitted + Cardinality(W) <= metrics'.received
      BY <3>4, <1>1, <1>7
    <3> QED
      BY <3>2, <3>3, <3>4, <3>5, <1>1
  <2>2. CASE ~Repeated(o, v) /\ throttled[o]
    <3>1. metrics' = m /\ emission' = {}
      BY <2>2 DEF Publish, Silent, m
    <3>2. Waiting' = W \cup {o}
      BY <2>2, NoneAssumption DEF Publish, EventsInv, EventsTypeOK, Waiting, W
    <3>3. /\ IsFiniteSet(Waiting') /\ Cardinality(Waiting') \in Nat
          /\ Cardinality(Waiting') <= Cardinality(W) + 1
      BY <3>2, <1>1, FS_AddElement
    <3> QED
      BY <3>1, <3>3, <1>1, <1>2
  <2>3. CASE ~Repeated(o, v) /\ ~throttled[o]
    <3>1. metrics' = Count(m, "emitted")
      BY <2>3 DEF Publish, Emit, m
    <3>2. Waiting' = W \ {o}
      BY <2>3, NoneAssumption DEF Publish, Emit, EventsInv, EventsTypeOK, Waiting, W
    <3>3. /\ IsFiniteSet(Waiting') /\ Cardinality(Waiting') \in Nat
          /\ Cardinality(Waiting') <= Cardinality(W)
      <4>1. /\ IsFiniteSet(W \ {o})
            /\ Cardinality(W \ {o}) =
                 IF o \in W THEN Cardinality(W) - 1 ELSE Cardinality(W)
        BY <1>1, FS_RemoveElement
      <4>2. Cardinality(W \ {o}) \in Nat
        BY <4>1, FS_CardinalityType
      <4> QED
        BY <1>1, <3>2, <4>1, <4>2
    <3>4. emission' = {[orderId |-> o, version |-> v]}
      BY <2>3 DEF Publish, Emit
    <3>5. /\ metrics' \in [received : Nat, dedupDropped : Nat, emitted : Nat]
          /\ metrics'.received = metrics.received + 1
          /\ metrics'.dedupDropped = metrics.dedupDropped
          /\ metrics'.emitted = metrics.emitted + 1
      BY <3>1, <1>2, CountTypes
    <3>6. metrics'.dedupDropped + metrics'.emitted + Cardinality(Waiting') <= metrics'.received
      BY <3>3, <3>5, <1>1, <1>7
    <3> QED
      BY <3>3, <3>4, <3>5, <3>6
  <2> QED
    BY <2>1, <2>2, <2>3 DEF Publish
<1>4. metrics' \in [received : 0..MaxPublishes, dedupDropped : 0..MaxPublishes,
                    emitted : 0..MaxPublishes]
  <2>1. metrics'.received <= MaxPublishes
    BY <1>1, <1>3, PublishesAssumption
  <2> QED
    BY <1>3, <2>1, CountersAreBounded
<1>5. emission' \subseteq Event /\ Cardinality(emission') <= 1
  BY <1>3, EmissionTypes
<1>6. Shape'
  BY DEF EventsInv, EventsTypeOK, Shape, Publish, Emit, Silent
<1> QED
  BY <1>3, <1>4, <1>5, <1>6 DEF EventsInv, EventsTypeOK, EventsAreCounted, Shape

\* A throttle timer counts as emitted what no longer waits.
LEMMA CountTimer ==
  ASSUME EventsInv, NEW o \in OrderIds, EndThrottling(o)
  PROVE  EventsInv'
<1>1. /\ metrics \in [received : 0..MaxPublishes, dedupDropped : 0..MaxPublishes,
                      emitted : 0..MaxPublishes]
      /\ metrics \in [received : Nat, dedupDropped : Nat, emitted : Nat]
      /\ IsFiniteSet(Waiting) /\ Cardinality(Waiting) \in Nat
  <2>1. metrics \in [received : 0..MaxPublishes, dedupDropped : 0..MaxPublishes,
                     emitted : 0..MaxPublishes]
    BY DEF EventsInv, EventsTypeOK
  <2>2. metrics \in [received : Nat, dedupDropped : Nat, emitted : Nat]
    BY <2>1, PublishesAssumption
  <2> QED
    BY <2>1, <2>2, FS_CardinalityType DEF EventsInv, EventsAreCounted
<1>2. Shape'
  BY DEF EventsInv, EventsTypeOK, Shape, EndThrottling, Emit, Silent
<1>3. CASE sendValue[o] = None
  <2>1. emission' = {} /\ metrics' = metrics /\ sendValue' = sendValue
    BY <1>3 DEF EndThrottling, Silent
  <2>2. Waiting' = Waiting
    BY <2>1 DEF Waiting
  <2>3. emission' \subseteq Event /\ Cardinality(emission') <= 1
    BY <2>1, FS_EmptySet
  <2> QED
    BY <1>1, <1>2, <2>1, <2>2, <2>3 DEF EventsInv, EventsTypeOK, EventsAreCounted, Shape
<1>4. CASE sendValue[o] # None
  <2>1. sendValue[o] \in Versions
    BY <1>4 DEF EventsInv, EventsTypeOK
  <2>2. emission' \subseteq Event /\ Cardinality(emission') <= 1
    BY <1>4, <2>1, EmissionTypes DEF EndThrottling, Emit
  <2>3. metrics' = Count(metrics, "emitted")
    BY <1>4 DEF EndThrottling, Emit
  <2>4. Waiting' = Waiting \ {o} /\ o \in Waiting
    BY <1>4 DEF EndThrottling, Emit, EventsInv, EventsTypeOK, Waiting
  <2>5. /\ IsFiniteSet(Waiting') /\ Cardinality(Waiting') \in Nat
        /\ Cardinality(Waiting') = Cardinality(Waiting) - 1
    BY <2>4, <1>1, FS_RemoveElement, FS_CardinalityType
  <2>6. /\ metrics' \in [received : Nat, dedupDropped : Nat, emitted : Nat]
        /\ metrics'.received = metrics.received
        /\ metrics'.dedupDropped = metrics.dedupDropped
        /\ metrics'.emitted = metrics.emitted + 1
    BY <1>1, <2>3, CountTypes
  <2>7. metrics'.dedupDropped + metrics'.emitted + Cardinality(Waiting') <= metrics'.received
    BY <1>1, <2>5, <2>6 DEF EventsInv, EventsAreCounted
  <2>8. metrics'.received <= MaxPublishes
    BY <1>1, <2>6, PublishesAssumption
  <2>9. metrics' \in [received : 0..MaxPublishes, dedupDropped : 0..MaxPublishes,
                      emitted : 0..MaxPublishes]
    BY <2>5, <2>6, <2>7, <2>8, CountersAreBounded
  <2> QED
    BY <1>2, <2>2, <2>5, <2>7, <2>9 DEF EventsInv, EventsTypeOK, EventsAreCounted, Shape
<1> QED
  BY <1>3, <1>4

\* EventsInv is inductive.
LEMMA EventsInductive == EventsInv /\ [EventsNext]_eventVars => EventsInv'
<1> SUFFICES ASSUME EventsInv, [EventsNext]_eventVars PROVE EventsInv'
  OBVIOUS
<1>1. CASE UNCHANGED eventVars
  BY <1>1 DEF EventsInv, EventsTypeOK, EventsAreCounted, Waiting, eventVars
<1>2. CASE \E o \in OrderIds, v \in Versions : Publish(o, v)
  BY <1>2, CountPublish
<1>3. CASE \E o \in OrderIds : EndThrottling(o)
  BY <1>3, CountTimer
<1> QED
  BY <1>1, <1>2, <1>3 DEF EventsNext

\* The metrics add up in every state: an event that publishStatusChanged has
\* received is counted at most once as dropped or emitted, so no counter passes
\* received, and a step emits at most one event.
THEOREM EventsTypeCorrect == EventsSpec => [](EventsTypeOK /\ EventsAreCounted)
<1>1. EventsInv => EventsTypeOK /\ EventsAreCounted
  BY DEF EventsInv
<1> QED
  BY CountInit, EventsInductive, <1>1, PTL DEF EventsSpec
=============================================================================
