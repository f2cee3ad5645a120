---------------------------- MODULE OrdersEvents ----------------------------
(***************************************************************************)
(* OrdersEventsService (src/src/orders/orders-events.service.ts): status   *)
(* events are grouped by order, repeated versions are dropped, and each    *)
(* group is throttled with a leading and a trailing emission.              *)
(*                                                                         *)
(* The stream is synchronous: publishStatusChanged returns when the event  *)
(* has been dropped, kept for the trailing edge or emitted.  Only the      *)
(* throttle timers run on their own.                                       *)
(***************************************************************************)
EXTENDS Integers, FiniteSets

CONSTANTS
  OrderIds,
  Versions,      \* updatedAt of the order, in milliseconds
  None,          \* undefined
  MaxPublishes

ASSUME NoneAssumption == None \notin Versions
ASSUME PublishesAssumption == MaxPublishes \in Nat

VARIABLES
  lastVersion,   \* per group: version of the last event seen
  throttled,     \* per group: its throttle timer runs
  sendValue,     \* per group: event kept for the trailing edge
  metrics,       \* received, dedupDropped, emitted
  emission,      \* what the last step put on events$: at most one event
  \* history
  latest,        \* per order: version of the last event published
  emitted        \* per order: version of the last event emitted

eventVars == <<lastVersion, throttled, sendValue, metrics, emission, latest, emitted>>

\* The status is left out: the one publisher a request or message reaches,
\* processOrderMessage, always announces PROCESSED, and the code compares nothing
\* but versions, so that a status with an equal updatedAt is a repetition too.
Event == [orderId : OrderIds, version : Versions]

EventsInit ==
  /\ lastVersion = [o \in OrderIds |-> None]
  /\ throttled = [o \in OrderIds |-> FALSE]
  /\ sendValue = [o \in OrderIds |-> None]
  /\ metrics = [received |-> 0, dedupDropped |-> 0, emitted |-> 0]
  /\ emission = {}
  /\ latest = [o \in OrderIds |-> None]
  /\ emitted = [o \in OrderIds |-> None]

Count(m, name) == [m EXCEPT ![name] = @ + 1]

\* The event leaves its group and, with the others, events$; the throttle
\* timer of the group starts.
Emit(o, v, m) ==
  /\ throttled' = [throttled EXCEPT ![o] = TRUE]
  /\ sendValue' = [sendValue EXCEPT ![o] = None]
  /\ metrics' = Count(m, "emitted")
  /\ emission' = {[orderId |-> o, version |-> v]}
  /\ emitted' = [emitted EXCEPT ![o] = v]

Silent == emission' = {} /\ UNCHANGED emitted

\* Mutant: one stream for all orders.
MutNoGroupBy(o, v) == \E x \in OrderIds : lastVersion[x] = v

\* tap and distinctUntilChanged
Repeated(o, v) == lastVersion[o] = v

\* publishStatusChanged
Publish(o, v) ==
  LET m == Count(metrics, "received") IN
  /\ metrics.received < MaxPublishes
  /\ latest' = [latest EXCEPT ![o] = v]
  /\ lastVersion' = [lastVersion EXCEPT ![o] = v]
  /\ \/ /\ Repeated(o, v)
        /\ metrics' = Count(m, "dedupDropped")
        /\ Silent
        /\ UNCHANGED <<throttled, sendValue>>
     \/ /\ ~Repeated(o, v) /\ throttled[o]
        /\ sendValue' = [sendValue EXCEPT ![o] = v]
        /\ metrics' = m
        /\ Silent
        /\ UNCHANGED throttled
     \/ /\ ~Repeated(o, v) /\ ~throttled[o]
        /\ Emit(o, v, m)

\* Mutant: trailing: false.
MutNoTrailing(o) ==
  /\ throttled[o]
  /\ throttled' = [throttled EXCEPT ![o] = FALSE]
  /\ sendValue' = [sendValue EXCEPT ![o] = None]
  /\ Silent
  /\ UNCHANGED <<lastVersion, metrics, latest>>

\* The 300 ms are over: the trailing event, if any, starts the next period.
EndThrottling(o) ==
  /\ throttled[o]
  /\ \/ /\ sendValue[o] # None
        /\ Emit(o, sendValue[o], metrics)
     \/ /\ sendValue[o] = None
        /\ throttled' = [throttled EXCEPT ![o] = FALSE]
        /\ Silent
        /\ UNCHANGED <<sendValue, metrics>>
  /\ UNCHANGED <<lastVersion, latest>>

EventsNext ==
  \/ \E o \in OrderIds, v \in Versions : Publish(o, v)
  \/ \E o \in OrderIds : EndThrottling(o)

EventsSpec == EventsInit /\ [][EventsNext]_eventVars

-----------------------------------------------------------------------------
(* Properties.                                                             *)

\* Types of all variables; the counters of metrics never exceed received.
EventsTypeOK ==
  /\ lastVersion \in [OrderIds -> Versions \cup {None}]
  /\ throttled \in [OrderIds -> BOOLEAN]
  /\ sendValue \in [OrderIds -> Versions \cup {None}]
  /\ metrics \in [received : 0..MaxPublishes, dedupDropped : 0..MaxPublishes, emitted : 0..MaxPublishes]
  /\ emission \subseteq Event /\ Cardinality(emission) <= 1
  /\ latest \in [OrderIds -> Versions \cup {None}]
  /\ emitted \in [OrderIds -> Versions \cup {None}]

\* Deduplication and throttling never swallow the newest event of an order:
\* either it is the last one emitted or it waits behind a running timer.
NewestIsNotSwallowed ==
  \A o \in OrderIds :
    latest[o] = (IF sendValue[o] = None THEN emitted[o] ELSE sendValue[o])
      /\ (sendValue[o] # None => throttled[o])

\* Once no more events are published, the last one emitted for every order is
\* the last one published.
NewestIsEmitted ==
  \A o \in OrderIds, v \in Versions :
    latest[o] = v ~> (emitted[o] = v \/ latest[o] # v)
=============================================================================
