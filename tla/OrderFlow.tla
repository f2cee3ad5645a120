----------------------------- MODULE OrderFlow -----------------------------
(***************************************************************************)
(* An order from its commit to its status event: the last steps of         *)
(* OrdersService.create, the queues and the worker of OrderMessaging, and  *)
(* publishStatusChanged at the end of processOrderMessage.  API, worker    *)
(* and event stream live in one process and share its channel and its      *)
(* crashes; the transaction of create() is in OrderCreation, and here one  *)
(* step.  Every order has one message of the API's own (randomUUID).       *)
(***************************************************************************)
EXTENDS OrderMessaging

VARIABLES
  placing,        \* orders committed, whose create() has not yet published
  announced,      \* orders whose PROCESSED event was published
  \* history
  placed,         \* orders that were ever committed
  interrupted     \* orders of which a dead process or a lost connection took
                  \* the message or the event

flowVars == <<placing, announced, placed, interrupted>>
allVars == <<vars, flowVars>>

FlowInit ==
  /\ Init
  /\ placing = {}
  /\ announced = {}
  /\ placed = {}
  /\ interrupted = {}

\* The frames still in the channel's buffer that announce an order.
Unsent ==
  {OrderOf[out[k].msg.id] : k \in
     {k \in 1..Len(out) : out[k].type = "publish" /\ out[k].queue = "process"}}

\* Committed orders whose event is not yet published.
Unannounced == {OrderId(s) : s \in {t \in Slots : pc[t] = "processed"}}

\* commitTransaction: the order is there.
Place(o) ==
  /\ o \notin placed
  /\ orders' = orders \cup {o}
  /\ placing' = placing \cup {o}
  /\ placed' = placed \cup {o}
  /\ UNCHANGED <<queueVars, slot, unacked, pc, out, conn, status, markers,
                 budget, history, announced, interrupted>>

\* Mutant: create() returns without publishing.
MutNotSent(i) ==
  /\ OrderOf[i] \in placing
  /\ i \in Readable
  /\ placing' = placing \ {OrderOf[i]}
  /\ UNCHANGED <<vars, announced, placed, interrupted>>

\* The connection is released and the message is written to the channel.
PublishPlaced(i) ==
  /\ OrderOf[i] \in placing
  /\ SendCreated(i)
  /\ placing' = placing \ {OrderOf[i]}
  /\ UNCHANGED <<queueVars, slot, unacked, pc, conn, dbVars, budget, history,
                 announced, placed, interrupted>>

\* On a closed channel sendToQueue throws: create() rejects, the order stays.
FailToPublish(o) ==
  /\ conn = "closed"
  /\ o \in placing
  /\ placing' = placing \ {o}
  /\ interrupted' = interrupted \cup {o}
  /\ UNCHANGED <<vars, announced, placed>>

\* Mutant: the event goes out with the save, before the commit.
MutAnnounceEarly(s) ==
  IF pc[s] = "save" THEN {OrderId(s)} ELSE {}


\* publishStatusChanged, in the same turn of the event loop as the ack.
StatusChanged(s) ==
  IF pc[s] = "processed" THEN {OrderId(s)} ELSE {}

\* A step of a handler that goes on running.  Only the API produces here, so
\* every message is readable and is the only one of its order.
Work(s) ==
  /\ \/ InsertMarker(s) \/ ReadOrder(s) \/ SaveOrder(s) \/ CommitProcessed(s)
     \/ Acknowledge(s) \/ HandleError(s)
  /\ announced' = announced \cup StatusChanged(s)
  /\ UNCHANGED <<placing, placed, interrupted>>

\* The process ends: the requests it was serving, the handlers between commit
\* and event, and what is in the buffer, are cut off.
Die ==
  /\ placing' = {}
  /\ UNCHANGED placed

FlowDieOnClosedChannel(s) ==
  /\ DieOnClosedChannel(s)
  /\ Die
  /\ announced' = announced \cup StatusChanged(s)
  /\ interrupted' = interrupted \cup placing \cup Unannounced

FlowCrash ==
  /\ Crash
  /\ Die
  /\ interrupted' = interrupted \cup placing \cup Unsent \cup Unannounced
  /\ UNCHANGED announced

FlowClose ==
  /\ CloseConnection
  /\ interrupted' = interrupted \cup Unsent
  /\ UNCHANGED <<placing, announced, placed>>

\* DELETE /orders/:id, also while create() has not returned yet.
FlowDelete(o) == DeleteOrder(o) /\ UNCHANGED flowVars

CreateGoesOn(i) == PublishPlaced(i) \/ FailToPublish(OrderOf[i])

FlowNext ==
  \/ \E o \in Orders : Place(o) \/ FlowDelete(o)
  \/ \E i \in Ids : CreateGoesOn(i)
  \/ \E m \in Messages : Expire(m) /\ UNCHANGED flowVars
  \/ \E s \in Slots, m \in Messages : Deliver(s, m) /\ UNCHANGED flowVars
  \/ \E s \in Slots :
       \/ Work(s)
       \/ FailTransaction(s) /\ UNCHANGED flowVars
       \/ FlowDieOnClosedChannel(s)
  \/ Receive /\ UNCHANGED flowVars
  \/ FlowClose
  \/ FlowCrash

\* Requests and handlers run on, the socket is flushed, the broker delivers and
\* expires.
FlowFairness ==
  /\ \A i \in Ids : WF_allVars(CreateGoesOn(i))
  /\ \A s \in Slots : WF_allVars(Work(s) \/ FlowDieOnClosedChannel(s))
  /\ WF_allVars(Receive /\ UNCHANGED flowVars)
  /\ \A m \in Messages :
       /\ WF_allVars(\E s \in Slots : Deliver(s, m) /\ UNCHANGED flowVars)
       /\ WF_allVars(Expire(m) /\ UNCHANGED flowVars)

FlowSpec == FlowInit /\ [][FlowNext]_allVars /\ FlowFairness

-----------------------------------------------------------------------------
(* Properties.                                                             *)

\* A PROCESSED event is published for committed changes only: no subscriber
\* hears of a status that a rollback takes back.
AnnouncedIsProcessed == \A o \in announced : status[o] = "PROCESSED"

\* An order that was committed is processed in the end, or its message is in
\* orders.dlq, unless it is deleted, or the process died or the connection was
\* closed at the wrong moment.
EveryOrderSettled ==
  \A i \in Ids :
    OrderOf[i] \in placed ~>
      \/ status[OrderOf[i]] = "PROCESSED"
      \/ DeadLettered(i)
      \/ OrderOf[i] \notin orders
      \/ OrderOf[i] \in interrupted
      \/ Stalled

=============================================================================
