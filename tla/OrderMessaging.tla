--------------------------- MODULE OrderMessaging ---------------------------
(***************************************************************************)
(* The asynchronous half of the shop: OrdersWorkerService.handleMessage,   *)
(* OrdersService.processOrderMessage and RabbitmqService, between the      *)
(* RabbitMQ queues orders.process, orders.retry.process and orders.dlq and *)
(* the tables orders and processed_messages.                               *)
(*                                                                         *)
(* Worker and API are one process with one AMQP channel.  What it writes   *)
(* to the channel (publishes, acks, nacks) leaves in order through a       *)
(* buffer; a crash or a closed connection loses what is still in it, and   *)
(* the broker then requeues every delivery it has no ack for.  Between two *)
(* awaits a handler runs undisturbed, so what it writes there is appended  *)
(* at once.  The process handles up to Cardinality(Slots) deliveries       *)
(* concurrently (the prefetch count).                                      *)
(***************************************************************************)
EXTENDS Integers, Sequences, FiniteSets

CONSTANTS
  Ids,            \* values of messageId
  Orders,         \* values of orderId
  OrderOf,        \* the orderId in the payload of each message
  Existing,       \* orders in the database at the start
  Malformed,      \* messages whose content is not JSON
  Nulls,          \* messages whose content is the JSON value null
  Slots,          \* concurrent deliveries
  NoMsg,          \* content of an unused slot
  MaxAttempts,    \* ORDERS_MAX_ATTEMPTS
  TopAttempt,     \* largest attempt a hand-published message carries
  MaxPublishes, MaxFailures, MaxRefusals, MaxCrashes, MaxCloses, MaxDeletes

\* -1 stands for an attempt that is missing, negative or not an integer.
Attempts == -1..TopAttempt
Messages == [id : Ids, attempt : Attempts]
Queues == [Messages -> Nat]

ASSUME MessagesAssumption ==
  /\ OrderOf \in [Ids -> Orders]
  /\ Existing \subseteq Orders
  /\ Malformed \subseteq Ids
  /\ Nulls \subseteq Ids \ Malformed
  /\ NoMsg \notin Messages
ASSUME AttemptsAssumption ==
  /\ MaxAttempts \in Nat \ {0}
  /\ TopAttempt \in Nat
  /\ TopAttempt >= MaxAttempts - 1
\* The prefetch count is a number.
ASSUME SlotsAssumption == IsFiniteSet(Slots)
ASSUME BoundsAssumption ==
  /\ MaxPublishes \in Nat /\ MaxFailures \in Nat /\ MaxRefusals \in Nat
  /\ MaxCrashes \in Nat /\ MaxCloses \in Nat /\ MaxDeletes \in Nat

VARIABLES
  \* the broker
  process, retry, dlq,   \* copies of each message in each queue
  unacked,        \* slots whose delivery the broker has no ack or nack for
  \* the worker process
  pc,             \* per slot: where its handler is
  slot,           \* per slot: the message its handler was called with
  out,            \* frames written to the channel and not yet at the broker
  conn,           \* the channel: "open", or "closed" by the broker
  \* the database
  orders,         \* rows of orders that exist
  status,         \* orders.status
  markers,        \* rows of processed_messages
  \* events left of each bounded kind
  budget,
  \* history
  accepted,       \* messages the broker took from a producer
  applied,        \* per message: committed transactions that set PROCESSED
  settled         \* messages whose marker was committed at some time

queueVars == <<process, retry, dlq>>
dbVars == <<orders, status, markers>>
history == <<accepted, applied, settled>>
vars == <<queueVars, slot, unacked, pc, out, conn, dbVars, budget, history>>

Kinds == {"publish", "fail", "refuse", "crash", "close", "delete"}

\* In a transaction that has inserted its marker and not ended.
Marked == {"read", "save", "commit", "keep"}
HandlerSteps == {"free", "start", "error", "processed", "ack", "sent"} \cup Marked

Msg(s) == slot[s].id
OrderId(s) == OrderOf[Msg(s)]

\* Messages that are JSON objects.
Readable == Ids \ (Malformed \cup Nulls)

Add(queue, m) == [queue EXCEPT ![m] = @ + 1]
Drop(queue, m) == [queue EXCEPT ![m] = @ - 1]

Spend(kind) == budget[kind] > 0 /\ budget' = [budget EXCEPT ![kind] = @ - 1]

Goto(s, step) == pc' = [pc EXCEPT ![s] = step]

PublishFrame(queue, m) == [type |-> "publish", queue |-> queue, msg |-> m]
AckFrame(s) == [type |-> "ack", slot |-> s]
NackFrame(s) == [type |-> "nack", slot |-> s]
Frames ==
  [type : {"publish"}, queue : {"process", "retry", "dlq"}, msg : Messages]
    \cup [type : {"ack", "nack"}, slot : Slots]

-----------------------------------------------------------------------------
Init ==
  /\ process = [m \in Messages |-> 0]
  /\ retry = [m \in Messages |-> 0]
  /\ dlq = [m \in Messages |-> 0]
  /\ unacked = {}
  /\ slot = [s \in Slots |-> NoMsg]
  /\ pc = [s \in Slots |-> "free"]
  /\ out = <<>>
  /\ conn = "open"
  /\ orders = Existing
  /\ status = [o \in Orders |-> "PENDING"]
  /\ markers = {}
  /\ budget = [publish |-> MaxPublishes, fail |-> MaxFailures, refuse |-> MaxRefusals,
               crash |-> MaxCrashes, close |-> MaxCloses, delete |-> MaxDeletes]
  /\ accepted = {}
  /\ applied = [i \in Ids |-> 0]
  /\ settled = {}

\* publishOrderCreated: the API announces an order (attempt 0).
SendCreated(i) ==
  /\ i \in Readable
  /\ conn = "open"
  /\ out' = Append(out, PublishFrame("process", [id |-> i, attempt |-> 0]))

\* Of an order that was there at the start; it may be deleted by now.
PublishCreated(i) ==
  /\ Spend("publish")
  /\ OrderOf[i] \in Existing
  /\ SendCreated(i)
  /\ UNCHANGED <<queueVars, slot, unacked, pc, conn, dbVars, history>>

\* scripts/publish-order-message.js and other producers: any message, any
\* number of times.  Content that is no object carries no attempt.  The script is
\* called as the README does: with --queue orders.dlq nobody would read the
\* message, with --queue orders.retry.process the broker refuses assertQueue, which
\* lacks the queue's dead-letter arguments, and with --expiration the producer
\* lets the broker discard the message.
PublishByHand(m) ==
  /\ Spend("publish")
  /\ m.id \notin Readable => m.attempt = -1
  /\ process' = Add(process, m)
  /\ accepted' = accepted \cup {m.id}
  /\ UNCHANGED <<retry, dlq, slot, unacked, pc, out, conn, dbVars, applied, settled>>

\* The broker hands a message of orders.process to the consumer.
Deliver(s, m) ==
  /\ conn = "open"
  /\ pc[s] = "free"
  /\ process[m] > 0
  /\ process' = Drop(process, m)
  /\ unacked' = unacked \cup {s}
  /\ slot' = [slot EXCEPT ![s] = m]
  /\ Goto(s, "start")
  /\ UNCHANGED <<retry, dlq, out, conn, dbVars, budget, history>>

\* Mutant: the delivery is acked before the message is published again.
MutAckFirst(s, queue, m) ==
  /\ conn = "open"
  /\ Goto(s, "sent")
  /\ out' = out \o <<AckFrame(s), PublishFrame(queue, m)>>
  /\ UNCHANGED budget

\* The handler's last writes to the channel.  sendToQueue also takes the
\* message when it returns false; handleMessage then throws and consume()
\* nacks the delivery, with requeue.
Republish(s, queue, m) ==
  /\ conn = "open"
  /\ Goto(s, "sent")
  /\ \/ /\ out' = out \o <<PublishFrame(queue, m), AckFrame(s)>>
        /\ UNCHANGED budget
     \/ /\ Spend("refuse")
        /\ out' = out \o <<PublishFrame(queue, m), NackFrame(s)>>

\* Content that is not JSON goes to orders.dlq as it is.
RejectMalformed(s) ==
  /\ pc[s] = "start"
  /\ Msg(s) \in Malformed
  /\ Republish(s, "dlq", slot[s])
  /\ UNCHANGED <<queueVars, slot, unacked, conn, dbVars, history>>

\* The attempt of null is read outside the try block: the TypeError reaches
\* consume(), which nacks the delivery, with requeue.
RejectNull(s) ==
  /\ pc[s] = "start"
  /\ Msg(s) \in Nulls
  /\ conn = "open"
  /\ out' = Append(out, NackFrame(s))
  /\ Goto(s, "sent")
  /\ UNCHANGED <<queueVars, slot, unacked, conn, dbVars, budget, history>>

\* INSERT INTO processed_messages waits for an uncommitted insert of the same
\* messageId; a committed one makes it a duplicate delivery; the foreign key
\* to orders makes it fail.
DuplicateId(s) == Msg(s) \in markers

\* Mutant: processed_messages has no primary key on messageId.
MutNoPrimaryKey(s) ==
  /\ pc[s] = "start"
  /\ Msg(s) \in Readable
  /\ Goto(s, IF OrderId(s) \in orders THEN "read" ELSE "error")
  /\ UNCHANGED <<queueVars, slot, unacked, out, conn, dbVars, budget, history>>

InsertMarker(s) ==
  /\ pc[s] = "start"
  /\ Msg(s) \in Readable
  /\ \A t \in Slots \ {s} : pc[t] \in Marked => Msg(t) # Msg(s)
  /\ \/ DuplicateId(s) /\ Goto(s, "ack")
     \/ ~DuplicateId(s) /\ OrderId(s) \notin orders /\ Goto(s, "error")
     \/ ~DuplicateId(s) /\ OrderId(s) \in orders /\ Goto(s, "read")
  /\ UNCHANGED <<queueVars, slot, unacked, out, conn, dbVars, budget, history>>

\* Mutant: any order that is not pending counts as one to process, and the
\* pending ones as done.
MutReadInverted(s) ==
  /\ pc[s] = "read"
  /\ Goto(s, IF status[OrderId(s)] = "PENDING" THEN "keep" ELSE "save")
  /\ UNCHANGED <<queueVars, slot, unacked, out, conn, dbVars, budget, history>>

\* The order is read without a lock.
ReadOrder(s) ==
  /\ pc[s] = "read"
  /\ Goto(s, IF status[OrderId(s)] = "PROCESSED" THEN "keep" ELSE "save")
  /\ UNCHANGED <<queueVars, slot, unacked, out, conn, dbVars, budget, history>>

\* save(order): the UPDATE waits for another transaction's row lock.
SaveOrder(s) ==
  /\ pc[s] = "save"
  /\ \A t \in Slots \ {s} : pc[t] = "commit" => OrderId(t) # OrderId(s)
  /\ Goto(s, "commit")
  /\ UNCHANGED <<queueVars, slot, unacked, out, conn, dbVars, budget, history>>

\* The transaction commits: marker and, unless the order was found processed,
\* its new status, at once.
CommitMarker(s) ==
  /\ markers' = markers \cup {Msg(s)}
  /\ settled' = settled \cup {Msg(s)}

CommitProcessed(s) ==
  /\ pc[s] = "commit"
  /\ CommitMarker(s)
  /\ status' = [status EXCEPT ![OrderId(s)] = "PROCESSED"]
  /\ applied' = [applied EXCEPT ![Msg(s)] = @ + 1]
  /\ Goto(s, "processed")
  /\ UNCHANGED <<queueVars, slot, unacked, out, conn, orders, budget, accepted>>

CommitAlreadyProcessed(s) ==
  /\ pc[s] = "keep"
  /\ CommitMarker(s)
  /\ Goto(s, "ack")
  /\ UNCHANGED <<queueVars, slot, unacked, out, conn, orders, status, budget, accepted, applied>>

\* A statement fails (connection, timeout, ...): the transaction rolls back.
FailTransaction(s) ==
  /\ pc[s] \in {"start"} \cup Marked
  /\ pc[s] = "start" => Msg(s) \in Readable
  /\ Spend("fail")
  /\ Goto(s, "error")
  /\ UNCHANGED <<queueVars, slot, unacked, out, conn, dbVars, history>>

\* Mutant: the path of a processed message forgets the ack.
MutForgetAck(s) ==
  /\ pc[s] \in {"processed", "ack"}
  /\ conn = "open"
  /\ Goto(s, "sent")
  /\ UNCHANGED <<queueVars, slot, unacked, out, conn, dbVars, budget, history>>

\* processOrderMessage returned, with the status event published if it has set
\* PROCESSED (OrderFlow has the event): ack.
Acknowledge(s) ==
  /\ pc[s] \in {"processed", "ack"}
  /\ conn = "open"
  /\ out' = Append(out, AckFrame(s))
  /\ Goto(s, "sent")
  /\ UNCHANGED <<queueVars, slot, unacked, conn, dbVars, budget, history>>

Normalized(a) == IF a >= 0 THEN a ELSE 0

\* Mutants: the limit is off by one, or never reached.
MutOffByOne(a) == a >= MaxAttempts
MutNeverLast(a) == FALSE

IsLastAttempt(a) == a >= MaxAttempts - 1

\* processOrderMessage threw: retry or dead-letter, then ack.
HandleError(s) ==
  LET attempt == Normalized(slot[s].attempt)
      message(a) == [id |-> Msg(s), attempt |-> a]
  IN
  /\ pc[s] = "error"
  /\ \/ IsLastAttempt(attempt) /\ Republish(s, "dlq", message(attempt))
     \/ ~IsLastAttempt(attempt) /\ Republish(s, "retry", message(attempt + 1))
  /\ UNCHANGED <<queueVars, slot, unacked, conn, dbVars, history>>

-----------------------------------------------------------------------------
(* The broker and the failures.                                            *)

Free(s) ==
  /\ unacked' = unacked \ {s}
  /\ slot' = [slot EXCEPT ![s] = NoMsg]
  /\ Goto(s, "free")

\* The broker takes the next frame of the channel.
ReceivePublish ==
  LET f == Head(out) IN
  /\ out # <<>> /\ f.type = "publish"
  /\ out' = Tail(out)
  /\ process' = IF f.queue = "process" THEN Add(process, f.msg) ELSE process
  /\ retry' = IF f.queue = "retry" THEN Add(retry, f.msg) ELSE retry
  /\ dlq' = IF f.queue = "dlq" THEN Add(dlq, f.msg) ELSE dlq
  /\ accepted' = IF f.queue = "process" THEN accepted \cup {f.msg.id} ELSE accepted
  /\ UNCHANGED <<slot, unacked, pc, conn, dbVars, budget, applied, settled>>

ReceiveAck ==
  /\ out # <<>> /\ Head(out).type = "ack"
  /\ out' = Tail(out)
  /\ Free(Head(out).slot)
  /\ UNCHANGED <<queueVars, conn, dbVars, budget, history>>

ReceiveNack ==
  /\ out # <<>> /\ Head(out).type = "nack"
  /\ out' = Tail(out)
  /\ process' = Add(process, slot[Head(out).slot])
  /\ Free(Head(out).slot)
  /\ UNCHANGED <<retry, dlq, conn, dbVars, budget, history>>

\* Mutant: orders.retry.process is declared without a dead-letter exchange, so
\* the broker discards what expires.
MutNoDeadLetterRouting(m) ==
  /\ retry[m] > 0
  /\ retry' = Drop(retry, m)
  /\ UNCHANGED <<process, dlq, slot, unacked, pc, out, conn, dbVars, budget, history>>

\* The message's TTL ends: the broker dead-letters it to orders.process.
Expire(m) ==
  /\ retry[m] > 0
  /\ retry' = Drop(retry, m)
  /\ process' = Add(process, m)
  /\ UNCHANGED <<dlq, slot, unacked, pc, out, conn, dbVars, budget, history>>

\* The connection ends: its frames are lost, its deliveries go back.
LoseConnection ==
  /\ out' = <<>>
  /\ unacked' = {}
  /\ process' = [m \in Messages |->
                   process[m] + Cardinality({s \in unacked : slot[s] = m})]

\* The broker closes the connection in an orderly way.  Nothing reopens it;
\* handlers that are still running do not notice before they use it.
CloseConnection ==
  /\ Spend("close")
  /\ conn = "open"
  /\ conn' = "closed"
  /\ LoseConnection
  /\ pc' = [s \in Slots |-> IF pc[s] = "sent" THEN "free" ELSE pc[s]]
  /\ slot' = [s \in Slots |-> IF pc[s] = "sent" THEN NoMsg ELSE slot[s]]
  /\ UNCHANGED <<retry, dlq, dbVars, history>>

\* The process dies, its transactions roll back, and it is started again.
Restart ==
  /\ LoseConnection
  /\ pc' = [s \in Slots |-> "free"]
  /\ slot' = [s \in Slots |-> NoMsg]
  /\ conn' = "open"
  /\ UNCHANGED <<retry, dlq, dbVars, history>>

Crash == Spend("crash") /\ Restart

\* On a closed channel ack, the publish in the catch block and the nack of
\* consume() all throw: the rejection is unhandled and ends the process.
DieOnClosedChannel(s) ==
  /\ conn = "closed"
  /\ \/ pc[s] \in {"processed", "ack", "error"}
     \/ pc[s] = "start" /\ Msg(s) \notin Readable
  /\ Restart
  /\ UNCHANGED budget

\* DELETE /orders/:id waits for uncommitted markers and takes the committed
\* ones along (ON DELETE CASCADE).
DeleteOrder(o) ==
  /\ Spend("delete")
  /\ o \in orders
  /\ \A s \in Slots : pc[s] \in Marked => OrderId(s) # o
  /\ orders' = orders \ {o}
  /\ markers' = {i \in markers : OrderOf[i] # o}
  /\ UNCHANGED <<queueVars, slot, unacked, pc, out, conn, status, history>>

Handle(s) ==
  \/ RejectMalformed(s) \/ RejectNull(s) \/ InsertMarker(s) \/ ReadOrder(s) \/ SaveOrder(s)
  \/ CommitProcessed(s) \/ CommitAlreadyProcessed(s)
  \/ Acknowledge(s) \/ HandleError(s) \/ DieOnClosedChannel(s)

Receive == ReceivePublish \/ ReceiveAck \/ ReceiveNack

\* Nothing is queued or being handled.
Idle ==
  /\ \A m \in Messages : process[m] = 0 /\ retry[m] = 0
  /\ \A s \in Slots : pc[s] = "free"
  /\ out = <<>>
  /\ UNCHANGED vars

Next ==
  \/ \E i \in Ids : PublishCreated(i)
  \/ \E m \in Messages : PublishByHand(m) \/ Expire(m)
  \/ \E s \in Slots, m \in Messages : Deliver(s, m)
  \/ \E s \in Slots : Handle(s) \/ FailTransaction(s)
  \/ Receive
  \/ CloseConnection
  \/ Crash
  \/ \E o \in Orders : DeleteOrder(o)
  \/ Idle

\* Handlers run on, the socket is flushed in the end, and the broker delivers
\* what is queued and expires what is due.
Fairness ==
  /\ \A s \in Slots : WF_vars(Handle(s))
  /\ WF_vars(Receive)
  /\ \A m \in Messages :
       WF_vars(\E s \in Slots : Deliver(s, m)) /\ WF_vars(Expire(m))

Spec == Init /\ [][Next]_vars
FairSpec == Spec /\ Fairness

-----------------------------------------------------------------------------
(* Properties.                                                             *)

\* Types of all variables (queue lengths, handler steps, rows).
TypeOK ==
  /\ process \in Queues /\ retry \in Queues /\ dlq \in Queues
  /\ unacked \subseteq Slots
  /\ pc \in [Slots -> HandlerSteps]
  /\ slot \in [Slots -> Messages \cup {NoMsg}]
  /\ out \in Seq(Frames)
  /\ conn \in {"open", "closed"}
  /\ orders \subseteq Orders
  /\ status \in [Orders -> {"PENDING", "PROCESSED"}]
  /\ markers \subseteq Ids
  /\ budget \in [Kinds -> Nat]
  /\ accepted \subseteq Ids
  /\ applied \in [Ids -> Nat]
  /\ settled \subseteq Ids

Queued(i) ==
  \E m \in Messages : m.id = i /\ (process[m] > 0 \/ retry[m] > 0 \/ dlq[m] > 0)

\* A message the broker has accepted is in a queue, or delivered and unacked,
\* or its transaction was committed: republish-then-ack over one channel loses
\* nothing, wherever a crash or a closed connection strikes.
NoMessageLost ==
  \A i \in accepted :
    i \in settled \/ Queued(i) \/ \E s \in unacked : Msg(s) = i

\* However often and in parallel a message is delivered, it changes its order
\* at most once.
AppliedOnce == \A i \in Ids : applied[i] <= 1

\* Marker and status are committed together: every marker is of a processed
\* order, and every processed order has a marker.
MarkersMatchStatus ==
  /\ \A i \in markers : OrderOf[i] \in orders /\ status[OrderOf[i]] = "PROCESSED"
  /\ \A o \in orders : status[o] = "PROCESSED" => \E i \in markers : OrderOf[i] = o

\* Retried messages carry an attempt the worker still tries, and only messages
\* it has given up on (last attempt, or not JSON) are in orders.dlq.
RetriesAreBounded ==
  \A m \in Messages :
    /\ retry[m] > 0 => m.attempt \in 1..(MaxAttempts - 1)
    /\ dlq[m] > 0 => m.id \in Malformed \/ m.attempt >= MaxAttempts - 1

\* Every delivery the broker waits for an answer on is held by a handler that
\* still runs or has its answer in the buffer: none is stuck until the prefetch
\* window is full.
DeliveriesAreAnswered ==
  \A s \in unacked :
    /\ pc[s] # "free"
    /\ pc[s] = "sent" =>
         \E k \in 1..Len(out) : out[k] \in {AckFrame(s), NackFrame(s)}

DeadLettered(i) == \E m \in Messages : m.id = i /\ dlq[m] > 0

\* The connection was closed, and no handler is left that would run into it.
Stalled == conn = "closed" /\ \A s \in Slots : pc[s] = "free"

\* Every accepted message is processed or dead-lettered in the end; only a
\* connection that was closed while no delivery was being handled, which nothing
\* opens again, can leave it where it is.
EveryMessageSettled ==
  \A i \in Ids \ Nulls :
    i \in accepted ~> (i \in settled \/ DeadLettered(i) \/ Stalled)

\* README.md: "`orders.dlq`: permanent failures and malformed payloads".
\* Content the worker cannot read gets there.
MalformedAreDeadLettered ==
  \A i \in Malformed \cup Nulls : i \in accepted ~> (DeadLettered(i) \/ Stalled)
=============================================================================
