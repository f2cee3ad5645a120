----------------------- MODULE OrderMessaging_proofs -----------------------
(***************************************************************************)
(* Proofs about OrderMessaging, for every set of messages and orders, every *)
(* prefetch count and attempt limit, and any number of failures, crashes,  *)
(* closed connections and deleted orders.                                  *)
(***************************************************************************)
EXTENDS OrderMessaging, FiniteSetTheorems, SequenceTheorems, TLAPS

Publishes == [type : {"publish"}, queue : {"process", "retry", "dlq"}, msg : Messages]
Answers(s) == {AckFrame(s), NackFrame(s)}

\* A handler that was called with a message and has not written its answer.
Running == HandlerSteps \ {"free", "sent"}

-----------------------------------------------------------------------------
(* The channel.                                                            *)

\* A slot that is in use holds a message.
SlotsHold == \A s \in Slots : pc[s] # "free" => slot[s] \in Messages

\* On an open channel every delivery in hand is one the broker waits for; on a
\* closed one there is neither a delivery nor a frame.
Deliveries ==
  /\ \A s \in unacked : pc[s] # "free"
  /\ conn = "open" => \A s \in Slots : pc[s] # "free" => s \in unacked
  /\ conn = "closed" => out = <<>> /\ unacked = {} /\ \A s \in Slots : pc[s] # "sent"

\* The answer of a delivery is in the buffer exactly while its handler is done
\* and the broker has not got it, and it is there once.
AnswersAreDue ==
  \A s \in Slots, k \in 1..Len(out) : out[k] \in Answers(s) =>
    /\ pc[s] = "sent"
    /\ s \in unacked
    /\ \A l \in 1..Len(out) : out[l] \in Answers(s) => l = k

SentIsAnswered ==
  \A s \in Slots : pc[s] = "sent" => \E k \in 1..Len(out) : out[k] \in Answers(s)

ChannelInv == TypeOK /\ SlotsHold /\ Deliveries /\ AnswersAreDue /\ SentIsAnswered

-----------------------------------------------------------------------------
(* What is published again.                                                *)

\* The attempt limit holds of the frames as it does of the queues.
Bounded(f) ==
  f \in Publishes =>
    /\ f.queue = "retry" => f.msg.attempt \in 1..(MaxAttempts - 1)
    /\ f.queue = "dlq" => f.msg.id \in Malformed \/ f.msg.attempt >= MaxAttempts - 1

FramesAreBounded == \A k \in 1..Len(out) : Bounded(out[k])

RetryInv == FramesAreBounded /\ RetriesAreBounded

-----------------------------------------------------------------------------
(* The database.                                                           *)

\* An uncommitted marker is the only one for its message, and its order exists.
MarkersAreUnique ==
  \A s \in Slots : pc[s] \in Marked =>
    /\ Msg(s) \notin markers
    /\ OrderId(s) \in orders
    /\ \A t \in Slots \ {s} : pc[t] \in Marked => Msg(t) # Msg(s)

KeepIsProcessed ==
  \A s \in Slots : pc[s] \in {"keep", "processed"} => status[OrderId(s)] = "PROCESSED"

\* A message that was applied left its marker, which goes with its order only.
AppliedIsMarked ==
  \A i \in Ids : /\ applied[i] <= 1
                 /\ applied[i] > 0 => i \in markers \/ OrderOf[i] \notin orders

DbInv == MarkersAreUnique /\ KeepIsProcessed /\ AppliedIsMarked /\ MarkersMatchStatus

-----------------------------------------------------------------------------
(* What the broker has accepted.                                           *)

\* The handler acks what is committed.
AckIsSettled ==
  /\ markers \subseteq settled
  /\ \A s \in Slots : pc[s] \in {"processed", "ack"} => Msg(s) \in settled

\* The delivery in slot s still stands for its message: wherever its ack is in
\* the buffer, the message's publish is before it.
Holds(s) ==
  \A k \in 1..Len(out) : out[k] = AckFrame(s) =>
    \E j \in 1..(k - 1) : out[j] \in Publishes /\ out[j].msg.id = Msg(s)

Kept(i) == i \in settled \/ Queued(i) \/ \E s \in unacked : Msg(s) = i /\ Holds(s)

AcceptedIsKept == \A i \in accepted : Kept(i)

LossInv == AckIsSettled /\ AcceptedIsKept

IInv == ChannelInv /\ RetryInv /\ DbInv /\ LossInv

USE MessagesAssumption, AttemptsAssumption

-----------------------------------------------------------------------------
(* Frames and the buffer.                                                  *)

\* What the three constructors of frames make.
LEMMA FrameTypes ==
  /\ \A s \in Slots : Answers(s) \subseteq Frames
  /\ Publishes \subseteq Frames
  /\ \A q \in {"process", "retry", "dlq"}, m \in Messages :
       /\ PublishFrame(q, m) \in Publishes
       /\ PublishFrame(q, m).queue = q
       /\ PublishFrame(q, m).msg = m
BY DEF Answers, Frames, Publishes, PublishFrame, AckFrame, NackFrame

\* A frame is a publish, or the answer of one slot.
LEMMA FrameKinds ==
  ASSUME NEW f \in Frames
  PROVE  /\ f.type = "publish" => f \in Publishes
         /\ f \in Publishes => f.type = "publish" /\ f.msg \in Messages
                               /\ f.queue \in {"process", "retry", "dlq"}
         /\ f.type = "ack" => f.slot \in Slots /\ f = AckFrame(f.slot)
         /\ f.type = "nack" => f.slot \in Slots /\ f = NackFrame(f.slot)
         /\ f.type \in {"publish", "ack", "nack"}
BY DEF Frames, Publishes, AckFrame, NackFrame

\* The answers of two slots differ, and from publishes.
LEMMA FramesDiffer ==
  /\ \A s \in Slots : AckFrame(s).type = "ack" /\ NackFrame(s).type = "nack"
  /\ \A s, t \in Slots : AckFrame(s) # NackFrame(t)
  /\ \A s, t \in Slots : Answers(s) \cap Answers(t) # {} => s = t
  /\ \A s \in Slots : Answers(s) \cap Publishes = {}
<1>1. \A s \in Slots : AckFrame(s).type = "ack" /\ NackFrame(s).type = "nack"
                       /\ AckFrame(s).slot = s /\ NackFrame(s).slot = s
  BY DEF AckFrame, NackFrame
<1>2. \A f \in Publishes : f.type = "publish"
  BY DEF Publishes
<1> QED  BY <1>1, <1>2 DEF Answers

\* The buffer has got n more frames at its end.
Grown(n) ==
  /\ out' \in Seq(Frames)
  /\ Len(out') = Len(out) + n
  /\ \A k \in 1..Len(out) : out'[k] = out[k]

\* One frame is written to the channel.
LEMMA AppendOne ==
  ASSUME TypeOK, NEW f \in Frames, out' = Append(out, f)
  PROVE  Grown(1) /\ out'[Len(out) + 1] = f
BY DEF TypeOK, Grown

\* A message and the ack of the one it replaces are written.
LEMMA AppendTwo ==
  ASSUME TypeOK, NEW f \in Frames, NEW g \in Frames, out' = out \o <<f, g>>
  PROVE  Grown(2) /\ out'[Len(out) + 1] = f /\ out'[Len(out) + 2] = g
<1>1. out \in Seq(Frames) /\ <<f, g>> \in Seq(Frames) /\ Len(<<f, g>>) = 2
  BY DEF TypeOK
<1>2. Len(out) \in Nat
  BY <1>1, LenProperties
<1> QED  BY <1>1, <1>2, ConcatProperties DEF Grown

\* The broker took the first frame.
LEMMA TakeFirst ==
  ASSUME TypeOK, out # <<>>, out' = Tail(out)
  PROVE  /\ Head(out) \in Frames /\ Head(out) = out[1]
         /\ Len(out) \in Nat \ {0}
         /\ out' \in Seq(Frames)
         /\ Len(out') = Len(out) - 1
         /\ \A k \in 1..Len(out') : out'[k] = out[k + 1]
BY HeadTailProperties DEF TypeOK

-----------------------------------------------------------------------------
(* What a step does to the channel and the handlers.                       *)

SameChannel == UNCHANGED <<pc, slot, unacked, out, conn>>

\* The handler of s goes on.
GoesOn(s) ==
  /\ pc[s] \in Running
  /\ \E step \in Running : pc' = [pc EXCEPT ![s] = step]
  /\ UNCHANGED <<slot, unacked, out, conn>>

\* The handler of s ends: at most one publish, of the same message, and then
\* the answer are written at once.
Ends(s) ==
  /\ pc[s] \in Running
  /\ conn = "open"
  /\ pc' = [pc EXCEPT ![s] = "sent"]
  /\ \E n \in {1, 2} :
       /\ Grown(n)
       /\ out'[Len(out) + n] \in Answers(s)
       /\ n = 2 => out'[Len(out) + 1] \in Publishes /\ out'[Len(out) + 1].msg.id = Msg(s)
       /\ n = 1 /\ out'[Len(out) + n] = AckFrame(s) => pc[s] \in {"processed", "ack"}
  /\ UNCHANGED <<slot, unacked, conn>>

\* A message is written to the channel, by no handler.
Sends == Grown(1) /\ out'[Len(out) + 1] \in Publishes /\ UNCHANGED <<pc, slot, unacked, conn>>

\* publishOrderCreated, as a request of its own or at the end of create().
LEMMA CreatedSends ==
  ASSUME TypeOK, NEW i \in Ids, SendCreated(i), UNCHANGED <<pc, slot, unacked, conn>>
  PROVE  Sends /\ conn = "open" /\ out'[Len(out) + 1].queue = "process"
<1>1. [id |-> i, attempt |-> 0] \in Messages
  BY DEF Messages, Attempts
<1> QED  BY <1>1, AppendOne, FrameTypes DEF SendCreated, Sends

\* A handler's last writes.
LEMMA RepublishEnds ==
  ASSUME TypeOK, NEW s \in Slots, NEW q \in {"retry", "dlq"}, NEW m \in Messages,
         pc[s] \in Running, Republish(s, q, m), UNCHANGED <<slot, unacked, conn>>,
         m.id = Msg(s)
  PROVE  /\ Ends(s)
         /\ Grown(2) /\ out'[Len(out) + 1] = PublishFrame(q, m)
         /\ out'[Len(out) + 2] \in Answers(s)
         /\ budget' \in [Kinds -> Nat]
<1>1. PublishFrame(q, m) \in Publishes /\ PublishFrame(q, m) \in Frames /\ PublishFrame(q, m).msg = m
  BY FrameTypes
<1>2. AckFrame(s) \in Frames /\ NackFrame(s) \in Frames
  BY FrameTypes DEF Answers
<1>3. Grown(2) /\ out'[Len(out) + 1] = PublishFrame(q, m) /\ out'[Len(out) + 2] \in Answers(s)
  BY <1>1, <1>2, AppendTwo DEF Republish, Answers
<1>4. budget' \in [Kinds -> Nat]
  BY DEF Republish, Spend, TypeOK, Kinds
<1> QED  BY <1>1, <1>3, <1>4 DEF Ends, Republish, Goto

\* Content that is not JSON, null, the end of a processed message and the end of
\* a failed one: what each writes.
LEMMA HandlersEnd ==
  ASSUME ChannelInv, NEW s \in Slots,
         RejectMalformed(s) \/ RejectNull(s) \/ Acknowledge(s) \/ HandleError(s)
  PROVE  Ends(s) /\ budget' \in [Kinds -> Nat]
<1>a. TypeOK /\ slot[s] \in Messages
  BY DEF ChannelInv, SlotsHold, RejectMalformed, RejectNull, Acknowledge, HandleError
<1>b. slot[s].id = Msg(s) /\ Msg(s) \in Ids /\ slot[s].attempt \in Attempts
  BY <1>a DEF Msg, Messages
<1>1. CASE RejectMalformed(s)
  BY <1>1, <1>a, <1>b, RepublishEnds DEF RejectMalformed, Running, HandlerSteps
<1>2. CASE RejectNull(s)
  <2>1. Grown(1) /\ out'[Len(out) + 1] = NackFrame(s)
    BY <1>2, <1>a, AppendOne, FrameTypes DEF RejectNull, Answers
  <2> QED  BY <1>2, <1>a, <2>1, FramesDiffer
           DEF RejectNull, Ends, Answers, Running, HandlerSteps, Goto, TypeOK
<1>3. CASE Acknowledge(s)
  <2>1. Grown(1) /\ out'[Len(out) + 1] = AckFrame(s)
    BY <1>3, <1>a, AppendOne, FrameTypes DEF Acknowledge, Answers
  <2> QED  BY <1>3, <1>a, <2>1
           DEF Acknowledge, Ends, Answers, Running, HandlerSteps, Goto, TypeOK
<1>4. CASE HandleError(s)
  <2> DEFINE attempt == Normalized(slot[s].attempt)
             message(a) == [id |-> Msg(s), attempt |-> a]
  <2>1. attempt \in Attempts /\ attempt >= 0
    BY <1>b DEF Normalized, Attempts
  <2>2. CASE IsLastAttempt(attempt) /\ Republish(s, "dlq", message(attempt))
    <3>1. message(attempt) \in Messages /\ message(attempt).id = Msg(s)
      BY <1>b, <2>1 DEF Messages
    <3> QED  BY <1>4, <1>a, <2>2, <3>1, RepublishEnds DEF HandleError, Running, HandlerSteps
  <2>3. CASE ~IsLastAttempt(attempt) /\ Republish(s, "retry", message(attempt + 1))
    <3>1. message(attempt + 1) \in Messages /\ message(attempt + 1).id = Msg(s)
      BY <1>b, <2>1, <2>3 DEF Messages, Attempts, IsLastAttempt
    <3> QED  BY <1>4, <1>a, <2>3, <3>1, RepublishEnds DEF HandleError, Running, HandlerSteps
  <2> QED  BY <1>4, <2>2, <2>3 DEF HandleError
<1> QED  BY <1>1, <1>2, <1>3, <1>4

\* The steps of a handler inside processOrderMessage touch the channel no more
\* than they touch the queues.
LEMMA HandlersGoOn ==
  ASSUME ChannelInv, NEW s \in Slots,
         \/ InsertMarker(s) \/ ReadOrder(s) \/ SaveOrder(s)
         \/ CommitProcessed(s) \/ CommitAlreadyProcessed(s) \/ FailTransaction(s)
  PROVE  GoesOn(s) /\ UNCHANGED queueVars
BY DEF InsertMarker, ReadOrder, SaveOrder, CommitProcessed, CommitAlreadyProcessed,
       FailTransaction, GoesOn, Goto, Running, HandlerSteps, Marked

-----------------------------------------------------------------------------
(* The channel keeps its invariant under each kind of step.                *)

\* ... when it is not touched.
LEMMA SameChannelStep ==
  ASSUME ChannelInv, TypeOK', SameChannel
  PROVE  ChannelInv'
BY DEF ChannelInv, SameChannel, SlotsHold, Deliveries, AnswersAreDue, SentIsAnswered, Answers,
       AckFrame, NackFrame

\* ... when a handler goes on and answers nothing yet.
LEMMA GoesOnStep ==
  ASSUME ChannelInv, TypeOK', NEW s \in Slots, GoesOn(s)
  PROVE  ChannelInv'
<1>1. \A t \in Slots : /\ pc'[t] = "sent" <=> pc[t] = "sent"
                       /\ pc'[t] = "free" <=> pc[t] = "free"
  BY DEF GoesOn, Running, ChannelInv, TypeOK
<1>2. UNCHANGED <<slot, unacked, out, conn>>
  BY DEF GoesOn
<1>3. SlotsHold' /\ Deliveries'
  BY <1>1, <1>2 DEF ChannelInv, SlotsHold, Deliveries, TypeOK
<1>4. AnswersAreDue' /\ SentIsAnswered'
  BY <1>1, <1>2 DEF ChannelInv, AnswersAreDue, SentIsAnswered, Answers, AckFrame, NackFrame
<1> QED  BY <1>3, <1>4 DEF ChannelInv

\* ... when publishOrderProcessing sends a message.
LEMMA SendsStep ==
  ASSUME ChannelInv, TypeOK', Sends, conn = "open"
  PROVE  ChannelInv'
<1>1. UNCHANGED <<pc, slot, unacked, conn>>
  BY DEF Sends
<1>2. SlotsHold' /\ Deliveries'
  BY <1>1 DEF ChannelInv, SlotsHold, Deliveries
<1>3. Len(out) \in Nat /\ Len(out') = Len(out) + 1
  BY LenProperties DEF ChannelInv, TypeOK, Sends, Grown
<1>4. \A s \in Slots, k \in 1..Len(out') :
        out'[k] \in Answers(s) => k \in 1..Len(out) /\ out[k] \in Answers(s)
  BY <1>3, FramesDiffer DEF Sends, Grown
<1>5. \A s \in Slots, k \in 1..Len(out) : out[k] \in Answers(s) =>
        k \in 1..Len(out') /\ out'[k] \in Answers(s)
  BY <1>3 DEF Sends, Grown
<1>6. AnswersAreDue'
  BY <1>1, <1>4 DEF ChannelInv, AnswersAreDue, Answers, AckFrame, NackFrame
<1>7. SentIsAnswered'
  BY <1>1, <1>5 DEF ChannelInv, SentIsAnswered, Answers, AckFrame, NackFrame
<1> QED  BY <1>2, <1>6, <1>7 DEF ChannelInv

\* ... when a handler ends with its answer, and perhaps a republished message.
LEMMA EndsStep ==
  ASSUME ChannelInv, TypeOK', NEW s \in Slots, Ends(s)
  PROVE  ChannelInv'
<1>1. UNCHANGED <<slot, unacked, conn>> /\ conn = "open" /\ pc[s] \in Running
      /\ pc[s] # "sent" /\ pc[s] # "free"
  BY DEF Ends, Running
<1>2. \A t \in Slots : pc'[t] = IF t = s THEN "sent" ELSE pc[t]
  BY DEF Ends, ChannelInv, TypeOK
<1>3. SlotsHold' /\ Deliveries'
  BY <1>1, <1>2 DEF ChannelInv, SlotsHold, Deliveries, TypeOK
<1>4. PICK n \in {1, 2} :
       /\ Grown(n)
       /\ out'[Len(out) + n] \in Answers(s)
       /\ n = 2 => out'[Len(out) + 1] \in Publishes
  BY DEF Ends
<1>5. Len(out) \in Nat /\ Len(out') = Len(out) + n
  BY <1>4, LenProperties DEF ChannelInv, TypeOK, Grown
<1>6. \A t \in Slots, k \in 1..Len(out') : out'[k] \in Answers(t) =>
        \/ k \in 1..Len(out) /\ out[k] \in Answers(t)
        \/ k = Len(out) + n /\ t = s
  BY <1>4, <1>5, FramesDiffer DEF Grown
<1>7. \A k \in 1..Len(out) : out[k] \notin Answers(s)
  BY <1>1 DEF ChannelInv, AnswersAreDue
<1>8. s \in unacked
  BY <1>1 DEF ChannelInv, Deliveries
<1>9. ASSUME NEW t \in Slots, NEW k \in 1..Len(out'), out'[k] \in Answers(t)
      PROVE  /\ pc'[t] = "sent"
             /\ t \in unacked
             /\ \A l \in 1..Len(out') : out'[l] \in Answers(t) => l = k
  <2>1. CASE t = s
    BY <1>2, <1>6, <1>7, <1>8, <1>9, <2>1
  <2>2. CASE t # s
    BY <1>2, <1>6, <1>9, <2>2 DEF ChannelInv, AnswersAreDue
  <2> QED  BY <2>1, <2>2
<1>10. AnswersAreDue'
  BY <1>1, <1>9 DEF AnswersAreDue, Answers, AckFrame, NackFrame
<1>11. ASSUME NEW t \in Slots, pc'[t] = "sent"
       PROVE  \E k \in 1..Len(out') : out'[k] \in Answers(t)
  <2>1. CASE t = s
    BY <1>4, <1>5, <2>1
  <2>2. CASE t # s
    <3>1. PICK k \in 1..Len(out) : out[k] \in Answers(t)
      BY <1>2, <1>11, <2>2 DEF ChannelInv, SentIsAnswered
    <3> QED  BY <3>1, <1>4, <1>5 DEF Grown
  <2> QED  BY <2>1, <2>2
<1>12. SentIsAnswered'
  BY <1>11 DEF SentIsAnswered, Answers, AckFrame, NackFrame
<1> QED  BY <1>3, <1>10, <1>12 DEF ChannelInv

\* ... when the broker delivers a message to a free slot.
LEMMA DeliverStep ==
  ASSUME ChannelInv, TypeOK', NEW s \in Slots, NEW m \in Messages, Deliver(s, m)
  PROVE  ChannelInv'
<1>1. \A t \in Slots : /\ pc'[t] = IF t = s THEN "start" ELSE pc[t]
                       /\ slot'[t] = IF t = s THEN m ELSE slot[t]
  BY DEF Deliver, Goto, ChannelInv, TypeOK
<1>2. UNCHANGED <<out, conn>> /\ unacked' = unacked \cup {s} /\ pc[s] = "free" /\ conn = "open"
  BY DEF Deliver
<1>3. SlotsHold' /\ Deliveries'
  BY <1>1, <1>2 DEF ChannelInv, SlotsHold, Deliveries, TypeOK
<1>4. AnswersAreDue' /\ SentIsAnswered'
  BY <1>1, <1>2 DEF ChannelInv, AnswersAreDue, SentIsAnswered, Answers, AckFrame, NackFrame
<1> QED  BY <1>3, <1>4 DEF ChannelInv

\* ... when the broker takes a publish from the channel.
LEMMA ReceivePublishStep ==
  ASSUME ChannelInv, TypeOK', ReceivePublish
  PROVE  ChannelInv'
<1>1. UNCHANGED <<pc, slot, unacked, conn>> /\ out # <<>> /\ out' = Tail(out)
      /\ Head(out).type = "publish"
  BY DEF ReceivePublish
<1>2. SlotsHold' /\ Deliveries'
  BY <1>1 DEF ChannelInv, SlotsHold, Deliveries
<1>3. /\ Head(out) \in Frames /\ Head(out) = out[1]
      /\ Len(out) \in Nat \ {0}
      /\ Len(out') = Len(out) - 1
      /\ \A k \in 1..Len(out') : out'[k] = out[k + 1]
  BY <1>1, TakeFirst DEF ChannelInv
<1>4. \A s \in Slots : out[1] \notin Answers(s)
  BY <1>1, <1>3, FrameKinds, FramesDiffer
<1>5. AnswersAreDue'
  <2>1. \A s \in Slots, k \in 1..Len(out') : out'[k] \in Answers(s) =>
           k + 1 \in 1..Len(out) /\ out[k + 1] \in Answers(s)
    BY <1>3
  <2> QED  BY <1>1, <1>3, <2>1 DEF ChannelInv, AnswersAreDue, Answers, AckFrame, NackFrame
<1>6. SentIsAnswered'
  <2>1. \A s \in Slots, k \in 1..Len(out) : out[k] \in Answers(s) =>
           k - 1 \in 1..Len(out') /\ out'[k - 1] \in Answers(s)
    BY <1>3, <1>4
  <2> QED  BY <1>1, <2>1 DEF ChannelInv, SentIsAnswered, Answers, AckFrame, NackFrame
<1> QED  BY <1>2, <1>5, <1>6 DEF ChannelInv

\* ... when the broker takes an ack or a nack, which frees the slot.
LEMMA ReceiveAnswerStep ==
  ASSUME ChannelInv, TypeOK', ReceiveAck \/ ReceiveNack
  PROVE  ChannelInv'
<1> DEFINE s == Head(out).slot
<1>1. /\ UNCHANGED conn /\ out # <<>> /\ out' = Tail(out)
      /\ Head(out).type \in {"ack", "nack"}
      /\ unacked' = unacked \ {s}
      /\ slot' = [slot EXCEPT ![s] = NoMsg]
      /\ pc' = [pc EXCEPT ![s] = "free"]
  BY DEF ReceiveAck, ReceiveNack, Free, Goto
<1>2. /\ Head(out) \in Frames /\ Head(out) = out[1]
      /\ Len(out) \in Nat \ {0}
      /\ Len(out') = Len(out) - 1
      /\ \A k \in 1..Len(out') : out'[k] = out[k + 1]
  BY <1>1, TakeFirst DEF ChannelInv
<1>3. s \in Slots /\ out[1] \in Answers(s)
  BY <1>1, <1>2, FrameKinds DEF Answers
<1>4. \A t \in Slots : /\ pc'[t] = IF t = s THEN "free" ELSE pc[t]
                       /\ slot'[t] = IF t = s THEN NoMsg ELSE slot[t]
  BY <1>1, <1>3 DEF ChannelInv, TypeOK
<1>5. conn = "open"
  BY <1>1 DEF ChannelInv, TypeOK, Deliveries
<1>6. SlotsHold' /\ Deliveries'
  BY <1>1, <1>4, <1>5 DEF ChannelInv, SlotsHold, Deliveries, TypeOK
<1>7. AnswersAreDue'
  <2>1. \A t \in Slots, k \in 1..Len(out') : out'[k] \in Answers(t) =>
           k + 1 \in 1..Len(out) /\ out[k + 1] \in Answers(t)
    BY <1>2
  <2>2. \A k \in 1..Len(out') : out'[k] \notin Answers(s)
    BY <1>2, <1>3, <2>1 DEF ChannelInv, AnswersAreDue
  <2> SUFFICES ASSUME NEW t \in Slots, NEW k \in 1..Len(out'), out'[k] \in Answers(t)
               PROVE  /\ pc'[t] = "sent"
                      /\ t \in unacked'
                      /\ \A l \in 1..Len(out') : out'[l] \in Answers(t) => l = k
    BY DEF AnswersAreDue, Answers, AckFrame, NackFrame
  <2>3. t # s
    BY <2>2
  <2>4. /\ pc[t] = "sent" /\ t \in unacked
        /\ \A l \in 1..Len(out) : out[l] \in Answers(t) => l = k + 1
    BY <2>1 DEF ChannelInv, AnswersAreDue
  <2>5. \A l \in 1..Len(out') : out'[l] \in Answers(t) => l = k
    BY <1>2, <2>1, <2>4
  <2> QED  BY <1>1, <1>4, <2>3, <2>4, <2>5
<1>8. SentIsAnswered'
  <2> SUFFICES ASSUME NEW t \in Slots, pc'[t] = "sent"
               PROVE  \E k \in 1..Len(out') : out'[k] \in Answers(t)
    BY DEF SentIsAnswered, Answers, AckFrame, NackFrame
  <2>1. t # s /\ pc[t] = "sent"
    BY <1>4
  <2>2. PICK k \in 1..Len(out) : out[k] \in Answers(t)
    BY <2>1 DEF ChannelInv, SentIsAnswered
  <2>3. k # 1
    BY <1>3, <2>1, <2>2, FramesDiffer
  <2>4. k - 1 \in 1..Len(out') /\ out'[k - 1] = out[k]
    BY <1>2, <2>2, <2>3
  <2> QED  BY <2>2, <2>4
<1> QED  BY <1>6, <1>7, <1>8 DEF ChannelInv

\* ... when the connection closes or the process dies: nothing is left to answer.
LEMMA CloseStep ==
  ASSUME ChannelInv, TypeOK', CloseConnection \/ Restart
  PROVE  ChannelInv'
<1>1. out' = <<>> /\ unacked' = {}
  BY DEF CloseConnection, Restart, LoseConnection
<1>2. \A s \in Slots : /\ pc'[s] # "sent"
                       /\ pc'[s] # "free" => slot'[s] \in Messages
  BY DEF CloseConnection, Restart, ChannelInv, SlotsHold, TypeOK
<1>3. conn' = "open" => \A s \in Slots : pc'[s] = "free"
  BY DEF CloseConnection, Restart
<1>4. SlotsHold' /\ Deliveries' /\ SentIsAnswered'
  BY <1>1, <1>2, <1>3 DEF SlotsHold, Deliveries, SentIsAnswered
<1>5. AnswersAreDue'
  BY <1>1 DEF AnswersAreDue
<1> QED  BY <1>4, <1>5 DEF ChannelInv

-----------------------------------------------------------------------------
(* Types.                                                                  *)

\* Adding and removing a message leaves a queue a queue.
LEMMA QueueTypes ==
  ASSUME NEW queue \in Queues, NEW m \in Messages
  PROVE  /\ Add(queue, m) \in Queues
         /\ queue[m] > 0 => Drop(queue, m) \in Queues
         /\ m.id \in Ids
<1>1. \A n \in Messages : queue[n] \in Nat
  BY DEF Queues
<1>2. Add(queue, m) \in Queues
  BY <1>1 DEF Queues, Add
<1>3. queue[m] > 0 => Drop(queue, m) \in Queues
  BY <1>1 DEF Queues, Drop
<1>4. m.id \in Ids
  BY DEF Messages
<1> QED  BY <1>2, <1>3, <1>4

\* A lost connection puts a whole number of copies back.
LEMMA LoseConnectionType ==
  ASSUME ChannelInv, LoseConnection
  PROVE  process' \in Queues /\ out' \in Seq(Frames) /\ unacked' \subseteq Slots
<1>1. \A m \in Messages : Cardinality({s \in unacked : slot[s] = m}) \in Nat
  <2> SUFFICES ASSUME NEW m \in Messages
               PROVE  Cardinality({s \in unacked : slot[s] = m}) \in Nat
    OBVIOUS
  <2>1. {s \in unacked : slot[s] = m} \in SUBSET Slots
    BY DEF ChannelInv, TypeOK
  <2>2. IsFiniteSet({s \in unacked : slot[s] = m})
    BY <2>1, SlotsAssumption, FS_Subset
  <2> QED  BY <2>2, FS_CardinalityType
<1>2. process' \in Queues
  <2>1. \A m \in Messages : process[m] \in Nat
    BY DEF ChannelInv, TypeOK, Queues
  <2> QED  BY <1>1, <2>1 DEF LoseConnection, Queues
<1>3. out' \in Seq(Frames)
  BY DEF LoseConnection
<1> QED  BY <1>2, <1>3 DEF LoseConnection

\* Every step keeps the types: what is published again is a message, what goes
\* back to a queue was one, and no budget goes below zero.
LEMMA TypeStep ==
  ASSUME ChannelInv, [Next]_vars
  PROVE  TypeOK'
<1>a. TypeOK
  BY DEF ChannelInv
<1> USE DEF queueVars, dbVars, history
<1>1. ASSUME NEW i \in Ids, PublishCreated(i) PROVE TypeOK'
  <2>1. out' \in Seq(Frames)
    BY <1>1, <1>a, CreatedSends DEF PublishCreated, Sends, Grown
  <2> QED  BY <1>1, <1>a, <2>1 DEF PublishCreated, Spend, Kinds, TypeOK
<1>2. ASSUME NEW m \in Messages, PublishByHand(m) PROVE TypeOK'
  BY <1>2, <1>a, QueueTypes DEF PublishByHand, Spend, Kinds, TypeOK
<1>3. ASSUME NEW m \in Messages, Expire(m) PROVE TypeOK'
  BY <1>3, <1>a, QueueTypes DEF Expire, TypeOK
<1>4. ASSUME NEW s \in Slots, NEW m \in Messages, Deliver(s, m) PROVE TypeOK'
  BY <1>4, <1>a, QueueTypes DEF Deliver, Goto, TypeOK, HandlerSteps
<1>5. ASSUME NEW s \in Slots,
             RejectMalformed(s) \/ RejectNull(s) \/ Acknowledge(s) \/ HandleError(s)
      PROVE  TypeOK'
  <2>1. Ends(s) /\ budget' \in [Kinds -> Nat]
    BY <1>5, HandlersEnd
  <2>2. UNCHANGED <<queueVars, dbVars, history>>
    BY <1>5 DEF RejectMalformed, RejectNull, Acknowledge, HandleError
  <2> QED  BY <2>1, <2>2, <1>a DEF Ends, Grown, TypeOK, HandlerSteps
<1>6. ASSUME NEW s \in Slots,
             InsertMarker(s) \/ ReadOrder(s) \/ SaveOrder(s) \/ FailTransaction(s)
      PROVE  TypeOK'
  BY <1>6, <1>a DEF InsertMarker, ReadOrder, SaveOrder, FailTransaction, Goto, Spend, Kinds,
     TypeOK, HandlerSteps, Marked
<1>7. ASSUME NEW s \in Slots, CommitProcessed(s) \/ CommitAlreadyProcessed(s) PROVE TypeOK'
  <2>1. Msg(s) \in Ids /\ OrderId(s) \in Orders
    BY <1>7 DEF CommitProcessed, CommitAlreadyProcessed, ChannelInv, SlotsHold, Msg, OrderId,
       Messages
  <2>2. markers' \subseteq Ids /\ settled' \subseteq Ids
    BY <1>7, <1>a, <2>1 DEF CommitProcessed, CommitAlreadyProcessed, CommitMarker, TypeOK
  <2>3. status' \in [Orders -> {"PENDING", "PROCESSED"}]
    BY <1>7, <1>a, <2>1 DEF CommitProcessed, CommitAlreadyProcessed, TypeOK
  <2>5. applied' \in [Ids -> Nat]
    <3>1. applied \in [Ids -> Nat] /\ applied[Msg(s)] + 1 \in Nat
      BY <1>a, <2>1 DEF TypeOK
    <3> QED  BY <1>7, <3>1 DEF CommitProcessed, CommitAlreadyProcessed
  <2>4. pc' \in [Slots -> HandlerSteps]
    BY <1>7, <1>a DEF CommitProcessed, CommitAlreadyProcessed, Goto, TypeOK, HandlerSteps
  <2> QED  BY <1>7, <1>a, <2>2, <2>3, <2>4, <2>5
           DEF CommitProcessed, CommitAlreadyProcessed, TypeOK
<1>8. CASE ReceivePublish
  <2>1. /\ Head(out) \in Frames /\ out' \in Seq(Frames)
    BY <1>8, <1>a, TakeFirst DEF ReceivePublish
  <2>2. Head(out).msg \in Messages /\ Head(out).queue \in {"process", "retry", "dlq"}
    BY <1>8, <2>1, FrameKinds DEF ReceivePublish
  <2>3. Head(out).msg.id \in Ids
    BY <2>2 DEF Messages
  <2>4. process' \in Queues /\ retry' \in Queues /\ dlq' \in Queues
    BY <1>8, <1>a, <2>2, QueueTypes DEF ReceivePublish, TypeOK
  <2> QED  BY <1>8, <1>a, <2>1, <2>3, <2>4 DEF ReceivePublish, TypeOK
<1>9. CASE ReceiveAck \/ ReceiveNack
  <2>1. Head(out) \in Frames /\ out' \in Seq(Frames) /\ Head(out) = out[1] /\ 1 \in 1..Len(out)
    BY <1>9, <1>a, TakeFirst DEF ReceiveAck, ReceiveNack
  <2>2. Head(out).slot \in Slots /\ Head(out) \in Answers(Head(out).slot)
    BY <1>9, <2>1, FrameKinds DEF ReceiveAck, ReceiveNack, Answers
  <2>3. slot[Head(out).slot] \in Messages
    BY <2>1, <2>2 DEF ChannelInv, AnswersAreDue, SlotsHold
  <2>4. process' \in Queues /\ UNCHANGED <<retry, dlq>>
    BY <1>9, <1>a, <2>3, QueueTypes DEF ReceiveAck, ReceiveNack, TypeOK
  <2> QED  BY <1>9, <1>a, <2>1, <2>2, <2>4
           DEF ReceiveAck, ReceiveNack, Free, Goto, TypeOK, HandlerSteps
<1>10. CASE CloseConnection
  BY <1>10, <1>a, LoseConnectionType DEF CloseConnection, Spend, Kinds, TypeOK, HandlerSteps
<1>11. CASE Crash
  BY <1>11, <1>a, LoseConnectionType DEF Crash, Restart, Spend, Kinds, TypeOK, HandlerSteps
<1>12. ASSUME NEW s \in Slots, DieOnClosedChannel(s) PROVE TypeOK'
  BY <1>12, <1>a, LoseConnectionType DEF DieOnClosedChannel, Restart, TypeOK, HandlerSteps
<1>13. ASSUME NEW o \in Orders, DeleteOrder(o) PROVE TypeOK'
  BY <1>13, <1>a DEF DeleteOrder, Spend, Kinds, TypeOK
<1>14. CASE UNCHANGED vars
  BY <1>14, <1>a DEF vars, TypeOK
<1> QED
  BY <1>1, <1>2, <1>3, <1>4, <1>5, <1>6, <1>7, <1>8, <1>9, <1>10, <1>11, <1>12, <1>13, <1>14
  DEF Next, Handle, Receive, Idle

\* Every step keeps the channel's invariant.
LEMMA ChannelStep ==
  ASSUME ChannelInv, [Next]_vars
  PROVE  ChannelInv'
<1>a. TypeOK /\ TypeOK'
  BY TypeStep DEF ChannelInv
<1>1. ASSUME NEW i \in Ids, PublishCreated(i) PROVE ChannelInv'
  BY <1>1, <1>a, CreatedSends, SendsStep DEF PublishCreated
<1>2. CASE (\E m \in Messages : PublishByHand(m) \/ Expire(m)) \/ \E o \in Orders : DeleteOrder(o)
  <2>1. SameChannel
    BY <1>2 DEF PublishByHand, Expire, DeleteOrder, SameChannel
  <2> QED  BY <1>a, <2>1, SameChannelStep
<1>3. ASSUME NEW s \in Slots, NEW m \in Messages, Deliver(s, m) PROVE ChannelInv'
  BY <1>a, <1>3, DeliverStep
<1>4. ASSUME NEW s \in Slots, Handle(s) \/ FailTransaction(s) PROVE ChannelInv'
  <2>1. CASE RejectMalformed(s) \/ RejectNull(s) \/ Acknowledge(s) \/ HandleError(s)
    BY <1>a, <2>1, HandlersEnd, EndsStep
  <2>2. CASE \/ InsertMarker(s) \/ ReadOrder(s) \/ SaveOrder(s)
             \/ CommitProcessed(s) \/ CommitAlreadyProcessed(s) \/ FailTransaction(s)
    BY <1>a, <2>2, HandlersGoOn, GoesOnStep
  <2>3. CASE DieOnClosedChannel(s)
    BY <1>a, <2>3, CloseStep DEF DieOnClosedChannel
  <2> QED  BY <1>4, <2>1, <2>2, <2>3 DEF Handle
<1>5. CASE Receive
  BY <1>a, <1>5, ReceivePublishStep, ReceiveAnswerStep DEF Receive
<1>6. CASE CloseConnection \/ Crash
  BY <1>a, <1>6, CloseStep DEF Crash
<1>7. CASE UNCHANGED vars
  <2>1. SameChannel
    BY <1>7 DEF vars, SameChannel
  <2> QED  BY <1>a, <2>1, SameChannelStep
<1> QED
  BY <1>1, <1>2, <1>3, <1>4, <1>5, <1>6, <1>7 DEF Next, Idle

-----------------------------------------------------------------------------
(* The attempt limit.                                                      *)

\* What is written to the channel is within the attempt limit.
LEMMA BoundedGrows ==
  ASSUME ChannelInv, RetryInv, UNCHANGED <<retry, dlq>>, NEW n \in {1, 2}, Grown(n),
         Bounded(out'[Len(out) + 1]), Bounded(out'[Len(out) + n])
  PROVE  RetryInv'
<1>1. Len(out) \in Nat /\ Len(out') = Len(out) + n /\ \A k \in 1..Len(out) : out'[k] = out[k]
  BY LenProperties DEF ChannelInv, TypeOK, Grown
<1>2. \A k \in 1..Len(out') : k \in 1..Len(out) \/ k = Len(out) + 1 \/ k = Len(out) + n
  BY <1>1
<1>3. \A k \in 1..Len(out') : Bounded(out'[k])
  BY <1>1, <1>2 DEF RetryInv, FramesAreBounded
<1> QED  BY <1>3 DEF RetryInv, FramesAreBounded, RetriesAreBounded, Bounded

\* Messages for orders.process are not limited.
LEMMA SendsBounded ==
  ASSUME ChannelInv, RetryInv, UNCHANGED <<retry, dlq>>, Sends, out'[Len(out) + 1].queue = "process"
  PROVE  RetryInv'
<1>1. Grown(1) /\ Bounded(out'[Len(out) + 1])
  BY DEF Sends, Bounded
<1> QED  BY <1>1, BoundedGrows

\* An attempt is raised only below the limit, and a message that is not
\* malformed is dead-lettered only at the limit.
LEMMA RetryStep ==
  ASSUME ChannelInv, RetryInv, [Next]_vars
  PROVE  RetryInv'
<1>a. TypeOK
  BY DEF ChannelInv
<1>b. ASSUME UNCHANGED <<retry, dlq, out>> PROVE RetryInv'
  BY <1>b DEF RetryInv, FramesAreBounded, RetriesAreBounded, Bounded
<1>c. ASSUME UNCHANGED <<retry, dlq>>, out' = <<>> PROVE RetryInv'
  BY <1>c DEF RetryInv, FramesAreBounded, RetriesAreBounded
<1>d. \A s \in Slots : \A f \in Answers(s) : Bounded(f)
  BY FramesDiffer DEF Bounded
<1> USE DEF queueVars
<1>1. ASSUME NEW i \in Ids, PublishCreated(i) PROVE RetryInv'
  BY <1>1, <1>a, CreatedSends, SendsBounded DEF PublishCreated
<1>2. ASSUME NEW m \in Messages, PublishByHand(m) PROVE RetryInv'
  BY <1>2, <1>b DEF PublishByHand
<1>3. ASSUME NEW m \in Messages, Expire(m) PROVE RetryInv'
  <2>1. \A n \in Messages : retry'[n] > 0 => retry[n] > 0
    BY <1>3, <1>a DEF Expire, Drop, TypeOK, Queues
  <2> QED  BY <1>3, <2>1 DEF Expire, RetryInv, FramesAreBounded, RetriesAreBounded, Bounded
<1>4. ASSUME NEW s \in Slots, NEW m \in Messages, Deliver(s, m) PROVE RetryInv'
  BY <1>4, <1>b DEF Deliver
<1>5. ASSUME NEW s \in Slots, RejectNull(s) \/ Acknowledge(s) PROVE RetryInv'
  <2>1. Grown(1) /\ out'[Len(out) + 1] \in Answers(s)
    BY <1>5, <1>a, AppendOne, FrameTypes DEF RejectNull, Acknowledge, Answers
  <2> QED  BY <1>5, <1>d, <2>1, BoundedGrows DEF RejectNull, Acknowledge
<1>6. ASSUME NEW s \in Slots, NEW q \in {"retry", "dlq"}, NEW m \in Messages, m.id = Msg(s),
             pc[s] \in Running, Republish(s, q, m), UNCHANGED <<queueVars, slot, unacked, conn>>,
             Bounded(PublishFrame(q, m))
      PROVE  RetryInv'
  <2>1. /\ Grown(2) /\ out'[Len(out) + 1] = PublishFrame(q, m)
        /\ out'[Len(out) + 2] \in Answers(s)
    BY <1>6, <1>a, RepublishEnds
  <2> QED  BY <1>6, <1>d, <2>1, BoundedGrows
<1>7. ASSUME NEW s \in Slots, RejectMalformed(s) PROVE RetryInv'
  <2>1. slot[s] \in Messages /\ slot[s].id = Msg(s)
    BY <1>7 DEF RejectMalformed, ChannelInv, SlotsHold, Msg
  <2>2. Bounded(PublishFrame("dlq", slot[s]))
    BY <1>7, <2>1, FrameTypes DEF RejectMalformed, Bounded
  <2> QED  BY <1>7, <1>6, <2>1, <2>2 DEF RejectMalformed, Running, HandlerSteps
<1>8. ASSUME NEW s \in Slots, HandleError(s) PROVE RetryInv'
  <2> DEFINE attempt == Normalized(slot[s].attempt)
             message(a) == [id |-> Msg(s), attempt |-> a]
  <2>1. slot[s] \in Messages /\ pc[s] \in Running
    BY <1>8 DEF HandleError, ChannelInv, SlotsHold, Running, HandlerSteps
  <2>2. Msg(s) \in Ids /\ attempt \in Attempts /\ attempt >= 0
    BY <2>1 DEF Msg, Messages, Normalized, Attempts
  <2>3. CASE IsLastAttempt(attempt) /\ Republish(s, "dlq", message(attempt))
    <3>1. message(attempt) \in Messages /\ message(attempt).id = Msg(s)
          /\ message(attempt).attempt >= MaxAttempts - 1
      BY <2>2, <2>3 DEF Messages, IsLastAttempt
    <3>2. Bounded(PublishFrame("dlq", message(attempt)))
      BY <3>1, FrameTypes DEF Bounded
    <3> QED  BY <1>8, <1>6, <2>1, <2>3, <3>1, <3>2 DEF HandleError
  <2>4. CASE ~IsLastAttempt(attempt) /\ Republish(s, "retry", message(attempt + 1))
    <3>1. message(attempt + 1) \in Messages /\ message(attempt + 1).id = Msg(s)
          /\ message(attempt + 1).attempt \in 1..(MaxAttempts - 1)
      BY <2>2, <2>4 DEF Messages, Attempts, IsLastAttempt
    <3>2. Bounded(PublishFrame("retry", message(attempt + 1)))
      BY <3>1, FrameTypes DEF Bounded
    <3> QED  BY <1>8, <1>6, <2>1, <2>4, <3>1, <3>2 DEF HandleError
  <2> QED  BY <1>8, <2>3, <2>4 DEF HandleError
<1>9. ASSUME NEW s \in Slots,
             \/ InsertMarker(s) \/ ReadOrder(s) \/ SaveOrder(s)
             \/ CommitProcessed(s) \/ CommitAlreadyProcessed(s) \/ FailTransaction(s)
      PROVE  RetryInv'
  BY <1>9, <1>b, HandlersGoOn DEF GoesOn
<1>10. CASE ReceivePublish
  <2>1. /\ Head(out) \in Frames /\ Head(out) = out[1] /\ Len(out) \in Nat \ {0}
        /\ Len(out') = Len(out) - 1
        /\ \A k \in 1..Len(out') : out'[k] = out[k + 1]
    BY <1>10, <1>a, TakeFirst DEF ReceivePublish
  <2>2. FramesAreBounded'
    <3>1. \A k \in 1..Len(out') : Bounded(out'[k])
      BY <2>1 DEF RetryInv, FramesAreBounded
    <3> QED  BY <3>1 DEF FramesAreBounded, Bounded
  <2>3. Head(out) \in Publishes /\ Bounded(Head(out)) /\ Head(out).msg \in Messages
    BY <1>10, <2>1, FrameKinds DEF ReceivePublish, RetryInv, FramesAreBounded
  <2>4. \A m \in Messages : retry'[m] > 0 =>
          retry[m] > 0 \/ (Head(out).queue = "retry" /\ m = Head(out).msg)
    BY <1>10, <1>a, <2>3 DEF ReceivePublish, Add, TypeOK, Queues
  <2>5. \A m \in Messages : dlq'[m] > 0 =>
          dlq[m] > 0 \/ (Head(out).queue = "dlq" /\ m = Head(out).msg)
    BY <1>10, <1>a, <2>3 DEF ReceivePublish, Add, TypeOK, Queues
  <2>6. RetriesAreBounded'
    BY <2>3, <2>4, <2>5 DEF RetryInv, RetriesAreBounded, Bounded
  <2> QED  BY <2>2, <2>6 DEF RetryInv
<1>11. CASE ReceiveAck \/ ReceiveNack
  <2>1. /\ Len(out) \in Nat \ {0} /\ Len(out') = Len(out) - 1
        /\ \A k \in 1..Len(out') : out'[k] = out[k + 1]
    BY <1>11, <1>a, TakeFirst DEF ReceiveAck, ReceiveNack
  <2>2. \A k \in 1..Len(out') : Bounded(out'[k])
    BY <2>1 DEF RetryInv, FramesAreBounded
  <2>3. UNCHANGED <<retry, dlq>>
    BY <1>11 DEF ReceiveAck, ReceiveNack
  <2> QED  BY <2>2, <2>3 DEF RetryInv, FramesAreBounded, RetriesAreBounded, Bounded
<1>12. CASE CloseConnection \/ Crash \/ \E s \in Slots : DieOnClosedChannel(s)
  BY <1>12, <1>c DEF CloseConnection, Crash, DieOnClosedChannel, Restart, LoseConnection
<1>13. ASSUME NEW o \in Orders, DeleteOrder(o) PROVE RetryInv'
  BY <1>13, <1>b DEF DeleteOrder
<1>14. CASE UNCHANGED vars
  BY <1>14, <1>b DEF vars
<1> QED
  BY <1>1, <1>2, <1>3, <1>4, <1>5, <1>7, <1>8, <1>9, <1>10, <1>11, <1>12, <1>13, <1>14
  DEF Next, Handle, Receive, Idle

-----------------------------------------------------------------------------
(* Markers, statuses and the messages applied.                             *)

InTransaction == Marked \cup {"processed"}

\* Steps after which no handler is in a transaction that was not in it before.
NoneEnters ==
  \A t \in Slots : pc'[t] \in InTransaction => pc'[t] = pc[t] /\ slot'[t] = slot[t]

\* What is said of the tables holds while no handler enters a transaction.
LEMMA NoneEntersStep ==
  ASSUME DbInv, UNCHANGED <<dbVars, applied>>, NoneEnters
  PROVE  DbInv'
<1> USE DEF dbVars, NoneEnters, InTransaction, Msg, OrderId
<1>1. MarkersAreUnique'
  BY DEF DbInv, MarkersAreUnique
<1>2. KeepIsProcessed'
  BY DEF DbInv, KeepIsProcessed, Marked
<1>3. AppliedIsMarked' /\ MarkersMatchStatus'
  BY DEF DbInv, AppliedIsMarked, MarkersMatchStatus
<1> QED  BY <1>1, <1>2, <1>3 DEF DbInv

\* The steps outside the transactions are of that kind.
LEMMA OutsideTransactions ==
  ASSUME ChannelInv, [Next]_vars
  PROVE  \/ UNCHANGED <<dbVars, applied>> /\ NoneEnters
         \/ \E s \in Slots : \/ InsertMarker(s) \/ ReadOrder(s) \/ SaveOrder(s)
                             \/ CommitProcessed(s) \/ CommitAlreadyProcessed(s)
         \/ \E o \in Orders : DeleteOrder(o)
<1> USE DEF dbVars, history, NoneEnters, InTransaction, Marked, ChannelInv, TypeOK
<1>1. CASE \/ \E i \in Ids : PublishCreated(i)
           \/ \E m \in Messages : PublishByHand(m) \/ Expire(m)
  BY <1>1 DEF PublishCreated, PublishByHand, Expire
<1>2. CASE \E s \in Slots, m \in Messages : Deliver(s, m)
  BY <1>2 DEF Deliver, Goto
<1>3. ASSUME NEW s \in Slots,
             RejectMalformed(s) \/ RejectNull(s) \/ Acknowledge(s) \/ HandleError(s)
      PROVE  UNCHANGED <<dbVars, applied>> /\ NoneEnters
  <2>1. Ends(s)
    BY <1>3, HandlersEnd
  <2> QED  BY <1>3, <2>1 DEF Ends, RejectMalformed, RejectNull, Acknowledge, HandleError
<1>4. CASE \E s \in Slots : FailTransaction(s)
  BY <1>4 DEF FailTransaction, Goto
<1>5. CASE Receive
  BY <1>5 DEF Receive, ReceivePublish, ReceiveAck, ReceiveNack, Free, Goto
<1>6. CASE CloseConnection \/ Crash \/ \E s \in Slots : DieOnClosedChannel(s)
  BY <1>6 DEF CloseConnection, Crash, DieOnClosedChannel, Restart
<1>7. CASE UNCHANGED vars
  BY <1>7 DEF vars
<1> QED
  BY <1>1, <1>2, <1>3, <1>4, <1>5, <1>6, <1>7 DEF Next, Handle, Idle

\* The primary key on messageId lets one transaction of a message through at a
\* time, the foreign key none without its order, and the cascade none without
\* its marker: each message is applied once.
LEMMA DbStep ==
  ASSUME ChannelInv, DbInv, [Next]_vars
  PROVE  DbInv'
<1>a. TypeOK
  BY DEF ChannelInv
<1>b. ASSUME NEW s \in Slots, pc[s] # "free"
      PROVE  Msg(s) \in Ids /\ OrderId(s) \in Orders /\ OrderId(s) = OrderOf[Msg(s)]
  BY <1>b DEF ChannelInv, SlotsHold, Msg, OrderId, Messages
<1>c. MarkersAreUnique /\ KeepIsProcessed /\ AppliedIsMarked /\ MarkersMatchStatus
  BY DEF DbInv
<1> USE DEF dbVars, history
<1>1. CASE UNCHANGED <<dbVars, applied>> /\ NoneEnters
  BY <1>1, NoneEntersStep
<1>2. ASSUME NEW s \in Slots, InsertMarker(s) PROVE DbInv'
  <2>1. \A t \in Slots : pc'[t] = IF t = s THEN pc'[s] ELSE pc[t]
    BY <1>2, <1>a DEF InsertMarker, Goto, TypeOK
  <2>2. /\ UNCHANGED <<slot, orders, status, markers, applied>>
        /\ pc'[s] \in {"ack", "error", "read"}
        /\ pc'[s] = "read" => Msg(s) \notin markers /\ OrderId(s) \in orders
        /\ \A t \in Slots \ {s} : pc[t] \in Marked => Msg(t) # Msg(s)
    BY <1>2, <1>a DEF InsertMarker, Goto, DuplicateId, TypeOK
  <2>3. MarkersAreUnique'
    BY <1>c, <2>1, <2>2 DEF MarkersAreUnique, Msg, OrderId, Marked
  <2>4. KeepIsProcessed' /\ AppliedIsMarked' /\ MarkersMatchStatus'
    BY <1>c, <2>1, <2>2 DEF KeepIsProcessed, AppliedIsMarked, MarkersMatchStatus, Msg, OrderId
  <2> QED  BY <2>3, <2>4 DEF DbInv
<1>3. ASSUME NEW s \in Slots, ReadOrder(s) \/ SaveOrder(s) PROVE DbInv'
  <2>1. \A t \in Slots : pc'[t] = IF t = s THEN pc'[s] ELSE pc[t]
    BY <1>3, <1>a DEF ReadOrder, SaveOrder, Goto, TypeOK
  <2>2. /\ UNCHANGED <<slot, orders, status, markers, applied>>
        /\ pc[s] \in Marked
        /\ pc'[s] \in {"keep", "save", "commit"}
        /\ pc'[s] = "keep" => status[OrderId(s)] = "PROCESSED"
    BY <1>3, <1>a DEF ReadOrder, SaveOrder, Goto, Marked, TypeOK
  <2>3. MarkersAreUnique'
    BY <1>c, <2>1, <2>2 DEF MarkersAreUnique, Msg, OrderId, Marked
  <2>4. KeepIsProcessed' /\ AppliedIsMarked' /\ MarkersMatchStatus'
    BY <1>c, <2>1, <2>2 DEF KeepIsProcessed, AppliedIsMarked, MarkersMatchStatus, Msg, OrderId
  <2> QED  BY <2>3, <2>4 DEF DbInv
<1>4. ASSUME NEW s \in Slots, CommitProcessed(s) \/ CommitAlreadyProcessed(s) PROVE DbInv'
  <2>1. \A t \in Slots : pc'[t] = IF t = s THEN pc'[s] ELSE pc[t]
    BY <1>4, <1>a DEF CommitProcessed, CommitAlreadyProcessed, Goto, TypeOK
  <2>2. /\ UNCHANGED <<slot, orders>>
        /\ markers' = markers \cup {Msg(s)}
        /\ pc[s] \in {"commit", "keep"}
        /\ pc'[s] \in {"processed", "ack"}
    BY <1>4, <1>a DEF CommitProcessed, CommitAlreadyProcessed, CommitMarker, Goto, TypeOK
  <2>3. /\ Msg(s) \notin markers /\ OrderId(s) \in orders
        /\ \A t \in Slots \ {s} : pc[t] \in Marked => Msg(t) # Msg(s)
    BY <1>c, <2>2 DEF MarkersAreUnique, Marked
  <2>4. Msg(s) \in Ids /\ OrderId(s) \in Orders /\ OrderId(s) = OrderOf[Msg(s)]
    BY <1>b, <2>2
  <2>5. \A o \in Orders :
          status'[o] = IF o = OrderId(s) THEN "PROCESSED" ELSE status[o]
    BY <1>4, <1>a, <1>c, <2>4 DEF CommitProcessed, CommitAlreadyProcessed, KeepIsProcessed, TypeOK
  <2>6. \A i \in Ids : applied'[i] \in Nat /\ (applied'[i] = applied[i]
                         \/ (i = Msg(s) /\ applied'[i] = applied[i] + 1))
    BY <1>4, <1>a, <2>4 DEF CommitProcessed, CommitAlreadyProcessed, TypeOK
  <2>7. MarkersAreUnique'
    BY <1>c, <2>1, <2>2, <2>3 DEF MarkersAreUnique, Msg, OrderId, Marked
  <2>8. KeepIsProcessed'
    <3> SUFFICES ASSUME NEW t \in Slots, pc'[t] \in {"keep", "processed"}
                 PROVE  status'[OrderId(t)] = "PROCESSED"
      BY <2>2 DEF KeepIsProcessed, OrderId, Msg
    <3>1. CASE t = s
      BY <3>1, <2>4, <2>5
    <3>2. CASE t # s
      BY <3>2, <1>b, <1>c, <2>1, <2>5 DEF KeepIsProcessed
    <3> QED  BY <3>1, <3>2
  <2>9. AppliedIsMarked'
    <3> SUFFICES ASSUME NEW i \in Ids
                 PROVE  applied'[i] <= 1 /\ (applied'[i] > 0 => i \in markers' \/ OrderOf[i] \notin orders')
      BY DEF AppliedIsMarked
    <3>1. CASE i = Msg(s)
      <4>1. applied[i] = 0
        BY <3>1, <1>a, <1>c, <2>3, <2>4 DEF AppliedIsMarked, TypeOK
      <4> QED  BY <3>1, <4>1, <2>2, <2>6
    <3>2. CASE i # Msg(s)
      BY <3>2, <1>c, <2>2, <2>6 DEF AppliedIsMarked
    <3> QED  BY <3>1, <3>2
  <2>10. MarkersMatchStatus'
    BY <1>a, <1>c, <2>2, <2>3, <2>4, <2>5 DEF MarkersMatchStatus, TypeOK
  <2> QED  BY <2>7, <2>8, <2>9, <2>10 DEF DbInv
<1>5. ASSUME NEW o \in Orders, DeleteOrder(o) PROVE DbInv'
  <2>1. /\ UNCHANGED <<slot, pc, status, applied>>
        /\ orders' = orders \ {o}
        /\ markers' = {i \in markers : OrderOf[i] # o}
        /\ \A s \in Slots : pc[s] \in Marked => OrderId(s) # o
    BY <1>5 DEF DeleteOrder
  <2>2. MarkersAreUnique' /\ KeepIsProcessed'
    BY <1>c, <2>1 DEF MarkersAreUnique, KeepIsProcessed, Msg, OrderId
  <2>3. AppliedIsMarked' /\ MarkersMatchStatus'
    BY <1>c, <2>1 DEF AppliedIsMarked, MarkersMatchStatus
  <2> QED  BY <2>2, <2>3 DEF DbInv
<1> QED  BY OutsideTransactions, <1>1, <1>2, <1>3, <1>4, <1>5

-----------------------------------------------------------------------------
(* What the broker has accepted.                                           *)

\* A handler only comes to its ack with the marker committed.
LEMMA AckStep ==
  ASSUME ChannelInv, AckIsSettled, [Next]_vars
  PROVE  AckIsSettled' /\ settled \subseteq settled'
<1> USE DEF dbVars, history, AckIsSettled, Msg
<1>a. TypeOK
  BY DEF ChannelInv
<1>1. ASSUME UNCHANGED <<markers, settled>>,
             \A t \in Slots : pc'[t] \in {"processed", "ack"} => pc'[t] = pc[t] /\ slot'[t] = slot[t]
      PROVE  AckIsSettled' /\ settled \subseteq settled'
  BY <1>1
<1>2. CASE \/ \E i \in Ids : PublishCreated(i)
           \/ \E m \in Messages : PublishByHand(m) \/ Expire(m)
  BY <1>2, <1>1 DEF PublishCreated, PublishByHand, Expire
<1>3. CASE \E s \in Slots, m \in Messages : Deliver(s, m)
  BY <1>3, <1>1, <1>a DEF Deliver, Goto, TypeOK
<1>4. ASSUME NEW s \in Slots,
             RejectMalformed(s) \/ RejectNull(s) \/ Acknowledge(s) \/ HandleError(s)
      PROVE  AckIsSettled' /\ settled \subseteq settled'
  <2>1. Ends(s)
    BY <1>4, HandlersEnd
  <2>2. UNCHANGED <<markers, settled>>
    BY <1>4 DEF RejectMalformed, RejectNull, Acknowledge, HandleError
  <2> QED  BY <2>1, <2>2, <1>1, <1>a DEF Ends, TypeOK
<1>5. ASSUME NEW s \in Slots, ReadOrder(s) \/ SaveOrder(s) \/ FailTransaction(s)
      PROVE  AckIsSettled' /\ settled \subseteq settled'
  BY <1>5, <1>1, <1>a DEF ReadOrder, SaveOrder, FailTransaction, Goto, TypeOK
<1>6. ASSUME NEW s \in Slots, InsertMarker(s)
      PROVE  AckIsSettled' /\ settled \subseteq settled'
  <2>1. UNCHANGED <<slot, markers, settled>>
    BY <1>6 DEF InsertMarker
  <2>2. \A t \in Slots : pc'[t] = (IF t = s THEN pc'[s] ELSE pc[t])
    BY <1>6, <1>a DEF InsertMarker, Goto, TypeOK
  <2>3. pc'[s] # "processed" /\ (pc'[s] = "ack" => slot[s].id \in markers)
    BY <1>6, <1>a DEF InsertMarker, Goto, DuplicateId, TypeOK
  <2> QED  BY <2>1, <2>2, <2>3
<1>7. ASSUME NEW s \in Slots, CommitProcessed(s) \/ CommitAlreadyProcessed(s)
      PROVE  AckIsSettled' /\ settled \subseteq settled'
  <2>1. /\ UNCHANGED slot
        /\ markers' = markers \cup {slot[s].id}
        /\ settled' = settled \cup {slot[s].id}
    BY <1>7 DEF CommitProcessed, CommitAlreadyProcessed, CommitMarker
  <2>2. \A t \in Slots : t # s => pc'[t] = pc[t]
    BY <1>7, <1>a DEF CommitProcessed, CommitAlreadyProcessed, Goto, TypeOK
  <2> QED  BY <2>1, <2>2
<1>8. CASE Receive
  BY <1>8, <1>1, <1>a DEF Receive, ReceivePublish, ReceiveAck, ReceiveNack, Free, Goto, TypeOK
<1>9. CASE CloseConnection \/ Crash \/ \E s \in Slots : DieOnClosedChannel(s)
  BY <1>9, <1>1, <1>a DEF CloseConnection, Crash, DieOnClosedChannel, Restart, TypeOK
<1>10. CASE \E o \in Orders : DeleteOrder(o)
  BY <1>10 DEF DeleteOrder
<1>11. CASE UNCHANGED vars
  BY <1>11 DEF vars
<1> QED
  BY <1>2, <1>3, <1>4, <1>5, <1>6, <1>7, <1>8, <1>9, <1>10, <1>11 DEF Next, Handle, Idle

\* What is in a queue stays there if no queue loses a copy.
LEMMA QueuedStays ==
  ASSUME TypeOK, TypeOK', NEW i, Queued(i),
         \A m \in Messages : process'[m] >= process[m],
         \A m \in Messages : retry'[m] >= retry[m],
         \A m \in Messages : dlq'[m] >= dlq[m]
  PROVE  Queued(i)'
<1>1. PICK m \in Messages : m.id = i /\ (process[m] > 0 \/ retry[m] > 0 \/ dlq[m] > 0)
  BY DEF Queued
<1>2. process'[m] > 0 \/ retry'[m] > 0 \/ dlq'[m] > 0
  BY <1>1 DEF TypeOK, Queues
<1> QED  BY <1>1, <1>2 DEF Queued

\* A step that leaves queues, channel and deliveries alone loses nothing.
LEMMA KeptStays ==
  ASSUME UNCHANGED <<queueVars, out, unacked, slot>>, settled \subseteq settled',
         NEW i, Kept(i)
  PROVE  Kept(i)'
<1>1. UNCHANGED <<process, retry, dlq, out, unacked, slot>>
  BY DEF queueVars
<1>2. Queued(i)' = Queued(i)
  BY <1>1 DEF Queued
<1>3. \A s \in unacked : Msg(s)' = Msg(s) /\ Holds(s)' = Holds(s)
  BY <1>1 DEF Holds, Msg, AckFrame
<1> QED  BY <1>1, <1>2, <1>3 DEF Kept

\* Frames written after it do not move a delivery's ack before its publish.
LEMMA HoldsGrown ==
  ASSUME ChannelInv, NEW n \in {1, 2}, Grown(n), NEW s \in Slots, slot'[s] = slot[s],
         Holds(s), \A k \in (Len(out) + 1)..(Len(out) + n) : out'[k] # AckFrame(s)
  PROVE  Holds(s)'
<1>1. Len(out) \in Nat /\ Len(out') = Len(out) + n /\ \A k \in 1..Len(out) : out'[k] = out[k]
  BY LenProperties DEF ChannelInv, TypeOK, Grown
<1> SUFFICES ASSUME NEW k \in 1..Len(out'), out'[k] = AckFrame(s)
             PROVE  \E j \in 1..(k - 1) : out'[j] \in Publishes /\ out'[j].msg.id = slot'[s].id
  BY DEF Holds, Msg, AckFrame, Publishes, Messages
<1>2. k \in 1..Len(out) /\ out[k] = AckFrame(s)
  BY <1>1
<1>3. PICK j \in 1..(k - 1) : out[j] \in Publishes /\ out[j].msg.id = Msg(s)
  BY <1>2 DEF Holds
<1>4. out'[j] = out[j]
  BY <1>1, <1>2, <1>3
<1> QED  BY <1>3, <1>4 DEF Msg

\* Taking a first frame that is not of its message, and not its own ack, does
\* not either.
LEMMA HoldsTail ==
  ASSUME ChannelInv, out # <<>>, out' = Tail(out), NEW s \in Slots, slot'[s] = slot[s],
         Holds(s), ~(Head(out) \in Publishes /\ Head(out).msg.id = Msg(s))
  PROVE  Holds(s)'
<1>1. /\ Head(out) = out[1] /\ Len(out) \in Nat \ {0}
      /\ Len(out') = Len(out) - 1
      /\ \A k \in 1..Len(out') : out'[k] = out[k + 1]
  BY TakeFirst DEF ChannelInv
<1> SUFFICES ASSUME NEW k \in 1..Len(out'), out'[k] = AckFrame(s)
             PROVE  \E j \in 1..(k - 1) : out'[j] \in Publishes /\ out'[j].msg.id = slot'[s].id
  BY DEF Holds, Msg, AckFrame, Publishes, Messages
<1>2. k + 1 \in 1..Len(out) /\ out[k + 1] = AckFrame(s)
  BY <1>1
<1>3. PICK j \in 1..k : out[j] \in Publishes /\ out[j].msg.id = Msg(s)
  BY <1>2 DEF Holds
<1>4. j # 1
  BY <1>1, <1>3
<1>5. j - 1 \in 1..(k - 1) /\ out'[j - 1] = out[j]
  BY <1>1, <1>3, <1>4
<1> QED  BY <1>3, <1>5 DEF Msg

\* The deliveries a lost connection had in hand are queued again.
LEMMA KeptOverLoss ==
  ASSUME ChannelInv, TypeOK', LoseConnection, UNCHANGED <<retry, dlq, settled>>, NEW i, Kept(i)
  PROVE  Kept(i)'
<1> DEFINE Back(m) == {s \in unacked : slot[s] = m}
<1>1. \A m \in Messages : IsFiniteSet(Back(m)) /\ Cardinality(Back(m)) \in Nat
  <2> SUFFICES ASSUME NEW m \in Messages
               PROVE  IsFiniteSet(Back(m)) /\ Cardinality(Back(m)) \in Nat
    OBVIOUS
  <2>1. Back(m) \in SUBSET Slots
    BY DEF ChannelInv, TypeOK
  <2>2. IsFiniteSet(Back(m))
    BY <2>1, SlotsAssumption, FS_Subset
  <2> QED  BY <2>2, FS_CardinalityType
<1>2. \A m \in Messages : process'[m] = process[m] + Cardinality(Back(m)) /\ process[m] \in Nat
  BY DEF LoseConnection, ChannelInv, TypeOK, Queues
<1>3. CASE i \in settled
  BY <1>3 DEF Kept
<1>4. CASE Queued(i)
  <2>1. /\ TypeOK
        /\ \A m \in Messages : retry'[m] >= retry[m] /\ dlq'[m] >= dlq[m]
    BY DEF ChannelInv, TypeOK, Queues
  <2>3. \A m \in Messages : process'[m] >= process[m]
    <3> HIDE DEF Back
    <3> QED  BY <1>1, <1>2
  <2>2. Queued(i)'
    BY <1>4, <2>1, <2>3, QueuedStays
  <2> QED  BY <2>2 DEF Kept
<1>5. ASSUME NEW s \in unacked, Msg(s) = i PROVE Kept(i)'
  <2>1. PICK m \in Messages : m = slot[s] /\ m.id = i
    BY <1>5 DEF ChannelInv, Deliveries, SlotsHold, TypeOK, Msg
  <2>2. Cardinality(Back(m)) # 0
    <3>1. s \in Back(m)
      BY <1>5, <2>1
    <3> QED  BY <1>1, <3>1, FS_EmptySet
  <2>3. process'[m] > 0
    <3> HIDE DEF Back
    <3> QED  BY <1>1, <1>2, <2>2
  <2>4. Queued(i)'
    BY <2>1, <2>3 DEF Queued
  <2> QED  BY <2>4 DEF Kept
<1> QED  BY <1>3, <1>4, <1>5 DEF Kept

\* A message written to the channel takes nothing away.
LEMMA SendsKept ==
  ASSUME ChannelInv, Sends, UNCHANGED <<queueVars, settled>>, NEW i, Kept(i)
  PROVE  Kept(i)'
<1> USE DEF queueVars
<1>1. Grown(1) /\ out'[Len(out) + 1] \in Publishes /\ UNCHANGED <<slot, unacked>> /\ Len(out) \in Nat
  BY LenProperties DEF Sends, ChannelInv, TypeOK
<1>2. CASE i \in settled \/ Queued(i)
  BY <1>2 DEF Kept, Queued
<1>3. ASSUME NEW s \in unacked, Msg(s) = i, Holds(s) PROVE Kept(i)'
  <2>1. s \in Slots
    BY DEF ChannelInv, TypeOK
  <2>2. \A k \in (Len(out) + 1)..(Len(out) + 1) : out'[k] # AckFrame(s)
    BY <1>1, <2>1, FramesDiffer DEF Answers
  <2>3. Holds(s)'
    BY <1>1, <1>3, <2>1, <2>2, HoldsGrown
  <2>4. Msg(s)' = i
    BY <1>1, <1>3 DEF Msg
  <2> QED  BY <1>1, <2>3, <2>4 DEF Kept
<1> QED  BY <1>2, <1>3 DEF Kept

\* Publish before ack on one channel, acks of committed messages only, and a
\* broker that requeues what it has no ack for.
LEMMA KeptStep ==
  ASSUME ChannelInv, LossInv, [Next]_vars
  PROVE  AcceptedIsKept'
<1>a. TypeOK /\ TypeOK'
  BY TypeStep DEF ChannelInv
<1>b. settled \subseteq settled'
  BY AckStep DEF LossInv
<1>c. ASSUME accepted' = accepted, \A i \in accepted : Kept(i) => Kept(i)' PROVE AcceptedIsKept'
  BY <1>c DEF LossInv, AcceptedIsKept
<1>d. ASSUME NEW i, i \in settled \/ Queued(i)' PROVE Kept(i)'
  BY <1>b, <1>d DEF Kept
<1>e. ASSUME NEW i, NEW s \in unacked', slot'[s].id = i, Holds(s)' PROVE Kept(i)'
  BY <1>e DEF Kept, Msg
<1>f. ASSUME NEW s \in unacked PROVE s \in Slots /\ pc[s] # "free" /\ slot[s] \in Messages
  BY <1>a DEF ChannelInv, Deliveries, SlotsHold, TypeOK
<1>g. \A m \in Messages : process[m] \in Nat /\ retry[m] \in Nat /\ dlq[m] \in Nat /\ m.id \in Ids
  BY <1>a DEF TypeOK, Queues, Messages
<1>h. /\ UNCHANGED retry => \A m \in Messages : retry'[m] >= retry[m]
      /\ UNCHANGED dlq => \A m \in Messages : dlq'[m] >= dlq[m]
  BY <1>g
<1> USE DEF queueVars, dbVars, history
<1>1. ASSUME UNCHANGED <<queueVars, out, unacked, slot, accepted>> PROVE AcceptedIsKept'
  BY <1>1, <1>b, <1>c, KeptStays
<1>2. ASSUME NEW i \in Ids, PublishCreated(i) PROVE AcceptedIsKept'
  BY <1>2, <1>a, <1>c, CreatedSends, SendsKept DEF PublishCreated
<1>3. ASSUME NEW m \in Messages, PublishByHand(m) PROVE AcceptedIsKept'
  <2>1. /\ \A n \in Messages : process'[n] >= process[n]
        /\ process'[m] > 0
        /\ UNCHANGED <<retry, dlq, out, unacked, slot>>
        /\ accepted' = accepted \cup {m.id}
    BY <1>3, <1>a, <1>g DEF PublishByHand, Add, TypeOK, Queues
  <2>2. ASSUME NEW j, Kept(j) PROVE Kept(j)'
    <3>1. CASE j \in settled
      BY <3>1, <1>d
    <3>2. CASE Queued(j)
      <4>1. Queued(j)'
        BY <3>2, <2>1, <1>a, <1>h, QueuedStays
      <4> QED  BY <4>1, <1>d
    <3>3. ASSUME NEW s \in unacked, Msg(s) = j, Holds(s) PROVE Kept(j)'
      <4>1. Holds(s)'
        BY <2>1, <3>3 DEF Holds, Msg, AckFrame, Publishes, Messages
      <4> QED  BY <1>e, <2>1, <3>3, <4>1 DEF Msg
    <3> QED  BY <2>2, <3>1, <3>2, <3>3 DEF Kept
  <2>3. Kept(m.id)'
    BY <2>1, <1>d DEF Queued
  <2> QED  BY <2>1, <2>2, <2>3 DEF LossInv, AcceptedIsKept
<1>4. ASSUME NEW m \in Messages, Expire(m) PROVE AcceptedIsKept'
  <2>1. /\ \A n \in Messages : n # m => process'[n] = process[n] /\ retry'[n] = retry[n]
        /\ process'[m] > 0
        /\ UNCHANGED <<dlq, out, unacked, slot, accepted>>
    BY <1>4, <1>a, <1>g DEF Expire, Add, Drop, TypeOK, Queues
  <2> SUFFICES ASSUME NEW j \in accepted, Kept(j) PROVE Kept(j)'
    BY <1>c, <2>1
  <2>2. CASE j \in settled
    BY <2>2, <1>d
  <2>3. CASE Queued(j)
    <3>1. PICK n \in Messages : n.id = j /\ (process[n] > 0 \/ retry[n] > 0 \/ dlq[n] > 0)
      BY <2>3 DEF Queued
    <3>2. process'[n] > 0 \/ retry'[n] > 0 \/ dlq'[n] > 0
      BY <2>1, <3>1
    <3> QED  BY <3>1, <3>2, <1>d DEF Queued
  <2>4. ASSUME NEW s \in unacked, Msg(s) = j, Holds(s) PROVE Kept(j)'
    <3>1. Holds(s)'
      BY <2>1, <2>4 DEF Holds, Msg, AckFrame, Publishes, Messages
    <3> QED  BY <1>e, <2>1, <2>4, <3>1 DEF Msg
  <2> QED  BY <2>2, <2>3, <2>4 DEF Kept
<1>5. ASSUME NEW s \in Slots, NEW m \in Messages, Deliver(s, m) PROVE AcceptedIsKept'
  <2>1. /\ \A n \in Messages : n # m => process'[n] = process[n]
        /\ \A t \in Slots : t # s => slot'[t] = slot[t]
        /\ slot'[s] = m /\ pc[s] = "free"
        /\ unacked' = unacked \cup {s}
        /\ UNCHANGED <<retry, dlq, out, accepted>>
    BY <1>5, <1>a DEF Deliver, Drop, TypeOK, Queues
  <2>2. Holds(s)'
    <3>1. \A k \in 1..Len(out) : out[k] # AckFrame(s)
      BY <2>1 DEF ChannelInv, AnswersAreDue, Answers
    <3> QED  BY <2>1, <3>1 DEF Holds, AckFrame
  <2> SUFFICES ASSUME NEW j \in accepted, Kept(j) PROVE Kept(j)'
    BY <1>c, <2>1
  <2>3. CASE j \in settled
    BY <2>3, <1>d
  <2>4. CASE Queued(j)
    <3>1. PICK n \in Messages : n.id = j /\ (process[n] > 0 \/ retry[n] > 0 \/ dlq[n] > 0)
      BY <2>4 DEF Queued
    <3>2. CASE n = m
      BY <1>e, <2>1, <2>2, <3>1, <3>2
    <3>3. CASE n # m
      BY <1>d, <2>1, <3>1, <3>3 DEF Queued
    <3> QED  BY <3>2, <3>3
  <2>5. ASSUME NEW t \in unacked, Msg(t) = j, Holds(t) PROVE Kept(j)'
    <3>1. t \in Slots /\ t # s /\ slot'[t] = slot[t]
      BY <1>f, <2>1
    <3>2. Holds(t)'
      BY <2>1, <2>5, <3>1 DEF Holds, Msg, AckFrame, Publishes, Messages
    <3> QED  BY <1>e, <2>1, <2>5, <3>1, <3>2 DEF Msg
  <2> QED  BY <2>3, <2>4, <2>5 DEF Kept
<1>6. ASSUME NEW s \in Slots,
             RejectMalformed(s) \/ RejectNull(s) \/ Acknowledge(s) \/ HandleError(s)
      PROVE  AcceptedIsKept'
  <2>1. UNCHANGED <<queueVars, slot, unacked, accepted>>
    BY <1>6 DEF RejectMalformed, RejectNull, Acknowledge, HandleError
  <2>2. Ends(s)
    BY <1>6, HandlersEnd
  <2>3. PICK n \in {1, 2} :
          /\ Grown(n)
          /\ out'[Len(out) + n] \in Answers(s)
          /\ n = 2 => out'[Len(out) + 1] \in Publishes /\ out'[Len(out) + 1].msg.id = Msg(s)
          /\ n = 1 /\ out'[Len(out) + n] = AckFrame(s) => pc[s] \in {"processed", "ack"}
    BY <2>2 DEF Ends
  <2>4. /\ Len(out) \in Nat /\ Len(out') = Len(out) + n
        /\ \A k \in 1..Len(out) : out'[k] = out[k]
    BY <1>a, <2>3, LenProperties DEF TypeOK, Grown
  <2>5. \A k \in 1..Len(out) : out[k] # AckFrame(s)
    BY <2>2 DEF ChannelInv, AnswersAreDue, Answers, Ends, Running
  <2> SUFFICES ASSUME NEW j \in accepted, Kept(j) PROVE Kept(j)'
    BY <1>c, <2>1
  <2>6. CASE j \in settled \/ Queued(j)
    BY <2>6, <2>1, <1>d DEF Queued
  <2>7. ASSUME NEW t \in unacked, Msg(t) = j, Holds(t), t # s PROVE Kept(j)'
    <3>1. \A k \in (Len(out) + 1)..(Len(out) + n) : out'[k] # AckFrame(t)
      <4>1. AckFrame(t) \notin Answers(s) /\ AckFrame(t) \notin Publishes
        BY <1>f, <2>7, FramesDiffer DEF Answers
      <4>2. \A k \in (Len(out) + 1)..(Len(out) + n) :
              k = Len(out) + n \/ (n = 2 /\ k = Len(out) + 1)
        BY <2>4
      <4> QED  BY <2>3, <4>1, <4>2
    <3>2. Holds(t)'
      BY <1>f, <2>1, <2>3, <2>7, <3>1, HoldsGrown
    <3> QED  BY <1>e, <2>1, <2>7, <3>2 DEF Msg
  <2>8. ASSUME s \in unacked, Msg(s) = j PROVE Kept(j)'
    <3>1. CASE n = 2
      <4>1. \A k \in 1..Len(out') : out'[k] = AckFrame(s) => k = Len(out) + 2
        BY <2>3, <2>4, <2>5, <3>1, FramesDiffer DEF Answers
      <4>2. /\ out'[Len(out) + 1] \in Publishes /\ out'[Len(out) + 1].msg.id = slot'[s].id
            /\ Len(out) + 1 \in 1..((Len(out) + 2) - 1)
        BY <2>1, <2>3, <2>4, <3>1 DEF Msg
      <4>3. Holds(s)'
        <5> SUFFICES ASSUME NEW k \in 1..Len(out'), out'[k] = AckFrame(s)
                     PROVE  \E l \in 1..(k - 1) :
                              out'[l] \in Publishes /\ out'[l].msg.id = slot'[s].id
          BY DEF Holds, Msg, AckFrame, Publishes, Messages
        <5> QED  BY <4>1, <4>2
      <4> QED  BY <1>e, <2>1, <2>8, <4>3 DEF Msg
    <3>2. CASE n = 1 /\ out'[Len(out) + 1] = AckFrame(s)
      BY <1>d, <2>3, <2>8, <3>2 DEF LossInv, AckIsSettled
    <3>3. CASE n = 1 /\ out'[Len(out) + 1] # AckFrame(s)
      <4>1. \A k \in 1..Len(out') : out'[k] # AckFrame(s)
        BY <2>4, <2>5, <3>3
      <4>2. Holds(s)'
        BY <4>1 DEF Holds, AckFrame
      <4> QED  BY <1>e, <2>1, <2>8, <4>2 DEF Msg
    <3> QED  BY <3>1, <3>2, <3>3
  <2> QED  BY <2>6, <2>7, <2>8 DEF Kept
<1>7. ASSUME NEW s \in Slots,
             \/ InsertMarker(s) \/ ReadOrder(s) \/ SaveOrder(s)
             \/ CommitProcessed(s) \/ CommitAlreadyProcessed(s) \/ FailTransaction(s)
      PROVE  AcceptedIsKept'
  <2>1. UNCHANGED accepted
    BY <1>7 DEF InsertMarker, ReadOrder, SaveOrder, CommitProcessed, CommitAlreadyProcessed,
       FailTransaction
  <2> QED  BY <1>1, <1>7, <2>1, HandlersGoOn DEF GoesOn
<1>8. CASE ReceivePublish
  <2>0. Head(out) \in Publishes /\ out # <<>> /\ out' = Tail(out)
    BY <1>8, <1>a, TakeFirst, FrameKinds DEF ReceivePublish
  <2> PICK f \in Publishes : f = Head(out)
    BY <2>0
  <2>1. f.msg \in Messages /\ f.queue \in {"process", "retry", "dlq"}
    BY DEF Publishes
  <2>2. /\ \A m \in Messages : process'[m] >= process[m] /\ retry'[m] >= retry[m] /\ dlq'[m] >= dlq[m]
        /\ process'[f.msg] > 0 \/ retry'[f.msg] > 0 \/ dlq'[f.msg] > 0
    BY <1>8, <1>a, <1>g, <2>1 DEF ReceivePublish, Add, TypeOK, Queues
  <2>3. Queued(f.msg.id)'
    BY <2>1, <2>2 DEF Queued
  <2>4. /\ UNCHANGED <<slot, unacked>>
        /\ accepted' = accepted \/ accepted' = accepted \cup {f.msg.id}
    BY <1>8 DEF ReceivePublish
  <2>5. ASSUME NEW j, Kept(j), j # f.msg.id PROVE Kept(j)'
    <3>1. CASE j \in settled
      BY <3>1, <1>d
    <3>2. CASE Queued(j)
      <4>1. Queued(j)'
        BY <3>2, <2>2, <1>a, QueuedStays
      <4> QED  BY <4>1, <1>d
    <3>3. ASSUME NEW s \in unacked, Msg(s) = j, Holds(s) PROVE Kept(j)'
      <4>1. Holds(s)'
        BY <1>f, <2>0, <2>4, <2>5, <3>3, HoldsTail
      <4> QED  BY <1>e, <2>4, <3>3, <4>1 DEF Msg
    <3> QED  BY <2>5, <3>1, <3>2, <3>3 DEF Kept
  <2>6. Kept(f.msg.id)'
    BY <2>3, <1>d
  <2> QED  BY <2>4, <2>5, <2>6 DEF LossInv, AcceptedIsKept
<1>9. CASE ReceiveAck \/ ReceiveNack
  <2> DEFINE s == Head(out).slot
  <2>1. /\ out # <<>> /\ out' = Tail(out) /\ Head(out) = out[1] /\ 1 \in 1..Len(out)
        /\ Head(out) \in Frames /\ s \in Slots
        /\ Head(out) \notin Publishes
    BY <1>9, <1>a, TakeFirst, FrameKinds DEF ReceiveAck, ReceiveNack
  <2>2. /\ UNCHANGED <<retry, dlq, accepted>>
        /\ unacked' = unacked \ {s}
        /\ \A t \in Slots : t # s => slot'[t] = slot[t]
    BY <1>9, <1>a, <2>1 DEF ReceiveAck, ReceiveNack, Free, TypeOK
  <2>3. \A m \in Messages : process'[m] >= process[m]
    <3>1. CASE ReceiveAck
      BY <3>1, <1>g DEF ReceiveAck
    <3>2. CASE ReceiveNack
      BY <3>2, <1>a, <1>g DEF ReceiveNack, Add, TypeOK, Queues
    <3> QED  BY <1>9, <3>1, <3>2
  <2> SUFFICES ASSUME NEW j \in accepted, Kept(j) PROVE Kept(j)'
    BY <1>c, <2>2
  <2>4. CASE j \in settled
    BY <2>4, <1>d
  <2>5. CASE Queued(j)
    <3>1. Queued(j)'
      BY <2>2, <2>3, <2>5, <1>a, <1>h, QueuedStays
    <3> QED  BY <3>1, <1>d
  <2>6. ASSUME NEW t \in unacked, Msg(t) = j, Holds(t), t # s PROVE Kept(j)'
    <3>1. t \in Slots /\ slot'[t] = slot[t]
      BY <1>f, <2>2, <2>6
    <3>2. Holds(t)'
      BY <2>1, <2>6, <3>1, HoldsTail
    <3> QED  BY <1>e, <2>2, <2>6, <3>1, <3>2 DEF Msg
  <2>7. ASSUME s \in unacked, Msg(s) = j, Holds(s) PROVE Kept(j)'
    <3>1. CASE ReceiveAck
      <4>1. out[1] = AckFrame(s)
        BY <2>1, <3>1, FrameKinds DEF ReceiveAck
      <4>2. \E l \in 1..(1 - 1) : out[l] \in Publishes
        BY <2>1, <2>7, <4>1 DEF Holds
      <4> QED  BY <4>2
    <3>2. CASE ReceiveNack
      <4>1. slot[s] \in Messages /\ slot[s].id = j
        BY <1>f, <2>7 DEF Msg
      <4>2. process'[slot[s]] > 0
        BY <3>2, <4>1, <1>a, <1>g DEF ReceiveNack, Add, TypeOK, Queues
      <4>3. Queued(j)'
        BY <4>1, <4>2 DEF Queued
      <4> QED  BY <4>3, <1>d
    <3> QED  BY <1>9, <3>1, <3>2
  <2> QED  BY <2>4, <2>5, <2>6, <2>7 DEF Kept
<1>10. CASE CloseConnection \/ Crash \/ \E s \in Slots : DieOnClosedChannel(s)
  <2>1. LoseConnection /\ UNCHANGED <<retry, dlq, settled, accepted>>
    BY <1>10 DEF CloseConnection, Crash, DieOnClosedChannel, Restart
  <2> QED  BY <1>a, <1>c, <2>1, KeptOverLoss
<1>11. ASSUME NEW o \in Orders, DeleteOrder(o) PROVE AcceptedIsKept'
  BY <1>1, <1>11 DEF DeleteOrder
<1>12. CASE UNCHANGED vars
  BY <1>1, <1>12 DEF vars
<1> QED
  BY <1>2, <1>3, <1>4, <1>5, <1>6, <1>7, <1>8, <1>9, <1>10, <1>11, <1>12
  DEF Next, Handle, Receive, Idle

-----------------------------------------------------------------------------
(* The theorems.                                                           *)

\* The specification starts in the invariant: empty queues, free slots.
LEMMA InitIInv == Init => IInv
<1> SUFFICES ASSUME Init PROVE IInv  OBVIOUS
<1>1. TypeOK
  <2>1. process \in Queues /\ retry \in Queues /\ dlq \in Queues
    BY DEF Init, Queues
  <2>2. budget \in [Kinds -> Nat]
    BY BoundsAssumption DEF Init, Kinds
  <2> QED  BY <2>1, <2>2 DEF Init, TypeOK, HandlerSteps
<1>2. SlotsHold /\ Deliveries /\ SentIsAnswered
  BY DEF Init, SlotsHold, Deliveries, SentIsAnswered
<1>3. AnswersAreDue /\ FramesAreBounded
  BY DEF Init, AnswersAreDue, FramesAreBounded
<1>4. RetriesAreBounded
  BY DEF Init, RetriesAreBounded
<1>5. DbInv
  BY DEF Init, DbInv, MarkersAreUnique, KeepIsProcessed, AppliedIsMarked, MarkersMatchStatus,
     Marked
<1>6. LossInv
  BY DEF Init, LossInv, AckIsSettled, AcceptedIsKept
<1> QED  BY <1>1, <1>2, <1>3, <1>4, <1>5, <1>6 DEF IInv, ChannelInv, RetryInv

\* The invariant is inductive.
LEMMA MessagingInvariant == Spec => []IInv
<1>1. IInv /\ [Next]_vars => IInv'
  BY ChannelStep, RetryStep, DbStep, AckStep, KeptStep DEF IInv, LossInv
<1> QED  BY InitIInv, <1>1, PTL DEF Spec

\* Queues, deliveries, frames and rows keep their types; no queue is asked for a
\* message it has not got, and every nack names a delivery that is there.
THEOREM TypeCorrect == Spec => []TypeOK
BY MessagingInvariant, PTL DEF IInv, ChannelInv

\* handleMessage publishes before it acks, on one channel: no message the broker
\* accepted is lost, at any crash or closed connection.
THEOREM NothingLost == Spec => []NoMessageLost
<1>1. IInv => NoMessageLost
  BY DEF IInv, LossInv, AcceptedIsKept, Kept, NoMessageLost
<1> QED  BY MessagingInvariant, <1>1, PTL

\* processed_messages makes processOrderMessage idempotent.
THEOREM AtMostOnce == Spec => []AppliedOnce
<1>1. IInv => AppliedOnce
  BY DEF IInv, DbInv, AppliedIsMarked, AppliedOnce
<1> QED  BY MessagingInvariant, <1>1, PTL

\* Marker and status are committed together, and deleted together.
THEOREM MarkedIffProcessed == Spec => []MarkersMatchStatus
BY MessagingInvariant, PTL DEF IInv, DbInv

\* ORDERS_MAX_ATTEMPTS bounds what is retried, and orders.dlq gets nothing else
\* than what was given up.
THEOREM AttemptsBounded == Spec => []RetriesAreBounded
BY MessagingInvariant, PTL DEF IInv, RetryInv

\* No delivery is left without an answer by a handler that has ended.
THEOREM AllAnswered == Spec => []DeliveriesAreAnswered
<1>1. IInv => DeliveriesAreAnswered
  BY DEF IInv, ChannelInv, Deliveries, SentIsAnswered, Answers, DeliveriesAreAnswered, TypeOK
<1> QED  BY MessagingInvariant, <1>1, PTL
=============================================================================
