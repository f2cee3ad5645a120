-------------------------- MODULE OrderFlow_proofs --------------------------
(***************************************************************************)
(* The composed system of OrderFlow: its requests only place orders and    *)
(* write to the channel, so what is proved of the messages in              *)
(* OrderMessaging carries over, and the events follow the commits.         *)
(***************************************************************************)
EXTENDS OrderFlow, OrderMessaging_proofs

USE MessagesAssumption

\* What create() adds to the steps of OrderMessaging.
Adds == (\E o \in Orders : Place(o)) \/ \E i \in Ids : PublishPlaced(i)

\* Every other step of the composed system is one of OrderMessaging.
LEMMA FlowStep == [FlowNext]_allVars => [Next]_vars \/ Adds
<1> SUFFICES ASSUME [FlowNext]_allVars PROVE [Next]_vars \/ Adds
  OBVIOUS
<1>1. CASE UNCHANGED allVars
  BY <1>1 DEF allVars
<1>2. CASE \E o \in Orders : Place(o) \/ FlowDelete(o)
  BY <1>2 DEF Adds, FlowDelete, Next
<1>3. CASE \E i \in Ids : CreateGoesOn(i)
  BY <1>3 DEF Adds, CreateGoesOn, FailToPublish
<1>4. CASE \/ \E m \in Messages : Expire(m) /\ UNCHANGED flowVars
           \/ \E s \in Slots, m \in Messages : Deliver(s, m) /\ UNCHANGED flowVars
  BY <1>4 DEF Next
<1>5. CASE \E s \in Slots :
             Work(s) \/ (FailTransaction(s) /\ UNCHANGED flowVars) \/ FlowDieOnClosedChannel(s)
  BY <1>5 DEF Next, Handle, Work, FlowDieOnClosedChannel
<1>6. CASE (Receive /\ UNCHANGED flowVars) \/ FlowClose \/ FlowCrash
  BY <1>6 DEF Next, FlowClose, FlowCrash
<1> QED  BY <1>1, <1>2, <1>3, <1>4, <1>5, <1>6 DEF FlowNext

\* No step takes a PROCESSED status back, a rollback included: it is written
\* only by the commit.
LEMMA ProcessedStays ==
  ASSUME ChannelInv, [Next]_vars \/ Adds, NEW o \in Orders, status[o] = "PROCESSED"
  PROVE  status'[o] = "PROCESSED"
<1> USE DEF dbVars
<1>1. CASE Adds
  BY <1>1 DEF Adds, Place, PublishPlaced
<1>2. CASE [Next]_vars
  <2>1. CASE UNCHANGED status
    BY <2>1
  <2>2. CASE \E s \in Slots : CommitProcessed(s)
    BY <2>2 DEF CommitProcessed, ChannelInv, TypeOK
  <2> QED
    BY <1>2, <2>1, <2>2, OutsideTransactions
    DEF InsertMarker, ReadOrder, SaveOrder, CommitAlreadyProcessed, DeleteOrder
<1> QED  BY <1>1, <1>2

\* The handlers between commit and event.
CommittedIsProcessed ==
  \A s \in Slots : pc[s] = "processed" => status[OrderId(s)] = "PROCESSED"

FlowInv ==
  /\ ChannelInv /\ RetryInv /\ LossInv
  /\ announced \subseteq Orders
  /\ CommittedIsProcessed /\ AnnouncedIsProcessed

\* Placing an order, or writing its message, keeps what OrderMessaging keeps.
LEMMA AddsStep ==
  ASSUME ChannelInv, RetryInv, LossInv, Adds
  PROVE  ChannelInv' /\ RetryInv' /\ LossInv'
<1> USE DEF queueVars, dbVars, history
<1>a. TypeOK
  BY DEF ChannelInv
<1>1. ASSUME NEW o \in Orders, Place(o) PROVE ChannelInv' /\ RetryInv' /\ LossInv'
  <2>1. TypeOK' /\ SameChannel
    BY <1>1, <1>a DEF Place, TypeOK, SameChannel
  <2>2. ChannelInv'
    BY <2>1, SameChannelStep
  <2>3. RetryInv'
    BY <1>1 DEF Place, RetryInv, FramesAreBounded, RetriesAreBounded, Bounded
  <2>4. AckIsSettled'
    BY <1>1 DEF Place, LossInv, AckIsSettled, Msg
  <2>5. AcceptedIsKept'
    BY <1>1, KeptStays DEF Place, LossInv, AcceptedIsKept
  <2> QED  BY <2>2, <2>3, <2>4, <2>5 DEF LossInv
<1>2. ASSUME NEW i \in Ids, PublishPlaced(i) PROVE ChannelInv' /\ RetryInv' /\ LossInv'
  <2>1. Sends /\ conn = "open" /\ out'[Len(out) + 1].queue = "process"
    BY <1>2, <1>a, CreatedSends DEF PublishPlaced
  <2>2. TypeOK'
    BY <1>2, <1>a, <2>1 DEF PublishPlaced, Sends, Grown, TypeOK
  <2>3. ChannelInv' /\ RetryInv'
    BY <1>2, <2>1, <2>2, SendsStep, SendsBounded DEF PublishPlaced
  <2>4. AckIsSettled'
    BY <1>2 DEF PublishPlaced, LossInv, AckIsSettled, Msg
  <2>5. AcceptedIsKept'
    BY <1>2, <2>1, SendsKept DEF PublishPlaced, LossInv, AcceptedIsKept
  <2> QED  BY <2>3, <2>4, <2>5 DEF LossInv
<1> QED  BY <1>1, <1>2 DEF Adds

\* A handler comes to its event only through the commit.
LEMMA CommittedStep ==
  ASSUME ChannelInv, CommittedIsProcessed, [Next]_vars \/ Adds
  PROVE  CommittedIsProcessed'
<1>a. TypeOK
  BY DEF ChannelInv
<1>b. \A s \in Slots : pc[s] # "free" => OrderId(s) \in Orders
  BY DEF ChannelInv, SlotsHold, OrderId, Msg, Messages
<1>c. ASSUME \A s \in Slots : pc'[s] = "processed" => pc[s] = "processed" /\ slot'[s] = slot[s]
      PROVE  CommittedIsProcessed'
  <2> SUFFICES ASSUME NEW s \in Slots, pc'[s] = "processed"
               PROVE  status'[OrderOf[slot'[s].id]] = "PROCESSED"
    BY DEF CommittedIsProcessed, OrderId, Msg
  <2>1. pc[s] = "processed" /\ slot'[s] = slot[s]
    BY <1>c
  <2>2. status[OrderId(s)] = "PROCESSED" /\ OrderId(s) \in Orders
    BY <1>b, <2>1 DEF CommittedIsProcessed
  <2>3. status'[OrderId(s)] = "PROCESSED"
    BY <2>2, ProcessedStays
  <2> QED  BY <2>1, <2>3 DEF OrderId, Msg
<1>1. CASE Adds
  BY <1>1, <1>c DEF Adds, Place, PublishPlaced
<1>2. CASE UNCHANGED <<dbVars, applied>> /\ NoneEnters
  BY <1>2, <1>c DEF NoneEnters, InTransaction
<1>3. ASSUME NEW s \in Slots,
             InsertMarker(s) \/ ReadOrder(s) \/ SaveOrder(s) \/ CommitAlreadyProcessed(s)
      PROVE  CommittedIsProcessed'
  BY <1>3, <1>a, <1>c DEF InsertMarker, ReadOrder, SaveOrder, CommitAlreadyProcessed, Goto, TypeOK
<1>4. ASSUME NEW s \in Slots, CommitProcessed(s) PROVE CommittedIsProcessed'
  <2>1. /\ UNCHANGED slot
        /\ status'[OrderId(s)] = "PROCESSED"
        /\ \A t \in Slots : t # s => pc'[t] = pc[t]
    BY <1>4, <1>a, <1>b DEF CommitProcessed, Goto, TypeOK
  <2> SUFFICES ASSUME NEW t \in Slots, pc'[t] = "processed"
               PROVE  status'[OrderId(t)] = "PROCESSED"
    BY <2>1 DEF CommittedIsProcessed, OrderId, Msg
  <2>2. CASE t = s
    BY <2>1, <2>2
  <2>3. CASE t # s
    BY <2>1, <2>3, <1>b, ProcessedStays DEF CommittedIsProcessed
  <2> QED  BY <2>2, <2>3
<1>5. CASE \E o \in Orders : DeleteOrder(o)
  BY <1>5, <1>c DEF DeleteOrder
<1> QED  BY <1>1, <1>2, <1>3, <1>4, <1>5, OutsideTransactions

\* The invariant is inductive in the composed system.
LEMMA FlowInvariant == FlowSpec => []FlowInv
<1>1. FlowInit => FlowInv
  BY InitIInv DEF FlowInit, Init, IInv, FlowInv, CommittedIsProcessed, AnnouncedIsProcessed
<1>2. FlowInv /\ [FlowNext]_allVars => FlowInv'
  <2> SUFFICES ASSUME FlowInv, [FlowNext]_allVars PROVE FlowInv'
    OBVIOUS
  <2>1. [Next]_vars \/ Adds
    BY FlowStep
  <2>2. ChannelInv' /\ RetryInv' /\ LossInv'
    BY <2>1, ChannelStep, RetryStep, AckStep, KeptStep, AddsStep DEF FlowInv, LossInv
  <2>3. CommittedIsProcessed'
    BY <2>1, CommittedStep DEF FlowInv
  <2>4. ASSUME NEW o \in announced PROVE o \in Orders /\ status'[o] = "PROCESSED"
    BY <2>1, ProcessedStays DEF FlowInv, AnnouncedIsProcessed
  <2>5. ASSUME NEW s \in Slots, NEW o \in StatusChanged(s)
        PROVE  o \in Orders /\ status'[o] = "PROCESSED"
    <3>1. pc[s] = "processed" /\ o = OrderId(s)
      BY DEF StatusChanged
    <3>2. o \in Orders /\ status[o] = "PROCESSED"
      BY <3>1 DEF FlowInv, CommittedIsProcessed, ChannelInv, SlotsHold, OrderId, Msg, Messages
    <3> QED  BY <2>1, <3>2, ProcessedStays DEF FlowInv
  <2>6. \/ announced' = announced
        \/ \E s \in Slots : announced' = announced \cup StatusChanged(s)
    BY DEF FlowNext, allVars, flowVars, Place, FlowDelete, CreateGoesOn, PublishPlaced, FailToPublish,
       Work, FlowDieOnClosedChannel, FlowClose, FlowCrash
  <2>7. announced' \subseteq Orders /\ AnnouncedIsProcessed'
    BY <2>4, <2>5, <2>6 DEF AnnouncedIsProcessed
  <2> QED  BY <2>2, <2>3, <2>7 DEF FlowInv
<1> QED  BY <1>1, <1>2, PTL DEF FlowSpec

\* publishStatusChanged follows the commit: an event of the status PROCESSED is
\* never of a change that is rolled back.
THEOREM EventsFollowCommits == FlowSpec => []AnnouncedIsProcessed
BY FlowInvariant, PTL DEF FlowInv

\* The message create() has sent is not lost either, once the broker has it.
THEOREM NothingLostInFlow == FlowSpec => []NoMessageLost
<1>1. FlowInv => NoMessageLost
  BY DEF FlowInv, LossInv, AcceptedIsKept, Kept, NoMessageLost
<1> QED  BY FlowInvariant, <1>1, PTL
=============================================================================
