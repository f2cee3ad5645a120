-------------------------- MODULE Payments_proofs --------------------------
(***************************************************************************)
(* Proofs about Payments, for every set of calls, bodies, keys and uuids,  *)
(* every number of retries, dropped connections and restarts.              *)
(***************************************************************************)
EXTENDS Payments, FiniteSetTheorems, TLAPS

\* The attempts that are left: a call that is about to send has one to spend,
\* and only orders with a positive total get as far as the server.
Underway ==
  /\ \A c \in Calls : pc[c] \in {"start", "send", "backoff"} => attempt[c] <= MaxRetries
  /\ \A c \in Calls : pc[c] \in {"send", "wait", "backoff"} => input[c].order \in OrderIds
  /\ \A q \in requests : input[q.call].order \in OrderIds

\* A uuid that was not drawn names no payment.
UnusedIsAbsent == \A p \in PaymentIds : maker[p] = Nobody => status[p] = "none"

\* By the makers in by, payment p was made for the request of call c, or for one
\* with its key.
MadeFor(by, c, p) ==
  /\ by[p] \in Calls
  /\ by[p] = c \/ (input[by[p]].key = input[c].key /\ input[c].key # NoKey)

\* What is stored under a key was made for that key.
StoredIsOwn ==
  \A k \in Keys : authorizeResults[k] # Nobody =>
    maker[authorizeResults[k]] \in Calls /\ input[maker[authorizeResults[k]]].key = k

\* A reply on its way to a caller is a payment the caller may be given.
RepliesArePayments ==
  \A c \in Calls : reply[c] \in PaymentIds => MadeFor(maker, c, reply[c])

\* Each life of the process makes at most one payment for a key, and then keeps
\* it in authorizeResults.
CountedPerKey ==
  \A k \in Keys :
    /\ IsFiniteSet(PaymentsMadeFor(k))
    /\ Cardinality(PaymentsMadeFor(k))
         <= restarts + (IF authorizeResults[k] = Nobody THEN 0 ELSE 1)

IInv ==
  /\ TypeOK /\ Underway /\ UnusedIsAbsent
  /\ StoredIsOwn /\ RepliesArePayments /\ AnswersArePayments
  /\ CountedPerKey

USE NamesAssumption

-----------------------------------------------------------------------------
\* A uuid is drawn from those not drawn before.
LEMMA DrawsUnused ==
  ASSUME Unused # {}
  PROVE  RandomUUID \in PaymentIds /\ maker[RandomUUID] = Nobody
BY DEF Unused, RandomUUID

\* A stored result is a payment id.
LEMMA StoredType ==
  ASSUME TypeOK, NEW k \in Keys \cup {NoKey}, NEW p \in Stored(k)
  PROVE  k \in Keys /\ p = authorizeResults[k] /\ p \in PaymentIds /\ p # Nobody
BY DEF TypeOK, Stored

\* A call carries a key or none.
LEMMA KeyType ==
  ASSUME TypeOK, NEW c \in Calls
  PROVE  /\ input[c].key \in Keys \cup {NoKey}
         /\ input[c].order \in OrderIds \cup EmptyOrders \cup {NoOrder}
BY DEF TypeOK, CallInput

\* The specification starts in the invariant: no payment was made.
LEMMA InitIInv == Init => IInv
<1> SUFFICES ASSUME Init PROVE IInv  OBVIOUS
<1>1. TypeOK
  BY InputsAssumption, BoundsAssumption
  DEF Init, TypeOK, Steps, Statuses, OpOutcomes
<1>2. Underway /\ UnusedIsAbsent /\ StoredIsOwn
  BY BoundsAssumption DEF Init, Underway, UnusedIsAbsent, StoredIsOwn
<1>3. RepliesArePayments /\ AnswersArePayments
  BY DEF Init, RepliesArePayments, AnswersArePayments
<1>4. CountedPerKey
  <2> SUFFICES ASSUME NEW k \in Keys
               PROVE  /\ IsFiniteSet(PaymentsMadeFor(k))
                      /\ Cardinality(PaymentsMadeFor(k)) <= restarts
               BY DEF Init, CountedPerKey
  <2>1. PaymentsMadeFor(k) = {}
    BY DEF Init, PaymentsMadeFor
  <2> QED  BY <2>1, FS_EmptySet DEF Init
<1> QED  BY <1>1, <1>2, <1>3, <1>4 DEF IInv

\* Every step keeps the types and the attempts within the retry limit.
LEMMA TypeStep == TypeOK /\ Underway /\ [Next]_vars => TypeOK' /\ Underway'
<1> SUFFICES ASSUME TypeOK, Underway, [Next]_vars PROVE TypeOK' /\ Underway'
  OBVIOUS
<1> USE BoundsAssumption
    DEF TypeOK, Underway, clientVars, paymentVars, resultVars, boundVars, Goto, Finish, Steps
<1>1. ASSUME NEW c \in Calls, Begin(c) PROVE TypeOK' /\ Underway'
  BY <1>1 DEF Begin, Errors
<1>2. ASSUME NEW c \in Calls, Send(c) PROVE TypeOK' /\ Underway'
  <2>1. CASE c \in expired
    BY <1>2, <2>1 DEF Send, Errors
  <2>2. CASE c \notin expired
    BY <1>2, <2>2 DEF Send
  <2> QED  BY <2>1, <2>2
<1>3. ASSUME NEW c \in Calls, TakeReply(c) PROVE TypeOK' /\ Underway'
  BY <1>3 DEF TakeReply, RetryOrFail, MayRetry, Errors
<1>4. ASSUME NEW c \in Calls, DropConnection(c) PROVE TypeOK' /\ Underway'
  BY <1>4 DEF DropConnection, RetryOrFail, MayRetry, Errors
<1>5. ASSUME NEW c \in Calls, BackoffEnds(c) PROVE TypeOK' /\ Underway'
  BY <1>5 DEF BackoffEnds
<1>6. ASSUME NEW c \in Calls, DeadlinePasses(c) PROVE TypeOK' /\ Underway'
  BY <1>6 DEF DeadlinePasses, Errors
<1>7. ASSUME NEW q \in requests, LoseRequest(q) PROVE TypeOK' /\ Underway'
  BY <1>7 DEF LoseRequest
<1>8. ASSUME NEW q \in requests, Authorize(q) PROVE TypeOK' /\ Underway'
  <2> DEFINE c == q.call
             k == input[c].key
  <2>1. c \in Calls /\ input[c].order \in OrderIds
    OBVIOUS
  <2>2. k \in Keys \cup {NoKey}
    BY <2>1, KeyType
  <2>3. CASE FailsTransient(c)
    BY <1>8, <2>1, <2>3 DEF Authorize, ReplyTo
  <2>4. CASE ~FailsTransient(c) /\ \E p \in Stored(k) : ReplyTo(q, p)
    <3>1. PICK p \in Stored(k) : ReplyTo(q, p)  BY <2>4
    <3>2. p \in PaymentIds  BY <2>2, StoredType
    <3>3. CASE UNCHANGED <<paymentVars, authorizeResults, gate>>
      BY <1>8, <2>1, <3>1, <3>2, <3>3 DEF Authorize, ReplyTo
    <3>4. CASE Stored(k) = {}
      BY <3>4
    <3> QED  BY <1>8, <2>4, <3>3, <3>4 DEF Authorize
  <2>5. CASE ~FailsTransient(c) /\ ~\E p \in Stored(k) : ReplyTo(q, p)
    BY <1>8, <2>1, <2>2, <2>5, DrawsUnused DEF Authorize, ReplyTo, Statuses
  <2> QED  BY <2>3, <2>4, <2>5
<1>9. ASSUME NEW p \in PaymentIds, NEW k \in Keys \cup {NoKey}, Capture(p, k)
      PROVE  TypeOK' /\ Underway'
  BY <1>9 DEF Capture, Persist, CaptureOutcome, OpOutcomes, Statuses
<1>10. ASSUME NEW p \in PaymentIds, NEW k \in Keys \cup {NoKey}, Refund(p, k)
      PROVE  TypeOK' /\ Underway'
  BY <1>10 DEF Refund, Persist, RefundOutcome, OpOutcomes, Statuses
<1>11. CASE Restart
  BY <1>11 DEF Restart, Statuses, OpOutcomes
<1>12. CASE UNCHANGED vars
  BY <1>12 DEF vars
<1> QED
  BY <1>1, <1>2, <1>3, <1>4, <1>5, <1>6, <1>7, <1>8, <1>9, <1>10, <1>11, <1>12
  DEF Next, Proceed, Finished

\* A payment, once made, keeps its maker, also over a restart; only the server
\* makes one, and for the request it handles.
LEMMA MakerStep ==
  ASSUME TypeOK, [Next]_vars
  PROVE  /\ input' = input
         /\ \A p \in PaymentIds : maker[p] # Nobody => maker'[p] = maker[p]
<1> USE DEF TypeOK, clientVars, paymentVars, resultVars, boundVars
<1>1. CASE \E c \in Calls : Begin(c) \/ Proceed(c) \/ DropConnection(c)
  BY <1>1 DEF Begin, Proceed, Send, TakeReply, BackoffEnds, DeadlinePasses, DropConnection
<1>2. ASSUME NEW q \in requests, Authorize(q)
      PROVE  /\ input' = input
             /\ \A p \in PaymentIds : maker[p] # Nobody => maker'[p] = maker[p]
  BY <1>2, DrawsUnused DEF Authorize
<1>3. CASE \E q \in requests : LoseRequest(q)
  BY <1>3 DEF LoseRequest
<1>4. CASE \E p \in PaymentIds, k \in Keys \cup {NoKey} : Capture(p, k) \/ Refund(p, k)
  BY <1>4 DEF Capture, Refund
<1>5. CASE Restart
  BY <1>5 DEF Restart
<1>6. CASE UNCHANGED vars
  BY <1>6 DEF vars
<1> QED  BY <1>1, <1>2, <1>3, <1>4, <1>5, <1>6 DEF Next, Finished

\* So a payment stays one that a call may be given.
LEMMA MadeForStays ==
  ASSUME TypeOK, [Next]_vars, NEW c \in Calls, NEW p \in PaymentIds, MadeFor(maker, c, p)
  PROVE  MadeFor(maker', c, p)
BY MakerStep DEF MadeFor

\* Only a payment of the server, made for the call's request or replayed for
\* its key, is sent as a reply; every answer is such a reply.
LEMMA AnswersStep ==
  ASSUME IInv, [Next]_vars
  PROVE  UnusedIsAbsent' /\ StoredIsOwn' /\ RepliesArePayments' /\ AnswersArePayments'
<1> DEFINE Goal == UnusedIsAbsent' /\ StoredIsOwn' /\ RepliesArePayments' /\ AnswersArePayments'
<1>a. TypeOK /\ TypeOK'
  BY TypeStep DEF IInv
<1>b. /\ input' = input
      /\ \A p \in PaymentIds : maker[p] # Nobody => maker'[p] = maker[p]
  BY <1>a, MakerStep
<1>c. ASSUME NEW c \in Calls, NEW p \in PaymentIds, MadeFor(maker, c, p)
      PROVE  MadeFor(maker', c, p)
  BY <1>a, <1>c, MadeForStays
<1>d. ASSUME \A c \in Calls : answer'[c] = answer[c] \/ answer'[c] \in Errors
                                \/ (answer'[c] = reply[c])
      PROVE  AnswersArePayments'
  <2> SUFFICES ASSUME NEW c \in Calls, answer'[c] \in PaymentIds PROVE MadeFor(maker', c, answer'[c])
    BY <1>b DEF AnswersArePayments, MadeFor
  <2>1. CASE answer'[c] = answer[c]
    BY <2>1, <1>c DEF IInv, AnswersArePayments, MadeFor
  <2>2. CASE answer'[c] = reply[c]
    BY <2>2, <1>c DEF IInv, RepliesArePayments
  <2> QED  BY <1>d, <2>1, <2>2 DEF Errors
<1>e. ASSUME \A c \in Calls : reply'[c] = reply[c] \/ reply'[c] \notin PaymentIds
      PROVE  RepliesArePayments'
  <2> SUFFICES ASSUME NEW c \in Calls, reply'[c] \in PaymentIds PROVE MadeFor(maker', c, reply'[c])
    BY <1>b DEF RepliesArePayments, MadeFor
  <2> QED  BY <1>e, <1>c DEF IInv, RepliesArePayments
<1>f. ASSUME \A k \in Keys : authorizeResults'[k] = authorizeResults[k] \/ authorizeResults'[k] = Nobody
      PROVE  StoredIsOwn'
  <2> SUFFICES ASSUME NEW k \in Keys, authorizeResults'[k] # Nobody
               PROVE  /\ maker'[authorizeResults'[k]] \in Calls
                      /\ input'[maker'[authorizeResults'[k]]].key = k
    BY DEF StoredIsOwn
  <2>1. authorizeResults'[k] = authorizeResults[k] /\ authorizeResults[k] \in PaymentIds
    BY <1>f, <1>a DEF TypeOK
  <2> QED  BY <2>1, <1>b DEF IInv, StoredIsOwn
<1> USE DEF clientVars, paymentVars, resultVars, boundVars
<1>1. ASSUME NEW c \in Calls, Begin(c) \/ Proceed(c) \/ DropConnection(c)
      PROVE  Goal
  <2>1. UNCHANGED <<paymentVars, authorizeResults>>
    BY <1>1 DEF Begin, Proceed, Send, TakeReply, BackoffEnds, DeadlinePasses, DropConnection
  <2>2. \A d \in Calls : reply'[d] = reply[d] \/ reply'[d] \notin PaymentIds
    BY <1>1, <1>a DEF Begin, Proceed, Send, TakeReply, BackoffEnds, DeadlinePasses,
       DropConnection, TypeOK
  <2>3. \A d \in Calls : answer'[d] = answer[d] \/ answer'[d] \in Errors \/ answer'[d] = reply[d]
    BY <1>1, <1>a DEF Begin, Proceed, Send, TakeReply, BackoffEnds, DeadlinePasses,
       DropConnection, RetryOrFail, Finish, Errors, TypeOK
  <2> QED  BY <2>1, <2>2, <2>3, <1>d, <1>e, <1>f DEF IInv, UnusedIsAbsent
<1>2. ASSUME NEW q \in requests, Authorize(q) PROVE Goal
  <2> DEFINE c == q.call
             k == input[c].key
  <2>1. c \in Calls
    BY <1>a DEF TypeOK
  <2>2. k \in Keys \cup {NoKey}
    BY <2>1, <1>a, KeyType
  <2>3. AnswersArePayments'
    BY <1>2, <1>d DEF Authorize
  <2>4. ASSUME NEW p \in PaymentIds, ReplyTo(q, p), MadeFor(maker', c, p)
        PROVE  RepliesArePayments'
    <3> SUFFICES ASSUME NEW d \in Calls, reply'[d] \in PaymentIds PROVE MadeFor(maker', d, reply'[d])
      BY <1>b DEF RepliesArePayments, MadeFor
    <3>1. CASE reply'[d] = reply[d]
      BY <3>1, <1>c DEF IInv, RepliesArePayments
    <3>2. CASE d = c /\ reply'[d] = p
      BY <3>2, <2>4
    <3> QED  BY <2>1, <2>4, <3>1, <3>2, <1>a DEF ReplyTo, TypeOK
  <2>5. CASE FailsTransient(c)
    <3>1. UNCHANGED <<paymentVars, authorizeResults>> /\ ReplyTo(q, "UNAVAILABLE")
      BY <1>2, <2>5 DEF Authorize
    <3>2. \A d \in Calls : reply'[d] = reply[d] \/ reply'[d] \notin PaymentIds
      BY <2>1, <3>1, <1>a DEF ReplyTo, TypeOK
    <3> QED  BY <3>1, <3>2, <2>3, <1>e, <1>f DEF IInv, UnusedIsAbsent
  <2>6. CASE ~FailsTransient(c) /\ Stored(k) # {}
    <3>1. UNCHANGED <<paymentVars, authorizeResults>> /\ \E p \in Stored(k) : ReplyTo(q, p)
      BY <1>2, <2>6 DEF Authorize
    <3>2. PICK p \in Stored(k) : ReplyTo(q, p)
      BY <3>1
    <3>3. k \in Keys /\ p = authorizeResults[k] /\ p \in PaymentIds
      BY <1>a, <2>2, StoredType
    <3>4. MadeFor(maker, c, p)
      BY <3>3, <2>2, <1>a, StoredType DEF IInv, StoredIsOwn, MadeFor
    <3>5. RepliesArePayments'
      BY <3>2, <3>3, <3>4, <2>1, <2>4, <1>c
    <3> QED  BY <3>1, <3>5, <2>3, <1>f DEF IInv, UnusedIsAbsent
  <2>7. CASE ~FailsTransient(c) /\ Stored(k) = {}
    <3>1. /\ Unused # {}
          /\ status' = [status EXCEPT ![RandomUUID] = "AUTHORIZED"]
          /\ maker' = [maker EXCEPT ![RandomUUID] = c]
          /\ authorizeResults' = IF k = NoKey THEN authorizeResults
                                 ELSE [authorizeResults EXCEPT ![k] = RandomUUID]
          /\ ReplyTo(q, RandomUUID)
      BY <1>2, <2>7 DEF Authorize
    <3>2. RandomUUID \in PaymentIds /\ maker[RandomUUID] = Nobody
      BY <3>1, DrawsUnused
    <3>3. maker'[RandomUUID] = c
      BY <3>1, <3>2, <1>a DEF TypeOK
    <3>4. UnusedIsAbsent'
      BY <3>1, <3>2, <2>1, <1>a DEF IInv, UnusedIsAbsent, TypeOK
    <3>5. StoredIsOwn'
      <4> SUFFICES ASSUME NEW j \in Keys, authorizeResults'[j] # Nobody
                   PROVE  /\ maker'[authorizeResults'[j]] \in Calls
                          /\ input'[maker'[authorizeResults'[j]]].key = j
        BY DEF StoredIsOwn
      <4>1. CASE authorizeResults'[j] = authorizeResults[j]
        BY <4>1, <1>a, <1>b DEF IInv, StoredIsOwn, TypeOK
      <4>2. CASE j = k /\ authorizeResults'[j] = RandomUUID
        BY <4>2, <3>3, <2>1, <1>b
      <4> QED  BY <3>1, <4>1, <4>2, <1>a DEF TypeOK
    <3>6. MadeFor(maker', c, RandomUUID)
      BY <3>2, <3>3, <2>1 DEF MadeFor
    <3>7. RepliesArePayments'
      BY <3>1, <3>2, <3>6, <2>4
    <3> QED  BY <3>4, <3>5, <3>7, <2>3
  <2> QED  BY <2>5, <2>6, <2>7
<1>3. ASSUME NEW q \in requests, LoseRequest(q) PROVE Goal
  BY <1>3, <1>d, <1>e, <1>f DEF LoseRequest, IInv, UnusedIsAbsent
<1>4. ASSUME NEW p \in PaymentIds, NEW k \in Keys \cup {NoKey}, Capture(p, k) \/ Refund(p, k)
      PROVE  Goal
  <2>1. UnusedIsAbsent'
    BY <1>4, <1>a DEF Capture, Refund, CaptureOutcome, RefundOutcome, IInv, UnusedIsAbsent, TypeOK
  <2> QED  BY <1>4, <2>1, <1>d, <1>e, <1>f DEF Capture, Refund
<1>5. CASE Restart
  BY <1>5, <1>d, <1>e, <1>f DEF Restart, UnusedIsAbsent
<1>6. CASE UNCHANGED vars
  BY <1>6, <1>d, <1>e, <1>f DEF vars, IInv, UnusedIsAbsent
<1> QED  BY <1>1, <1>2, <1>3, <1>4, <1>5, <1>6 DEF Next, Finished

\* A payment is made for a key only if nothing is stored under it, and is then
\* stored: each life of the process adds at most one.
LEMMA CountStep ==
  ASSUME IInv, [Next]_vars
  PROVE  CountedPerKey'
<1>a. TypeOK
  BY DEF IInv
<1>b. input' = input
  BY <1>a, MakerStep
<1>c. ASSUME maker' = maker, restarts' \in Nat,
             \/ restarts' = restarts /\ authorizeResults' = authorizeResults
             \/ restarts' = restarts + 1
      PROVE  CountedPerKey'
  <2> SUFFICES ASSUME NEW k \in Keys
               PROVE  /\ IsFiniteSet(PaymentsMadeFor(k)')
                      /\ Cardinality(PaymentsMadeFor(k)')
                           <= restarts' + (IF authorizeResults'[k] = Nobody THEN 0 ELSE 1)
    BY DEF CountedPerKey
  <2>1. PaymentsMadeFor(k)' = PaymentsMadeFor(k)
    BY <1>b, <1>c DEF PaymentsMadeFor
  <2>2. /\ IsFiniteSet(PaymentsMadeFor(k))
        /\ Cardinality(PaymentsMadeFor(k))
             <= restarts + (IF authorizeResults[k] = Nobody THEN 0 ELSE 1)
    BY DEF IInv, CountedPerKey
  <2>3. Cardinality(PaymentsMadeFor(k)) \in Nat
    BY <2>2, FS_CardinalityType
  <2> QED  BY <1>c, <1>a, <2>1, <2>2, <2>3 DEF TypeOK
<1> USE DEF clientVars, paymentVars, resultVars, boundVars
<1>1. ASSUME NEW q \in requests, Authorize(q), maker' # maker PROVE CountedPerKey'
  <2> DEFINE c == q.call
             k == input[c].key
  <2>1. c \in Calls
    BY <1>a DEF TypeOK
  <2>2. k \in Keys \cup {NoKey}
    BY <2>1, <1>a, KeyType
  <2>3. /\ Unused # {} /\ Stored(k) = {}
        /\ maker' = [maker EXCEPT ![RandomUUID] = c]
        /\ authorizeResults' = IF k = NoKey THEN authorizeResults
                               ELSE [authorizeResults EXCEPT ![k] = RandomUUID]
        /\ restarts' = restarts
    BY <1>1 DEF Authorize
  <2>4. RandomUUID \in PaymentIds /\ maker[RandomUUID] = Nobody
    BY <2>3, DrawsUnused
  <2> SUFFICES ASSUME NEW j \in Keys
               PROVE  /\ IsFiniteSet(PaymentsMadeFor(j)')
                      /\ Cardinality(PaymentsMadeFor(j)')
                           <= restarts' + (IF authorizeResults'[j] = Nobody THEN 0 ELSE 1)
    BY DEF CountedPerKey
  <2>5. /\ IsFiniteSet(PaymentsMadeFor(j))
        /\ Cardinality(PaymentsMadeFor(j))
             <= restarts + (IF authorizeResults[j] = Nobody THEN 0 ELSE 1)
    BY DEF IInv, CountedPerKey
  <2>6. CASE j = k
    <3>1. authorizeResults[j] = Nobody
      BY <2>3, <2>6 DEF Stored
    <3>2. authorizeResults'[j] # Nobody
      BY <2>3, <2>4, <2>6, <1>a DEF TypeOK
    <3>3. PaymentsMadeFor(j)' = PaymentsMadeFor(j) \cup {RandomUUID}
      <4>1. \A p \in PaymentIds : maker'[p] = IF p = RandomUUID THEN c ELSE maker[p]
        BY <2>3, <1>a DEF TypeOK
      <4> QED  BY <4>1, <1>b, <2>1, <2>4, <2>6 DEF PaymentsMadeFor
    <3>4. RandomUUID \notin PaymentsMadeFor(j)
      BY <2>4 DEF PaymentsMadeFor
    <3>5. /\ IsFiniteSet(PaymentsMadeFor(j)')
          /\ Cardinality(PaymentsMadeFor(j)') = Cardinality(PaymentsMadeFor(j)) + 1
      BY <2>5, <3>3, <3>4, FS_AddElement
    <3>6. Cardinality(PaymentsMadeFor(j)) \in Nat
      BY <2>5, FS_CardinalityType
    <3> QED  BY <2>3, <2>5, <3>1, <3>2, <3>5, <3>6, <1>a DEF TypeOK
  <2>7. CASE j # k
    <3>1. authorizeResults'[j] = authorizeResults[j]
      BY <2>3, <2>7, <1>a DEF TypeOK
    <3>2. PaymentsMadeFor(j)' = PaymentsMadeFor(j)
      <4>1. \A p \in PaymentIds : maker'[p] = IF p = RandomUUID THEN c ELSE maker[p]
        BY <2>3, <1>a DEF TypeOK
      <4> QED  BY <4>1, <1>b, <2>1, <2>4, <2>7 DEF PaymentsMadeFor
    <3> QED  BY <2>3, <2>5, <3>1, <3>2
  <2> QED  BY <2>6, <2>7
<1>2. ASSUME NEW q \in requests, Authorize(q), maker' = maker PROVE CountedPerKey'
  <2>1. restarts' = restarts /\ authorizeResults' = authorizeResults
    <3>1. CASE UNCHANGED authorizeResults
      BY <3>1, <1>2 DEF Authorize
    <3>2. CASE Unused # {} /\ maker' = [maker EXCEPT ![RandomUUID] = q.call]
      BY <3>2, <1>2, <1>a, DrawsUnused DEF TypeOK
    <3> QED  BY <1>2, <3>1, <3>2 DEF Authorize
  <2> QED  BY <1>c, <1>2, <2>1, <1>a DEF TypeOK
<1>3. CASE \E c \in Calls : Begin(c) \/ Proceed(c) \/ DropConnection(c)
  BY <1>3, <1>c, <1>a DEF Begin, Proceed, Send, TakeReply, BackoffEnds, DeadlinePasses,
     DropConnection, TypeOK
<1>4. CASE \E q \in requests : LoseRequest(q)
  BY <1>4, <1>c, <1>a DEF LoseRequest, TypeOK
<1>5. CASE \E p \in PaymentIds, k \in Keys \cup {NoKey} : Capture(p, k) \/ Refund(p, k)
  BY <1>5, <1>c, <1>a DEF Capture, Refund, TypeOK
<1>6. CASE Restart
  BY <1>6, <1>c, <1>a DEF Restart, TypeOK
<1>7. CASE UNCHANGED vars
  BY <1>7, <1>c, <1>a DEF vars, TypeOK
<1> QED  BY <1>1, <1>2, <1>3, <1>4, <1>5, <1>6, <1>7 DEF Next, Finished

\* The invariant is inductive.
LEMMA PaymentsInvariant == Spec => []IInv
<1>1. IInv /\ [Next]_vars => IInv'
  BY TypeStep, AnswersStep, CountStep DEF IInv
<1> QED  BY InitIInv, <1>1, PTL DEF Spec

-----------------------------------------------------------------------------
\* PaymentsService and PaymentsGrpcClient keep their types: among others no call
\* makes more than 1 + PAYMENTS_GRPC_AUTHORIZE_MAX_RETRIES attempts.
THEOREM TypeCorrect == Spec => []TypeOK
BY PaymentsInvariant, PTL DEF IInv

\* authorize() makes one payment for a key in each life of the payments process,
\* whatever the wire and the callers' deadlines do.
THEOREM KeyPaysOnce == Spec => []OnePaymentPerKey
<1>1. IInv => OnePaymentPerKey
  <2> SUFFICES ASSUME IInv, NEW k \in Keys
               PROVE  Cardinality(PaymentsMadeFor(k)) <= restarts + 1
    BY DEF OnePaymentPerKey
  <2>1. /\ IsFiniteSet(PaymentsMadeFor(k))
        /\ Cardinality(PaymentsMadeFor(k))
             <= restarts + (IF authorizeResults[k] = Nobody THEN 0 ELSE 1)
    BY DEF IInv, CountedPerKey
  <2>2. Cardinality(PaymentsMadeFor(k)) \in Nat
    BY <2>1, FS_CardinalityType
  <2> QED  BY <2>1, <2>2 DEF IInv, TypeOK
<1> QED  BY PaymentsInvariant, <1>1, PTL

\* A payment PaymentsGrpcClient.authorize answers with was made for the call or
\* for its key, also if the reply is to a retry or comes after a restart.
THEOREM AnswersBelong == Spec => []AnswersArePayments
BY PaymentsInvariant, PTL DEF IInv

\* Short of a restart, authorize, capture and refund only move a payment forward.
THEOREM Forward == Spec => StatusMovesForward
<1> DEFINE Moves ==
      \A p \in PaymentIds : status'[p] # status[p] =>
        <<status[p], status'[p]>> \in Lifecycle \/ restarts' # restarts
<1>1. IInv /\ [Next]_vars => [Moves]_vars
  <2> SUFFICES ASSUME IInv, Next PROVE Moves
    OBVIOUS
  <2>a. TypeOK
    BY DEF IInv
  <2> USE DEF clientVars, paymentVars, resultVars, boundVars
  <2>1. ASSUME NEW q \in requests, Authorize(q) PROVE Moves
    <3>1. CASE UNCHANGED status
      BY <3>1
    <3>2. CASE Unused # {} /\ status' = [status EXCEPT ![RandomUUID] = "AUTHORIZED"]
      <4>1. RandomUUID \in PaymentIds /\ status[RandomUUID] = "none"
        BY <3>2, DrawsUnused DEF IInv, UnusedIsAbsent
      <4> QED  BY <3>2, <4>1, <2>a DEF TypeOK, Lifecycle
    <3> QED  BY <2>1, <3>1, <3>2 DEF Authorize
  <2>2. ASSUME NEW p \in PaymentIds, NEW k \in Keys \cup {NoKey}, Capture(p, k) PROVE Moves
    <3>1. CASE UNCHANGED status
      BY <3>1
    <3>2. CASE CaptureOutcome(p) = "ok" /\ status' = [status EXCEPT ![p] = "CAPTURED"]
      <4>1. status[p] \in {"AUTHORIZED", "CAPTURED"}
        BY <3>2, <2>a DEF TypeOK, CaptureOutcome, Statuses
      <4> QED  BY <3>2, <4>1, <2>a DEF TypeOK, Lifecycle
    <3> QED  BY <2>2, <3>1, <3>2 DEF Capture
  <2>3. ASSUME NEW p \in PaymentIds, NEW k \in Keys \cup {NoKey}, Refund(p, k) PROVE Moves
    <3>1. CASE UNCHANGED status
      BY <3>1
    <3>2. CASE RefundOutcome(p) = "ok" /\ status' = [status EXCEPT ![p] = "REFUNDED"]
      <4>1. status[p] \in {"AUTHORIZED", "CAPTURED", "REFUNDED"}
        BY <3>2, <2>a DEF TypeOK, RefundOutcome, Statuses
      <4> QED  BY <3>2, <4>1, <2>a DEF TypeOK, Lifecycle
    <3> QED  BY <2>3, <3>1, <3>2 DEF Refund
  <2>4. CASE Restart
    BY <2>4, <2>a DEF Restart, TypeOK
  <2>5. CASE UNCHANGED status
    BY <2>5
  <2> QED
    BY <2>1, <2>2, <2>3, <2>4, <2>5
    DEF Next, Finished, vars, Begin, Proceed, Send, TakeReply, BackoffEnds, DeadlinePasses,
        DropConnection, LoseRequest
<1> QED  BY PaymentsInvariant, <1>1, PTL DEF Spec, StatusMovesForward

\* Short of a restart a key keeps the first outcome of each of its operations.
THEOREM Stable == Spec => OutcomesAreStable
<1> DEFINE Keeps ==
      restarts' = restarts =>
        \A k \in Keys :
          /\ authorizeResults[k] # Nobody => authorizeResults'[k] = authorizeResults[k]
          /\ captureResults[k] # "none" => captureResults'[k] = captureResults[k]
          /\ refundResults[k] # "none" => refundResults'[k] = refundResults[k]
<1>1. IInv /\ [Next]_vars => [Keeps]_vars
  <2> SUFFICES ASSUME IInv, Next PROVE Keeps
    OBVIOUS
  <2>a. TypeOK
    BY DEF IInv
  <2> USE DEF clientVars, paymentVars, resultVars, boundVars
  <2>1. ASSUME NEW q \in requests, Authorize(q) PROVE Keeps
    <3>1. CASE UNCHANGED authorizeResults
      BY <2>1, <3>1 DEF Authorize
    <3>2. CASE ~UNCHANGED authorizeResults
      <4>1. /\ Stored(input[q.call].key) = {}
            /\ input[q.call].key # NoKey
            /\ authorizeResults' = [authorizeResults EXCEPT ![input[q.call].key] = RandomUUID]
        BY <2>1, <3>2 DEF Authorize
      <4>2. authorizeResults[input[q.call].key] = Nobody
        BY <4>1 DEF Stored
      <4> QED  BY <2>1, <4>1, <4>2, <2>a DEF Authorize, TypeOK
    <3> QED  BY <3>1, <3>2
  <2>2. ASSUME NEW p \in PaymentIds, NEW k \in Keys \cup {NoKey}, Capture(p, k) \/ Refund(p, k)
        PROVE  Keeps
    BY <2>2, <2>a DEF Capture, Refund, Persist, TypeOK
  <2>3. CASE Restart
    BY <2>3, <2>a DEF Restart, TypeOK
  <2>4. CASE UNCHANGED resultVars
    BY <2>4
  <2> QED
    BY <2>1, <2>2, <2>3, <2>4
    DEF Next, Finished, vars, Begin, Proceed, Send, TakeReply, BackoffEnds, DeadlinePasses,
        DropConnection, LoseRequest
<1> QED  BY PaymentsInvariant, <1>1, PTL DEF Spec, OutcomesAreStable
=============================================================================
