------------------------------ MODULE Payments ------------------------------
(***************************************************************************)
(* Authorizing, capturing and refunding payments: PaymentsService behind   *)
(* its gRPC controller, and PaymentsGrpcClient.authorize on the orders     *)
(* side with its deadline and its retries.                                 *)
(*                                                                         *)
(* The server is one process whose handlers run to completion; its maps    *)
(* live in memory.  A request on the wire may be handled late, after its   *)
(* caller has been told UNAVAILABLE or has timed out, or never.            *)
(***************************************************************************)
EXTENDS Integers, FiniteSets

CONSTANTS
  Calls,         \* POST /orders/:id/payments/authorize requests
  PaymentIds,    \* uuids the server may draw
  OrderIds,      \* orders with a positive total
  EmptyOrders,   \* orders whose total is not positive
  NoOrder,       \* an orderId getOrder does not find
  Keys, NoKey,   \* idempotency keys; NoKey: undefined or empty
  Inputs,        \* the bodies the calls may have, together
  Nobody,        \* maker of a payment that does not exist; no stored result
  MaxRetries,    \* PAYMENTS_GRPC_AUTHORIZE_MAX_RETRIES
  MaxDrops, MaxRestarts, MaxOps

CallInput ==
  [order : OrderIds \cup EmptyOrders \cup {NoOrder}, key : Keys \cup {NoKey}, simulate : BOOLEAN]

ASSUME InputsAssumption == Inputs \subseteq [Calls -> CallInput]
Errors == {"OrderNotFound", "BadTotal", "Timeout", "Unavailable"}

ASSUME NamesAssumption ==
  /\ Nobody \notin Calls \cup PaymentIds
  /\ PaymentIds \cap ({"none", "UNAVAILABLE"} \cup Errors) = {}
  /\ NoKey \notin Keys
  /\ NoOrder \notin OrderIds \cup EmptyOrders
  /\ OrderIds \cap EmptyOrders = {}
ASSUME BoundsAssumption ==
  MaxRetries \in Nat /\ MaxDrops \in Nat /\ MaxRestarts \in Nat /\ MaxOps \in Nat

VARIABLES
  \* the orders side
  pc, input,
  attempt,       \* attempts sent so far
  expired,       \* calls whose deadline has passed
  answer,        \* what the HTTP client gets
  \* the wire
  requests,      \* [call, attempt] under way to the server
  reply,         \* per call: reply to the attempt it waits for
  \* the payments service
  status,        \* paymentsById: status of each payment, "none" if absent
  orderId,       \* paymentsById: its order
  authorizeResults, captureResults, refundResults,
  gate,          \* transientFailOnceGate
  \* bounds and history
  drops, restarts, ops,
  maker          \* the call for which a payment was made

clientVars == <<pc, input, attempt, expired, answer>>
paymentVars == <<status, orderId, maker>>
resultVars == <<authorizeResults, captureResults, refundResults>>
boundVars == <<drops, restarts, ops>>
vars == <<clientVars, requests, reply, paymentVars, resultVars, gate, boundVars>>

Steps == {"start", "send", "wait", "backoff", "done"}
Statuses == {"none", "AUTHORIZED", "CAPTURED", "REFUNDED"}
OpOutcomes == {"NOT_FOUND", "FAILED_PRECONDITION", "ok"}

Init ==
  /\ pc = [c \in Calls |-> "start"]
  /\ input \in Inputs
  /\ attempt = [c \in Calls |-> 0]
  /\ expired = {}
  /\ answer = [c \in Calls |-> "none"]
  /\ requests = {}
  /\ reply = [c \in Calls |-> "none"]
  /\ status = [p \in PaymentIds |-> "none"]
  /\ orderId = [p \in PaymentIds |-> NoOrder]
  /\ maker = [p \in PaymentIds |-> Nobody]
  /\ authorizeResults = [k \in Keys |-> Nobody]
  /\ captureResults = [k \in Keys |-> "none"]
  /\ refundResults = [k \in Keys |-> "none"]
  /\ gate = {}
  /\ drops = 0 /\ restarts = 0 /\ ops = 0

Goto(c, step) == pc' = [pc EXCEPT ![c] = step]

Finish(c, what) ==
  /\ Goto(c, "done")
  /\ answer' = [answer EXCEPT ![c] = what]

-----------------------------------------------------------------------------
(* OrdersController.authorizePayment and PaymentsGrpcClient.authorize      *)

\* getOrder and the check of the total; the deadline starts to run.
Begin(c) ==
  /\ pc[c] = "start"
  /\ \/ input[c].order = NoOrder /\ Finish(c, "OrderNotFound")
     \/ input[c].order \in EmptyOrders /\ Finish(c, "BadTotal")
     \/ input[c].order \in OrderIds /\ Goto(c, "send") /\ UNCHANGED answer
  /\ UNCHANGED <<input, attempt, expired, requests, reply, paymentVars, resultVars, gate, boundVars>>

\* One attempt; all of them share the deadline computed before the first.
Send(c) ==
  /\ pc[c] = "send"
  /\ \/ /\ c \in expired
        /\ Finish(c, "Timeout")
        /\ UNCHANGED <<attempt, requests, reply>>
     \/ /\ c \notin expired
        /\ attempt' = [attempt EXCEPT ![c] = @ + 1]
        /\ requests' = requests \cup {[call |-> c, attempt |-> attempt[c] + 1]}
        /\ reply' = [reply EXCEPT ![c] = "none"]
        /\ Goto(c, "wait")
        /\ UNCHANGED answer
  /\ UNCHANGED <<input, expired, paymentVars, resultVars, gate, boundVars>>

\* Mutant: retries are counted from one.
MutOneMoreRetry(c) == attempt[c] <= MaxRetries + 1

\* retry({ count: maxRetries })
MayRetry(c) == attempt[c] <= MaxRetries

\* UNAVAILABLE: back off and try again, or give up.
RetryOrFail(c) ==
  IF MayRetry(c) THEN Goto(c, "backoff") /\ UNCHANGED answer
  ELSE Finish(c, "Unavailable")

TakeReply(c) ==
  /\ pc[c] = "wait"
  /\ \/ reply[c] = "UNAVAILABLE" /\ RetryOrFail(c)
     \/ reply[c] \in PaymentIds /\ Finish(c, reply[c])
  /\ UNCHANGED <<input, attempt, expired, requests, reply, paymentVars, resultVars, gate, boundVars>>

\* The connection breaks: UNAVAILABLE, whatever becomes of the request.
DropConnection(c) ==
  /\ pc[c] = "wait"
  /\ drops < MaxDrops
  /\ drops' = drops + 1
  /\ RetryOrFail(c)
  /\ UNCHANGED <<input, attempt, expired, requests, reply, paymentVars, resultVars, gate, restarts, ops>>

BackoffEnds(c) ==
  /\ pc[c] = "backoff"
  /\ Goto(c, "send")
  /\ UNCHANGED <<input, attempt, expired, answer, requests, reply, paymentVars, resultVars, gate, boundVars>>

\* Mutant: the deadline does not end an attempt under way.
MutNoTimeout(c) ==
  /\ pc[c] \in {"send", "backoff"}
  /\ c \notin expired
  /\ expired' = expired \cup {c}
  /\ UNCHANGED <<pc, input, attempt, answer, requests, reply, paymentVars, resultVars, gate, boundVars>>

\* TimeoutError or DEADLINE_EXCEEDED, neither of which is retried.
DeadlinePasses(c) ==
  /\ pc[c] \in {"send", "wait", "backoff"}
  /\ c \notin expired
  /\ expired' = expired \cup {c}
  /\ IF pc[c] = "wait" THEN Finish(c, "Timeout") ELSE UNCHANGED <<pc, answer>>
  /\ UNCHANGED <<input, attempt, requests, reply, paymentVars, resultVars, gate, boundVars>>

LoseRequest(q) ==
  /\ q \in requests
  /\ requests' = requests \ {q}
  /\ UNCHANGED <<clientVars, reply, paymentVars, resultVars, gate, boundVars>>

-----------------------------------------------------------------------------
(* PaymentsGrpcController and PaymentsService                              *)

\* shouldFailTransient: the first request for an order that asks for it.
FailsTransient(c) == input[c].simulate /\ input[c].order \notin gate

\* The reply reaches the caller only if it still waits for this attempt.
ReplyTo(q, what) ==
  reply' = IF pc[q.call] = "wait" /\ attempt[q.call] = q.attempt
           THEN [reply EXCEPT ![q.call] = what] ELSE reply

\* Mutants: results are not looked up, or not by key.
MutNoReplay(k) == {}
MutSharedResult(k) == {authorizeResults[j] : j \in Keys} \ {Nobody}

\* The payment stored under the key, if there is one.
Stored(k) == IF k = NoKey THEN {} ELSE {authorizeResults[k]} \ {Nobody}

\* randomUUID(): which of the ids not yet drawn it is makes no difference.
Unused == {p \in PaymentIds : maker[p] = Nobody}
RandomUUID == CHOOSE p \in Unused : TRUE

\* authorize() replays the key's result, else makes and stores a payment.  The
\* controller's checks of the arguments repeat those the caller has passed.
Authorize(q) ==
  LET c == q.call
      k == input[c].key
  IN
  /\ q \in requests
  /\ requests' = requests \ {q}
  /\ \/ /\ FailsTransient(c)
        /\ gate' = gate \cup {input[c].order}
        /\ ReplyTo(q, "UNAVAILABLE")
        /\ UNCHANGED <<paymentVars, authorizeResults>>
     \/ /\ ~FailsTransient(c)
        /\ \E p \in Stored(k) : ReplyTo(q, p)
        /\ UNCHANGED <<paymentVars, authorizeResults, gate>>
     \/ /\ ~FailsTransient(c) /\ Stored(k) = {}
        /\ Unused # {}
        /\ status' = [status EXCEPT ![RandomUUID] = "AUTHORIZED"]
        /\ orderId' = [orderId EXCEPT ![RandomUUID] = input[c].order]
        /\ maker' = [maker EXCEPT ![RandomUUID] = c]
        /\ authorizeResults' = IF k = NoKey THEN authorizeResults
                               ELSE [authorizeResults EXCEPT ![k] = RandomUUID]
        /\ ReplyTo(q, RandomUUID)
        /\ UNCHANGED gate
  /\ UNCHANGED <<clientVars, captureResults, refundResults, boundVars>>

\* Mutant: the last outcome is kept instead of the first.
MutStoreLast(results, k, outcome) ==
  IF k = NoKey THEN results ELSE [results EXCEPT ![k] = outcome]

\* persistOperationOutcome sets the outcome; capture() and refund() reach it only
\* if the map does not have the key yet, the check that is folded in here.
Persist(results, k, outcome) ==
  IF k = NoKey \/ results[k] # "none" THEN results
  ELSE [results EXCEPT ![k] = outcome]

Replayed(results, k) == k # NoKey /\ results[k] # "none"

\* Mutant: a refunded payment can be captured.
MutCaptureRefunded(p) ==
  IF status[p] = "none" THEN "NOT_FOUND" ELSE "ok"

\* capture(): only an authorized payment changes, a captured one is fine too.
CaptureOutcome(p) ==
  CASE status[p] = "none" -> "NOT_FOUND"
    [] status[p] = "REFUNDED" -> "FAILED_PRECONDITION"
    [] OTHER -> "ok"

Capture(p, k) ==
  /\ ops < MaxOps /\ ops' = ops + 1
  /\ captureResults' = Persist(captureResults, k, CaptureOutcome(p))
  /\ status' = IF ~Replayed(captureResults, k) /\ CaptureOutcome(p) = "ok"
               THEN [status EXCEPT ![p] = "CAPTURED"] ELSE status
  /\ UNCHANGED <<clientVars, requests, reply, orderId, maker, authorizeResults, refundResults, gate, drops, restarts>>

\* refund(): an authorized or captured payment changes, once.
RefundOutcome(p) == IF status[p] = "none" THEN "NOT_FOUND" ELSE "ok"

Refund(p, k) ==
  /\ ops < MaxOps /\ ops' = ops + 1
  /\ refundResults' = Persist(refundResults, k, RefundOutcome(p))
  /\ status' = IF ~Replayed(refundResults, k) /\ RefundOutcome(p) = "ok"
               THEN [status EXCEPT ![p] = "REFUNDED"] ELSE status
  /\ UNCHANGED <<clientVars, requests, reply, orderId, maker, authorizeResults, captureResults, gate, drops, restarts>>

\* The payments process restarts: every map is empty again.
Restart ==
  /\ restarts < MaxRestarts /\ restarts' = restarts + 1
  /\ status' = [p \in PaymentIds |-> "none"]
  /\ orderId' = [p \in PaymentIds |-> NoOrder]
  /\ authorizeResults' = [k \in Keys |-> Nobody]
  /\ captureResults' = [k \in Keys |-> "none"]
  /\ refundResults' = [k \in Keys |-> "none"]
  /\ gate' = {}
  /\ UNCHANGED <<clientVars, requests, reply, drops, ops, maker>>

Finished == (\A c \in Calls : pc[c] = "done") /\ UNCHANGED vars

Proceed(c) == Send(c) \/ TakeReply(c) \/ BackoffEnds(c) \/ DeadlinePasses(c)

Next ==
  \/ \E c \in Calls : Begin(c) \/ Proceed(c) \/ DropConnection(c)
  \/ \E q \in requests : Authorize(q) \/ LoseRequest(q)
  \/ \E p \in PaymentIds, k \in Keys \cup {NoKey} : Capture(p, k) \/ Refund(p, k)
  \/ Restart
  \/ Finished

\* Timers fire and continuations run; nothing is assumed of the server or of
\* the wire.
Fairness == \A c \in Calls : WF_vars(Proceed(c))

Spec == Init /\ [][Next]_vars
FairSpec == Spec /\ Fairness

-----------------------------------------------------------------------------
(* Properties.                                                             *)

\* Types of all variables (client calls, wire, the service's maps).
TypeOK ==
  /\ pc \in [Calls -> Steps]
  /\ input \in [Calls -> CallInput]
  /\ attempt \in [Calls -> 0..(MaxRetries + 1)]
  /\ expired \subseteq Calls
  /\ answer \in [Calls -> {"none"} \cup Errors \cup PaymentIds]
  /\ requests \subseteq [call : Calls, attempt : 1..(MaxRetries + 1)]
  /\ reply \in [Calls -> {"none", "UNAVAILABLE"} \cup PaymentIds]
  /\ status \in [PaymentIds -> Statuses]
  /\ orderId \in [PaymentIds -> OrderIds \cup {NoOrder}]
  /\ maker \in [PaymentIds -> Calls \cup {Nobody}]
  /\ authorizeResults \in [Keys -> PaymentIds \cup {Nobody}]
  /\ captureResults \in [Keys -> OpOutcomes \cup {"none"}]
  /\ refundResults \in [Keys -> OpOutcomes \cup {"none"}]
  /\ gate \subseteq OrderIds
  /\ drops \in 0..MaxDrops /\ restarts \in 0..MaxRestarts /\ ops \in 0..MaxOps

PaymentsMadeFor(k) ==
  {p \in PaymentIds : maker[p] # Nobody /\ input[maker[p]].key = k}

\* test/payments.service.spec.ts, "authorize is idempotent by idempotency key":
\* for one key there is one payment, whatever retries, lost replies, timeouts
\* and late requests do; each restart, which empties the maps, allows one more.
OnePaymentPerKey ==
  \A k \in Keys : Cardinality(PaymentsMadeFor(k)) <= restarts + 1

\* A call that ends with a payment ends with one made for its own request or
\* for one with the same key (which may be another order's: the key alone
\* selects the stored result).
AnswersArePayments ==
  \A c \in Calls : answer[c] \in PaymentIds =>
    LET m == maker[answer[c]] IN
    m \in Calls /\ (m = c \/ (input[m].key = input[c].key /\ input[c].key # NoKey))

Lifecycle ==
  {<<"none", "AUTHORIZED">>, <<"AUTHORIZED", "CAPTURED">>,
   <<"AUTHORIZED", "REFUNDED">>, <<"CAPTURED", "REFUNDED">>}

\* Short of a restart a payment only moves forward, and a refund is final.
StatusMovesForward ==
  [][\A p \in PaymentIds :
       status'[p] # status[p] =>
         <<status[p], status'[p]>> \in Lifecycle \/ restarts' # restarts]_vars

\* Short of a restart a key answers what it answered first.
OutcomesAreStable ==
  [][restarts' = restarts =>
       \A k \in Keys :
         /\ authorizeResults[k] # Nobody => authorizeResults'[k] = authorizeResults[k]
         /\ captureResults[k] # "none" => captureResults'[k] = captureResults[k]
         /\ refundResults[k] # "none" => refundResults'[k] = refundResults[k]]_vars

\* Every authorize call is answered, by the deadline if by nothing else.
EveryCallAnswered == \A c \in Calls : pc[c] # "start" ~> pc[c] = "done"
=============================================================================
