--------------------------- MODULE OrderCreation ---------------------------
(***************************************************************************)
(* OrdersService.create (src/src/orders/order.service.ts): concurrent POST *)
(* /orders requests of one API process against one PostgreSQL database.    *)
(* Every await of the code is a point where other requests may run, so a   *)
(* request has a program counter with one value per await.  PostgreSQL is  *)
(* modelled as far as the code relies on it: READ COMMITTED reads, row     *)
(* locks of SELECT ... FOR UPDATE, the unique index on idempotency_key     *)
(* that makes an insert wait for a concurrent one, the foreign key to      *)
(* users, the deadlock detector, and rollback when a connection is lost.   *)
(***************************************************************************)
EXTENDS Integers, Sequences, FiniteSets

CONSTANTS
  Requests,      \* requests; the order a request creates has its identity
  Products, Users,
  Keys,          \* idempotency keys a client may send
  NoKey,         \* no key: NULL in the database
  EmptyKey,      \* the empty string: falsy in the code, not NULL in the database
  Nobody,        \* holder of a free row lock
  Inputs,        \* the request bodies considered
  MaxStock, InitialStock,
  PoolSize,      \* connections in the pool of the pg driver
  MaxCrashes,    \* bound on the crashes of the API process
  MaxFailures    \* bound on the failures of the database or the way to it

AllKeys == Keys \cup {NoKey, EmptyKey}
Item == [productId : Products, quantity : Int]
OrderInput == [userId : Users, key : AllKeys, items : Seq(Item)]

ASSUME InputsAssumption == Inputs \subseteq OrderInput
ASSUME NamesAssumption ==
  /\ Nobody \notin Requests
  /\ NoKey \notin Keys
  /\ EmptyKey \notin Keys
  /\ NoKey # EmptyKey
ASSUME StockAssumption ==
  /\ MaxStock \in Nat
  /\ InitialStock \in [Products -> 0..MaxStock]
ASSUME BoundsAssumption ==
  PoolSize \in Nat \ {0} /\ MaxCrashes \in Nat /\ MaxFailures \in Nat

VARIABLES
  \* the database, committed
  stock,         \* products.stock
  products,      \* rows of products that exist
  users,         \* rows of users that exist
  orders,        \* rows of orders that exist
  \* the database, in flight
  lock,          \* per product: the transaction holding its row lock
  written,       \* per transaction and product: its uncommitted stock
  taken,         \* per request and product: quantity in its order_items rows
  conns,         \* requests that hold a pooled connection
  \* the API process
  pc, input, nextItem,
  left,          \* product.stock after the subtraction, before it is saved
  outcome,       \* what the request will answer, final once pc is "done"
  returned,      \* the order a duplicate answer carries
  channel,       \* the process's AMQP channel: "open" or "closed"
  published,     \* orders whose message was handed to the broker
  crashes,       \* crashes so far
  failures,      \* failures of the database so far
  sold           \* history: units of each product in orders ever committed

dbVars == <<stock, products, users, orders>>
txVars == <<lock, written, taken>>
localVars == <<input, nextItem, left>>
brokerVars == <<channel, published>>
faultVars == <<crashes, failures>>
vars == <<dbVars, txVars, conns, pc, localVars, outcome, returned, brokerVars,
          faultVars, sold>>

Nothing == [p \in Products |-> 0]

BeforeTx == {"start", "lookup", "user", "connect", "begin"}
InTx == {"insert", "item", "save", "rollback"}
Steps == BeforeTx \cup InTx \cup {"reread", "release", "publish", "done"}
InsertErrors == {"UniqueViolation", "UserGone"}
TxErrors == InsertErrors \cup
  {"NoProduct", "BadQuantity", "Insufficient", "DeadlockDetected"}
\* Errors that are known to have come before the commit.
Refusals == TxErrors \cup {"EmptyItems", "NoUser", "NotStarted"}
Failures == Refusals \cup {"ConnectionLost", "PublishFailed", "Lost"}
Outcomes == Failures \cup {"none", "created", "duplicate"}

Truthy(k) == k \in Keys
Key(r) == input[r].key
Line(r) == input[r].items[nextItem[r]]
HasLine(r) == nextItem[r] <= Len(input[r].items)

\* r's transaction has an uncommitted row in orders.
InFlight(r) ==
  pc[r] \in {"item", "save", "rollback"} /\ outcome[r] \notin InsertErrors

\* Two values of idempotency_key that the unique index does not let coexist.
SameIndexKey(k, l) == k = l /\ k # NoKey

PoolFree == Cardinality(conns) < PoolSize

\* Mutant: products are read without FOR UPDATE.
MutNoRowLock(r) ==
  {q \in Requests \ {r} :
     pc[r] = "insert" /\ InFlight(q) /\ SameIndexKey(Key(r), Key(q))}

\* The transactions r's current statement waits for.
WaitsFor(r) ==
  CASE pc[r] = "insert" ->
         {q \in Requests \ {r} : InFlight(q) /\ SameIndexKey(Key(r), Key(q))}
    [] pc[r] = "item" /\ HasLine(r) -> {lock[Line(r).productId]} \ {r, Nobody}
    [] OTHER -> {}

\* r is part of a cycle of transactions each waiting for the next.
InWaitCycle(r) ==
  \E S \in SUBSET Requests :
    /\ r \in S
    /\ \A q \in S : WaitsFor(q) # {}
    /\ S = UNION {WaitsFor(q) : q \in S}

-----------------------------------------------------------------------------
Init ==
  /\ stock = InitialStock
  /\ products = Products
  /\ users = Users
  /\ orders = {}
  /\ lock = [p \in Products |-> Nobody]
  /\ written = [r \in Requests |-> Nothing]
  /\ taken = [r \in Requests |-> Nothing]
  /\ conns = {}
  /\ pc = [r \in Requests |-> "start"]
  /\ input \in [Requests -> Inputs]
  /\ nextItem = [r \in Requests |-> 1]
  /\ left = [r \in Requests |-> 0]
  /\ outcome = [r \in Requests |-> "none"]
  /\ returned = [r \in Requests |-> Nobody]
  /\ channel = "open"
  /\ published = {}
  /\ crashes = 0
  /\ failures = 0
  /\ sold = Nothing

Goto(r, step) == pc' = [pc EXCEPT ![r] = step]

Answer(r, what) ==
  /\ Goto(r, "done")
  /\ outcome' = [outcome EXCEPT ![r] = what]

\* Mutant: the order of the failed insert is returned.
MutAnswerOwnOrder(r, o) ==
  /\ Answer(r, "duplicate")
  /\ returned' = [returned EXCEPT ![r] = r]

\* return { order, wasDuplicate: true }
AnswerDuplicate(r, o) ==
  /\ Answer(r, "duplicate")
  /\ returned' = [returned EXCEPT ![r] = o]

\* queryRunner.release() in the finally block.
MutNoRelease(r) == UNCHANGED conns
Release(r) == conns' = conns \ {r}

\* A statement of the transaction throws: control reaches the catch block.
Throw(r, error) ==
  /\ Goto(r, "rollback")
  /\ outcome' = [outcome EXCEPT ![r] = error]

\* Step 2 of create: an order without items is refused before any statement.
CheckItems(r) ==
  IF input[r].items = <<>> THEN Answer(r, "EmptyItems")
  ELSE Goto(r, "user") /\ UNCHANGED outcome

\* The request arrives; without a (truthy) key the lookup is skipped.
Start(r) ==
  /\ pc[r] = "start"
  /\ IF Truthy(Key(r)) THEN Goto(r, "lookup") /\ UNCHANGED outcome
     ELSE CheckItems(r)
  /\ UNCHANGED <<dbVars, txVars, conns, localVars, returned, brokerVars, faultVars, sold>>

\* Step 1: an existing order of the same key is returned as it is.
Lookup(r) ==
  /\ pc[r] = "lookup"
  /\ PoolFree
  /\ \/ \E o \in orders : Key(o) = Key(r) /\ AnswerDuplicate(r, o)
     \/ /\ \A o \in orders : Key(o) # Key(r)
        /\ CheckItems(r)
        /\ UNCHANGED returned
  /\ UNCHANGED <<dbVars, txVars, conns, localVars, brokerVars, faultVars, sold>>

\* Step 3.
FindUser(r) ==
  /\ pc[r] = "user"
  /\ PoolFree
  /\ IF input[r].userId \in users THEN Goto(r, "connect") /\ UNCHANGED outcome
     ELSE Answer(r, "NoUser")
  /\ UNCHANGED <<dbVars, txVars, conns, localVars, returned, brokerVars, faultVars, sold>>

\* Step 4: the query runner takes a connection and keeps it until release().
Connect(r) ==
  /\ pc[r] = "connect"
  /\ PoolFree
  /\ conns' = conns \cup {r}
  /\ Goto(r, "begin")
  /\ UNCHANGED <<dbVars, txVars, localVars, outcome, returned, brokerVars, faultVars, sold>>

StartTransaction(r) ==
  /\ pc[r] = "begin"
  /\ Goto(r, "insert")
  /\ UNCHANGED <<dbVars, txVars, conns, localVars, outcome, returned, brokerVars, faultVars, sold>>

\* The database, or the way to it, fails a call.
Failure ==
  /\ failures < MaxFailures
  /\ failures' = failures + 1
  /\ UNCHANGED crashes

\* startTransaction() throws.  It stands before the try, so nothing calls
\* release(): the pool has the connection back only if the driver noticed that
\* it is broken and dropped it.
StartTransactionFails(r) ==
  /\ Failure
  /\ pc[r] = "begin"
  /\ Answer(r, "NotStarted")
  /\ conns' \in {conns, conns \ {r}}
  /\ UNCHANGED <<dbVars, txVars, localVars, returned, brokerVars, sold>>

\* Mutant: no unique index on idempotency_key.
MutNoUniqueIndex(r) == TRUE

\* The unique index IDX_orders_idempotency_key_unique has room for r's key.
KeyFree(r) == \A o \in orders : ~SameIndexKey(Key(o), Key(r))

\* INSERT of the PENDING order, which waits for an uncommitted insert of the
\* same key and fails on a committed one, then on a missing user.
InsertOrder(r) ==
  /\ pc[r] = "insert"
  /\ WaitsFor(r) = {}
  /\ \/ ~KeyFree(r) /\ Throw(r, "UniqueViolation")
     \/ KeyFree(r) /\ input[r].userId \notin users /\ Throw(r, "UserGone")
     \/ /\ KeyFree(r) /\ input[r].userId \in users
        /\ Goto(r, "item")
        /\ UNCHANGED outcome
  /\ UNCHANGED <<dbVars, txVars, conns, localVars, returned, brokerVars, faultVars, sold>>

\* What r's transaction reads in products.stock: its own write, else the
\* last committed value.
Visible(r, p) == IF taken[r][p] > 0 THEN written[r][p] ELSE stock[p]

\* Mutant: the stock is not compared with the quantity.
MutNoStockCheck(quantity, available) ==
  IF quantity <= 0 THEN "BadQuantity" ELSE "none"

\* The checks on one item, in the order of the code.
ItemError(quantity, available) ==
  CASE quantity <= 0 -> "BadQuantity"
    [] quantity > 0 /\ available < quantity -> "Insufficient"
    [] OTHER -> "none"

\* SELECT ... FOR UPDATE of the item's product, then the checks.
LockProduct(r) ==
  LET p == Line(r).productId
      error == ItemError(Line(r).quantity, Visible(r, p))
  IN
  /\ pc[r] = "item"
  /\ HasLine(r)
  /\ WaitsFor(r) = {}
  /\ \/ /\ p \notin products
        /\ Throw(r, "NoProduct")
        /\ UNCHANGED <<lock, left>>
     \/ /\ p \in products
        /\ lock' = [lock EXCEPT ![p] = r]
        /\ \/ error # "none" /\ Throw(r, error) /\ UNCHANGED left
           \/ /\ error = "none"
              /\ left' = [left EXCEPT ![r] = Visible(r, p) - Line(r).quantity]
              /\ Goto(r, "save")
              /\ UNCHANGED outcome
  /\ UNCHANGED <<dbVars, written, taken, conns, input, nextItem, returned, brokerVars,
                 faultVars, sold>>

\* save(Product) and save(OrderItem): rows only r's transaction can touch.
SaveItem(r) ==
  LET p == Line(r).productId IN
  /\ pc[r] = "save"
  /\ written' = [written EXCEPT ![r][p] = left[r]]
  /\ taken' = [taken EXCEPT ![r][p] = @ + Line(r).quantity]
  /\ nextItem' = [nextItem EXCEPT ![r] = @ + 1]
  /\ Goto(r, "item")
  /\ UNCHANGED <<dbVars, lock, conns, input, left, outcome, returned, brokerVars, faultVars, sold>>

\* Row locks are held until the transaction ends.
Unlocked(S) == [p \in Products |-> IF lock[p] \in S THEN Nobody ELSE lock[p]]

\* All items saved: the order is read back and PostgreSQL commits.
CommitRows(r) ==
  /\ pc[r] = "item"
  /\ ~HasLine(r)
  /\ stock' = [p \in Products |-> Visible(r, p)]
  /\ orders' = orders \cup {r}
  /\ lock' = Unlocked({r})
  /\ sold' = [p \in Products |-> sold[p] + taken[r][p]]
  /\ UNCHANGED <<products, users, written, taken, conns, localVars, returned, brokerVars>>

Commit(r) ==
  /\ CommitRows(r)
  /\ Goto(r, "publish")
  /\ UNCHANGED <<outcome, faultVars>>

\* release(), then publishOrderCreated, which throws on a closed channel and
\* whose return value nobody looks at.
Publish(r) ==
  /\ pc[r] = "publish"
  /\ Release(r)
  /\ \/ /\ channel = "open"
        /\ published' = published \cup {r}
        /\ Answer(r, "created")
     \/ /\ channel = "closed"
        /\ Answer(r, "PublishFailed")
        /\ UNCHANGED published
  /\ UNCHANGED <<dbVars, txVars, localVars, returned, channel, faultVars, sold>>

\* Mutant: the transaction is ended without a rollback of its rows.
MutNoRollback(S) ==
  /\ lock' = Unlocked(S)
  /\ UNCHANGED <<written, taken>>

\* The uncommitted writes of the requests in S vanish.
Undo(S) ==
  /\ lock' = Unlocked(S)
  /\ written' = [r \in Requests |-> IF r \in S THEN Nothing ELSE written[r]]
  /\ taken' = [r \in Requests |-> IF r \in S THEN Nothing ELSE taken[r]]

\* The catch block; the connection is released in finally, after the second
\* lookup if there is one.
Rollback(r) ==
  /\ pc[r] = "rollback"
  /\ Undo({r})
  /\ \/ /\ outcome[r] = "UniqueViolation" /\ Truthy(Key(r))
        /\ Goto(r, "reread")
        /\ UNCHANGED conns
     \/ /\ ~(outcome[r] = "UniqueViolation" /\ Truthy(Key(r)))
        /\ Goto(r, "done")
        /\ Release(r)
  /\ UNCHANGED <<dbVars, localVars, outcome, returned, brokerVars, faultVars, sold>>

\* The lookup in the catch block goes through the repository: it needs a
\* second connection while the query runner still holds the first.
Reread(r) ==
  /\ pc[r] = "reread"
  /\ PoolFree
  /\ Release(r)
  /\ \/ \E o \in orders : Key(o) = Key(r) /\ AnswerDuplicate(r, o)
     \/ /\ \A o \in orders : Key(o) # Key(r)
        /\ Goto(r, "done")
        /\ UNCHANGED <<outcome, returned>>
  /\ UNCHANGED <<dbVars, txVars, localVars, brokerVars, faultVars, sold>>

\* The query runner's connection breaks: PostgreSQL rolls back, the statement
\* under way throws, rollbackTransaction() throws too and replaces its error,
\* and only finally is left.  A commit that did not get through ends here.
LoseConnection(r) ==
  /\ Failure
  /\ pc[r] \in InTx
  /\ Undo({r})
  /\ Goto(r, "release")
  /\ outcome' = [outcome EXCEPT ![r] = "ConnectionLost"]
  /\ UNCHANGED <<dbVars, conns, localVars, returned, brokerVars, sold>>

\* The connection breaks when PostgreSQL has committed and before it says so:
\* transactionCommitted stays false and create() ends the same way.
CommitUnanswered(r) ==
  /\ Failure
  /\ CommitRows(r)
  /\ Goto(r, "release")
  /\ outcome' = [outcome EXCEPT ![r] = "ConnectionLost"]

\* Mutant: release() follows the rollback instead of standing in finally.
MutNoFinally(r) ==
  /\ pc[r] = "release"
  /\ Goto(r, "done")
  /\ UNCHANGED <<dbVars, txVars, conns, localVars, outcome, returned, brokerVars, faultVars, sold>>

\* finally, and the error goes to the client.
ReleaseAndThrow(r) ==
  /\ pc[r] = "release"
  /\ Release(r)
  /\ Goto(r, "done")
  /\ UNCHANGED <<dbVars, txVars, localVars, outcome, returned, brokerVars, faultVars, sold>>

\* A read through a repository throws, or connect() does; in the catch block
\* finally still releases the query runner.
ReadFails(r) ==
  /\ Failure
  /\ pc[r] \in {"lookup", "user", "connect", "reread"}
  /\ Answer(r, "ConnectionLost")
  /\ Release(r)
  /\ UNCHANGED <<dbVars, txVars, localVars, returned, brokerVars, sold>>

\* PostgreSQL ends a cycle of waiting transactions by failing one of them.
DeadlockAbort(r) ==
  /\ InWaitCycle(r)
  /\ Throw(r, "DeadlockDetected")
  /\ UNCHANGED <<dbVars, txVars, conns, localVars, returned, brokerVars, faultVars, sold>>

-----------------------------------------------------------------------------
(* What else happens to the same tables and processes.                     *)

\* DELETE /orders/:id
DeleteOrder(o) ==
  /\ PoolFree
  /\ o \in orders
  /\ orders' = orders \ {o}
  /\ UNCHANGED <<stock, products, users, txVars, conns, pc, localVars, outcome, returned,
                 brokerVars, faultVars, sold>>

\* DELETE /products/:id waits for the row lock; no foreign key guards it.
DeleteProduct(p) ==
  /\ PoolFree
  /\ p \in products
  /\ lock[p] = Nobody
  /\ products' = products \ {p}
  /\ UNCHANGED <<stock, users, orders, txVars, conns, pc, localVars, outcome, returned,
                 brokerVars, faultVars, sold>>

\* DELETE /users/:id waits for the key locks of uncommitted orders and takes
\* the user's orders along (ON DELETE CASCADE).
DeleteUser(u) ==
  /\ PoolFree
  /\ u \in users
  /\ \A r \in Requests : InFlight(r) => input[r].userId # u
  /\ users' = users \ {u}
  /\ orders' = {o \in orders : input[o].userId # u}
  /\ UNCHANGED <<stock, products, txVars, conns, pc, localVars, outcome, returned,
                 brokerVars, faultVars, sold>>

\* The broker closes the connection in an orderly way; nothing reopens it.
CloseChannel ==
  /\ channel = "open"
  /\ channel' = "closed"
  /\ UNCHANGED <<dbVars, txVars, conns, pc, localVars, outcome, returned, published,
                 faultVars, sold>>

\* The API process dies and is started again: its requests get no answer and
\* PostgreSQL rolls their transactions back.
Crash ==
  LET running == {r \in Requests : pc[r] \notin {"start", "done"}}
      open == {r \in running : pc[r] \notin {"release", "publish"}}
  IN
  /\ crashes < MaxCrashes
  /\ crashes' = crashes + 1
  /\ Undo(open)
  /\ conns' = {}
  /\ channel' = "open"
  /\ pc' = [r \in Requests |-> IF r \in running THEN "done" ELSE pc[r]]
  /\ outcome' = [r \in Requests |-> IF r \in running THEN "Lost" ELSE outcome[r]]
  /\ UNCHANGED <<dbVars, localVars, returned, published, failures, sold>>

\* Every request has been answered.
Finished ==
  /\ \A r \in Requests : pc[r] = "done"
  /\ UNCHANGED vars

Handle(r) ==
  \/ Lookup(r) \/ FindUser(r) \/ Connect(r) \/ StartTransaction(r) \/ InsertOrder(r)
  \/ LockProduct(r) \/ SaveItem(r) \/ Commit(r) \/ Publish(r)
  \/ Rollback(r) \/ Reread(r) \/ ReleaseAndThrow(r)

\* The database or the way to it fails r.
Fail(r) ==
  \/ StartTransactionFails(r) \/ LoseConnection(r) \/ CommitUnanswered(r) \/ ReadFails(r)

Next ==
  \/ \E r \in Requests : Start(r) \/ Handle(r) \/ DeadlockAbort(r) \/ Fail(r)
  \/ \E o \in Requests : DeleteOrder(o)
  \/ \E p \in Products : DeleteProduct(p)
  \/ \E u \in Users : DeleteUser(u)
  \/ CloseChannel
  \/ Crash
  \/ Finished

\* The event loop runs every continuation, the pool and the database grant
\* what is free, and PostgreSQL looks for deadlocks after deadlock_timeout.
Fairness ==
  /\ \A r \in Requests : WF_vars(Handle(r))
  /\ WF_vars(\E r \in Requests : DeadlockAbort(r))

Spec == Init /\ [][Next]_vars
FairSpec == Spec /\ Fairness

-----------------------------------------------------------------------------
(* Properties.                                                             *)

\* Types of all variables (create's locals, the rows it writes, the pool).
TypeOK ==
  /\ stock \in [Products -> Nat]
  /\ products \subseteq Products
  /\ users \subseteq Users
  /\ orders \subseteq Requests
  /\ lock \in [Products -> Requests \cup {Nobody}]
  /\ written \in [Requests -> [Products -> Nat]]
  /\ taken \in [Requests -> [Products -> Nat]]
  /\ conns \subseteq Requests
  /\ pc \in [Requests -> Steps]
  /\ input \in [Requests -> Inputs]
  /\ nextItem \in [Requests -> Nat \ {0}]
  /\ left \in [Requests -> Nat]
  /\ outcome \in [Requests -> Outcomes]
  /\ returned \in [Requests -> Requests \cup {Nobody}]
  /\ channel \in {"open", "closed"}
  /\ published \subseteq Requests
  /\ crashes \in 0..MaxCrashes
  /\ failures \in 0..MaxFailures
  /\ sold \in [Products -> Nat]

\* No update of products.stock is lost: whatever interleaving of the
\* read-check-subtract-save sequences of concurrent transactions, rollbacks
\* and crashes, what is left and what committed orders hold is what there was.
StockConservation ==
  \A p \in Products : stock[p] + sold[p] = InitialStock[p]

\* The "Oversell protection" of the FOR UPDATE read: committed orders never
\* hold more of a product than there was.
NoOversell == \A p \in Products : sold[p] <= InitialStock[p]

\* What line i of a request asks for of product p.
Quantity(r, i, p) ==
  IF input[r].items[i].productId = p THEN input[r].items[i].quantity ELSE 0

\* The order_items rows of r hold its first n lines: of every product, what
\* they hold is where the running total of those lines ends.
HoldsLines(r, n) ==
  \A p \in Products : \E total \in [0..n -> 0..MaxStock] :
    /\ total[0] = 0
    /\ \A i \in 1..n : total[i] = total[i - 1] + Quantity(r, i, p)
    /\ total[n] = taken[r][p]

HoldsAllLines(r) == HoldsLines(r, Len(input[r].items))

\* An order that exists has every item it was asked for.  A request that has
\* ended, be it by an error, a lost connection or a crash, left all rows of its
\* order behind or none, and none if the error came before the commit.
AllOrNothing ==
  \A r \in Requests :
    /\ r \in orders => HoldsAllLines(r)
    /\ pc[r] = "done" => taken[r] = Nothing \/ HoldsAllLines(r)
    /\ pc[r] = "done" /\ outcome[r] \in Refusals
         => r \notin orders /\ taken[r] = Nothing

\* Among the orders that exist, an idempotency key occurs once, however the
\* lookups, inserts and rollbacks of requests with that key interleave.
OneOrderPerKey ==
  \A o1, o2 \in orders : SameIndexKey(Key(o1), Key(o2)) => o1 = o2

\* A duplicate answer carries another request's committed order of the same
\* key, complete, and its own request stored nothing.
DuplicateAnswer ==
  \A r \in Requests : outcome[r] = "duplicate" =>
    /\ r \notin orders /\ taken[r] = Nothing
    /\ returned[r] \in Requests \ {r}
    /\ Key(returned[r]) = Key(r)
    /\ HoldsAllLines(returned[r])

\* A request that has its answer holds no row lock, and no pooled connection
\* either unless its startTransaction() threw: every path through the try block
\* passes finally, whatever breaks in it.
NothingHeldAfterAnswer ==
  \A r \in Requests : pc[r] = "done" =>
    /\ r \in conns => outcome[r] = "NotStarted"
    /\ \A p \in Products : lock[p] # r

\* Every request that arrived is answered, or dies with the process: row
\* locks, key waits, deadlocks and the pool never hold one up forever.
EveryRequestAnswered ==
  \A r \in Requests : pc[r] # "start" ~> pc[r] = "done"

\* README.md: "After the transaction commits, API publishes a message to
\* `orders.process`".  A client that holds an order (201, or 200 for a retry
\* with the same key) can count on its message having been published, unless
\* the creating request is just about to or the order is gone.
AnsweredOrderIsPublished ==
  \A r \in Requests :
    LET o == IF outcome[r] = "duplicate" THEN returned[r] ELSE r IN
    pc[r] = "done" /\ outcome[r] \in {"created", "duplicate"} =>
      o \in published \/ pc[o] = "publish" \/ o \notin orders

Atomic == INSTANCE AtomicOrders WITH
  OrderIds <- Requests,
  orders <- {[id |-> r, key |-> Key(r), take |-> taken[r]] : r \in orders}

\* create() looks atomic from outside: each of its steps is, on the committed
\* tables, a placing of a whole order, a removal of orders, or nothing.
ImplementsAtomicOrders == Atomic!Spec
=============================================================================
