---------------------------- MODULE AtomicOrders ----------------------------
(***************************************************************************)
(* What OrdersService promises to its callers, with no transactions, locks *)
(* or connections in sight: an order is placed in one indivisible step     *)
(* that finds all its items in stock, takes them, and books the order      *)
(* under an idempotency key that no existing order has.  OrderCreation is  *)
(* shown to implement this specification.                                  *)
(***************************************************************************)
EXTENDS Integers

CONSTANTS
  OrderIds,      \* identities of orders (uuids)
  Products,      \* rows of the products table
  AllKeys,       \* values of orders.idempotency_key, the NULL included
  NoKey,         \* the NULL among them: the unique index ignores it
  MaxStock,      \* the largest stock of any product
  InitialStock   \* stock of each product before the first order

VARIABLES
  stock,         \* units left of each product
  orders         \* existing orders: [id, key, take]

vars == <<stock, orders>>

Init ==
  /\ stock = InitialStock
  /\ orders = {}

\* Book order o under key k for the quantities take, all or nothing.
PlaceOrder(o, k, take) ==
  /\ \A x \in orders : x.id # o /\ (k = NoKey \/ x.key # k)
  /\ \A p \in Products : take[p] <= stock[p]
  /\ stock' = [p \in Products |-> stock[p] - take[p]]
  /\ orders' = orders \cup {[id |-> o, key |-> k, take |-> take]}

\* Orders disappear one by one or, with their user, several at once; what
\* they took is not put back.
RemoveOrders ==
  /\ orders' \subseteq orders
  /\ UNCHANGED stock

Next ==
  \/ RemoveOrders
  \/ \E o \in OrderIds, k \in AllKeys, take \in [Products -> 0..MaxStock] :
        PlaceOrder(o, k, take)

Spec == Init /\ [][Next]_vars
=============================================================================
