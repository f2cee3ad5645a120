-------------------------- MODULE MC_OrderCreation --------------------------
(* Small instances of OrderCreation for TLC.                               *)
EXTENDS OrderCreation, TLC

CONSTANTS alice, key1, book, pen

Line1(x, n) == <<[productId |-> x, quantity |-> n]>>
Body(key, items) == [userId |-> alice, key |-> key, items |-> items]

\* Two products in both orders (deadlock), one product twice (a transaction
\* reading its own write), with a key, without and with the empty one.
MCInputs ==
  { Body(key1, Line1(book, 1) \o Line1(pen, 1)),
    Body(NoKey, Line1(pen, 1) \o Line1(book, 2)),
    Body(key1, Line1(book, 1) \o Line1(book, 1)),
    Body(EmptyKey, Line1(book, 1)) }

\* Also a quantity of zero, refused after another item was saved, and orders
\* without items, refused before the transaction.
MCAllInputs == MCInputs \cup
  { Body(key1, Line1(book, 1) \o Line1(pen, 0)), Body(key1, <<>>), Body(NoKey, <<>>) }

\* Retries of one request.
MCSameKey == { Body(key1, Line1(book, 1)) }

MCStock == (book :> 3) @@ (pen :> 1)

RequestSymmetry == Permutations(Requests)
=============================================================================
