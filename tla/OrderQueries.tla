---------------------------- MODULE OrderQueries ----------------------------
(***************************************************************************)
(* OrdersService.getAllConnection (the GraphQL query orders) and a client  *)
(* that walks through the list page by page, while orders are created,     *)
(* processed and deleted.                                                  *)
(*                                                                         *)
(* One page takes up to three statements without a transaction around      *)
(* them: getCount, and for getMany with a limit (the items are joined) one *)
(* for the ids of the page and one for their rows.  created_at is the time *)
(* an order's transaction began, so an order may appear below orders that  *)
(* have been listed already.                                               *)
(***************************************************************************)
EXTENDS Integers, FiniteSets

CONSTANTS
  OrderIds,      \* numbers, in the order of the uuids they stand for
  CreatedAt,     \* per order: created_at
  AtStart,       \* orders that exist at the start
  Statuses,
  Filters,       \* the filters clients send
  Limits,        \* the limits clients send
  Absent,        \* undefined
  Null,          \* a null the client has sent
  MaxWrites

Filter ==
  [status : Statuses \cup {Absent}, dateFrom : Nat \cup {Absent}, dateTo : Nat \cup {Absent}]

ASSUME OrdersAssumption ==
  /\ OrderIds \subseteq Nat /\ IsFiniteSet(OrderIds)
  /\ CreatedAt \in [OrderIds -> Nat]
  /\ AtStart \subseteq OrderIds
ASSUME InputsAssumption ==
  /\ {"PENDING", "PROCESSED"} \subseteq Statuses
  /\ Filters \subseteq Filter
  /\ Limits \subseteq Int \cup {Absent, Null}
  /\ Absent \notin Int /\ Null \notin Int
ASSUME WritesAssumption == MaxWrites \in Nat

VARIABLES
  rows, status,  \* the table orders
  created,       \* orders that were ever inserted
  writes,        \* writes so far
  \* the client and the request it waits for
  pc,            \* what the request does next
  filter, limit, offset,
  totalCount,
  ids,           \* orders on the page
  seen,          \* nodes so far, each with the offset of its page
  \* history, since the walk began
  steady,        \* orders that matched the filter all the time
  grown, shrunk, \* an order has joined, has left the list
  raced          \* ... and one has since the count of the page

tableVars == <<rows, status, created, writes>>
requestVars == <<pc, filter, limit, offset, totalCount, ids, seen>>
history == <<steady, grown, shrunk, raced>>
vars == <<tableVars, requestVars, history>>

\* The WHERE clause.
Matches(f, o) ==
  /\ f.status # Absent => status[o] = f.status
  /\ f.dateFrom # Absent => CreatedAt[o] >= f.dateFrom
  /\ f.dateTo # Absent => CreatedAt[o] <= f.dateTo

Matching(f) == {o \in rows : Matches(f, o)}

\* ORDER BY created_at DESC, and the primary key that TypeORM adds.
Before(a, b) == CreatedAt[a] > CreatedAt[b] \/ (CreatedAt[a] = CreatedAt[b] /\ a < b)

\* Where the list has order o, counted from 0.
Position(f, o) == Cardinality({a \in Matching(f) : Before(a, o)})

NoFilter == [status |-> Absent, dateFrom |-> Absent, dateTo |-> Absent]

Init ==
  /\ rows = AtStart
  /\ status = [o \in OrderIds |-> "PENDING"]
  /\ created = AtStart
  /\ writes = 0
  /\ pc = "start" /\ filter = NoFilter /\ limit = Absent /\ offset = 0
  /\ totalCount = 0 /\ ids = {} /\ seen = {}
  /\ steady = {} /\ grown = FALSE /\ shrunk = FALSE /\ raced = FALSE

-----------------------------------------------------------------------------
(* getAllConnection, page after page.                                      *)

\* validateFilters
ValidFilter(f) == f.dateFrom # Absent /\ f.dateTo # Absent => f.dateFrom <= f.dateTo

\* validatePagination; null <= 0 holds.  The check of the offset passes: the walk
\* sends none at first, and then multiples of the limit.
ValidLimit(l) == l = Absent \/ (l # Null /\ l > 0)

\* The query orders, without an offset at first.
StartWalk(f, l) ==
  /\ pc = "start"
  /\ filter' = f /\ limit' = l
  /\ pc' = IF ValidFilter(f) /\ ValidLimit(l) THEN "count" ELSE "refused"
  /\ steady' = Matching(f)
  /\ UNCHANGED <<tableVars, offset, totalCount, ids, seen, grown, shrunk, raced>>

GetCount ==
  /\ pc = "count"
  /\ totalCount' = Cardinality(Matching(filter))
  /\ raced' = FALSE
  /\ pc' = "page"
  /\ UNCHANGED <<tableVars, filter, limit, offset, ids, seen, steady, grown, shrunk>>

\* Mutant: skip(offset + 1).
MutSkipOne(f) == {o \in Matching(f) : Position(f, o) > offset}

\* skip and take
Window(f) ==
  {o \in Matching(f) : /\ Position(f, o) >= offset
                       /\ limit # Absent => Position(f, o) < offset + limit}

\* Mutant: the last index is compared with the count.
MutLastIndex == offset + limit < totalCount - 1

HasNextPage == offset + limit < totalCount

See(nodes) == seen' = seen \cup {[page |-> offset, order |-> o] : o \in nodes}

\* The page is answered; the client goes on as long as there is a next page and
\* does not look at hasPreviousPage.
AnswerPage(nodes) ==
  /\ See(nodes)
  /\ \/ HasNextPage /\ offset' = offset + limit /\ pc' = "count"
     \/ ~HasNextPage /\ pc' = "complete" /\ UNCHANGED offset

\* getMany without a limit: one statement.  The limit then is the count, so
\* there is no next page.
GetAll ==
  /\ pc = "page" /\ limit = Absent
  /\ See(Window(filter))
  /\ pc' = "complete"
  /\ UNCHANGED <<tableVars, filter, limit, offset, totalCount, ids, history>>

\* getMany with a limit: the ids first.
GetIds ==
  /\ pc = "page" /\ limit # Absent
  /\ ids' = Window(filter)
  /\ pc' = "nodes"
  /\ UNCHANGED <<tableVars, filter, limit, offset, totalCount, seen, history>>

\* The rows of the page, as far as they are there and still match.
GetNodes ==
  /\ pc = "nodes"
  /\ AnswerPage(ids \cap Matching(filter))
  /\ UNCHANGED <<tableVars, filter, limit, totalCount, ids, history>>

\* A statement fails: "Failed to fetch orders".
FailQuery ==
  /\ pc \in {"count", "page", "nodes"}
  /\ pc' = "failed"
  /\ UNCHANGED <<tableVars, filter, limit, offset, totalCount, ids, seen, history>>

-----------------------------------------------------------------------------
(* Writes of other requests, before and during the walk.                   *)

Ended == {"complete", "refused", "failed"}

Write ==
  /\ pc \notin Ended
  /\ writes < MaxWrites
  /\ writes' = writes + 1

\* What the write has done to the client's list.
Observe ==
  LET before == Matching(filter)
      after == Matching(filter)'
      walking == pc # "start"
  IN
  /\ steady' = steady \cap after
  /\ grown' = (grown \/ (walking /\ ~(after \subseteq before)))
  /\ shrunk' = (shrunk \/ (walking /\ ~(before \subseteq after)))
  /\ raced' = (raced \/ (pc = "page" /\ after # before))

\* create() commits.
CommitOrder(o) ==
  /\ Write
  /\ o \notin created
  /\ rows' = rows \cup {o}
  /\ created' = created \cup {o}
  /\ UNCHANGED <<status, requestVars>>
  /\ Observe

\* processOrderMessage commits.
ProcessOrder(o) ==
  /\ Write
  /\ o \in rows /\ status[o] # "PROCESSED"
  /\ status' = [status EXCEPT ![o] = "PROCESSED"]
  /\ UNCHANGED <<rows, created, requestVars>>
  /\ Observe

\* DELETE /orders/:id
DeleteOrder(o) ==
  /\ Write
  /\ o \in rows
  /\ rows' = rows \ {o}
  /\ UNCHANGED <<status, created, requestVars>>
  /\ Observe

Answered == pc \in Ended /\ UNCHANGED vars

Next ==
  \/ \E f \in Filters, l \in Limits : StartWalk(f, l)
  \/ GetCount
  \/ GetAll
  \/ GetIds
  \/ GetNodes
  \/ FailQuery
  \/ \E o \in OrderIds : CommitOrder(o) \/ ProcessOrder(o) \/ DeleteOrder(o)
  \/ Answered

Spec == Init /\ [][Next]_vars

-----------------------------------------------------------------------------
(* Properties.                                                             *)

Listed == {x.order : x \in seen}
NoneTwice == \A x, y \in seen : x.order = y.order => x.page = y.page

\* If nothing happens to the list, the pages of a walk put together are the
\* list, in its order: offsets, limits and hasNextPage fit together at every
\* boundary.
WalkMatchesListing ==
  pc = "complete" /\ ~grown /\ ~shrunk =>
    /\ Listed = Matching(filter) /\ NoneTwice
    /\ \A x, y \in seen : Before(x.order, y.order) => x.page <= y.page

\* What a client can rely on while the list changes.  An order that belongs to
\* the list all the time is missed only if another one left the list, or joined
\* it between the count of the last page and its ids; an order is listed twice
\* only if another one joined.
WalkUnderWrites ==
  pc = "complete" =>
    /\ steady \subseteq Listed \/ shrunk \/ raced
    /\ NoneTwice \/ grown
=============================================================================
