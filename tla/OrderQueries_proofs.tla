------------------------ MODULE OrderQueries_proofs ------------------------
(***************************************************************************)
(* Proofs about OrderQueries, for any orders, filters and limits and any   *)
(* number of writes.                                                       *)
(*                                                                         *)
(* As long as no order leaves the list, the position of an order can only  *)
(* grow; as long as none joins, it can only shrink.  The first keeps the   *)
(* orders a walk has yet to see behind its offset, the second the ones it  *)
(* has seen before it.                                                     *)
(***************************************************************************)
EXTENDS OrderQueries, FiniteSetTheorems, TLAPS

USE OrdersAssumption, InputsAssumption, WritesAssumption

List == Matching(filter)
At(o) == Position(filter, o)

Walking == {"count", "page", "nodes"}

-----------------------------------------------------------------------------
(* The inductive invariant.                                                *)

Types ==
  /\ rows \subseteq OrderIds /\ status \in [OrderIds -> Statuses]
  /\ filter \in Filters \cup {NoFilter} /\ limit \in Limits \cup {Absent}
  /\ offset \in Nat /\ totalCount \in Nat
  /\ ids \subseteq OrderIds /\ seen \subseteq [page : Nat, order : OrderIds]
  /\ grown \in BOOLEAN /\ shrunk \in BOOLEAN /\ raced \in BOOLEAN
  /\ pc \in {"start"} \cup Walking \cup Ended

\* A walk without a limit has one page.  Pages seen are before the offset.
PagesInv ==
  /\ pc = "start" => seen = {} /\ offset = 0
  /\ pc \in Walking => /\ limit # Absent => limit \in Nat /\ limit > 0
                       /\ limit = Absent => seen = {} /\ offset = 0 /\ pc # "nodes"
                       /\ \A x \in seen : x.page < offset

\* The histories: what was in the list all the time is in it, all of the list
\* was if none joined, and the count is that of the list if no write raced.
HistoryInv ==
  /\ pc # "start" => /\ steady \subseteq List
                     /\ ~grown => List \subseteq steady
  /\ raced => grown \/ shrunk
  /\ pc = "page" /\ ~raced => totalCount = Cardinality(List)

\* If none left the list, the orders not seen yet are behind the offset, and
\* those on the page being fetched are at the offset or behind it.
NoneMissed ==
  ~shrunk =>
    /\ pc # "start" => Listed \subseteq List
    /\ pc \in {"count", "page"} => \A o \in steady : o \in Listed \/ At(o) >= offset
    /\ pc = "nodes" =>
         /\ \A o \in steady : o \in Listed \/ o \in ids \/ At(o) >= offset + limit
         /\ \A o \in ids : o \in List /\ At(o) >= offset
         /\ ~raced => \A o \in steady : o \in Listed \/ o \in ids \/ offset + limit < totalCount

\* If none joined the list, what was seen is before the offset.
NoneRepeated ==
  ~grown =>
    /\ NoneTwice
    /\ pc \in Walking => \A o \in Listed \cap List : At(o) < offset
    /\ pc = "nodes" => /\ ids \cap Listed = {}
                       /\ \A o \in ids \cap List : At(o) < offset + limit

\* If neither happened, pages are in the order of the list.
InOrder == ~grown /\ ~shrunk => \A x, y \in seen : Before(x.order, y.order) => x.page <= y.page

WalkInv ==
  Types /\ PagesInv /\ HistoryInv /\ NoneMissed /\ NoneRepeated /\ InOrder
  /\ WalkMatchesListing /\ WalkUnderWrites

-----------------------------------------------------------------------------
(* Positions.                                                              *)

\* Lists are finite, and a longer list has an order no earlier.
LEMMA Cardinalities ==
  ASSUME NEW S \in SUBSET OrderIds, NEW T \in SUBSET S, NEW o
  PROVE  /\ Cardinality(S) \in Nat /\ IsFiniteSet(S)
         /\ Cardinality({a \in S : Before(a, o)}) \in Nat
         /\ Cardinality({a \in T : Before(a, o)}) <= Cardinality({a \in S : Before(a, o)})
<1>1. IsFiniteSet(S)
  BY FS_Subset
<1>2. IsFiniteSet({a \in S : Before(a, o)})
  BY <1>1, FS_Subset
<1>3. {a \in T : Before(a, o)} \subseteq {a \in S : Before(a, o)}
  OBVIOUS
<1> QED  BY <1>1, <1>2, <1>3, FS_Subset, FS_CardinalityType

\* An order of the list is before its end.
LEMMA PositionInside ==
  ASSUME NEW S \in SUBSET OrderIds, NEW o \in S
  PROVE  Cardinality({a \in S : Before(a, o)}) < Cardinality(S)
<1>1. IsFiniteSet(S)
  BY FS_Subset
<1>2. CreatedAt[o] \in Nat /\ o \in Nat
  OBVIOUS
<1>3. o \notin {a \in S : Before(a, o)}
  BY <1>2 DEF Before
<1>4. {a \in S : Before(a, o)} \subseteq S
  OBVIOUS
<1>5. {a \in S : Before(a, o)} # S
  BY <1>3
<1>6. /\ Cardinality({a \in S : Before(a, o)}) <= Cardinality(S)
      /\ Cardinality({a \in S : Before(a, o)}) # Cardinality(S)
  BY <1>1, <1>4, <1>5, FS_Subset
<1>7. Cardinality(S) \in Nat /\ Cardinality({a \in S : Before(a, o)}) \in Nat
  BY Cardinalities
<1> QED  BY <1>6, <1>7

\* The order of the list is the order of positions.
LEMMA PositionOrder ==
  ASSUME NEW S \in SUBSET OrderIds, NEW x \in OrderIds, NEW y \in OrderIds, Before(x, y)
  PROVE  Cardinality({a \in S : Before(a, x)}) <= Cardinality({a \in S : Before(a, y)})
<1>1. ASSUME NEW a \in S, Before(a, x) PROVE Before(a, y)
  <2>1. /\ CreatedAt[a] \in Nat /\ CreatedAt[x] \in Nat /\ CreatedAt[y] \in Nat
        /\ a \in Nat /\ x \in Nat /\ y \in Nat
    OBVIOUS
  <2> QED  BY <1>1, <2>1 DEF Before
<1>2. {a \in S : Before(a, x)} \subseteq {a \in S : Before(a, y)}
  BY <1>1
<1>3. IsFiniteSet({a \in S : Before(a, y)})
  <2>1. IsFiniteSet(S)
    BY FS_Subset
  <2> QED  BY <2>1, FS_Subset
<1> QED  BY <1>2, <1>3, FS_Subset

\* The same of the list of the client.
LEMMA Positions ==
  ASSUME Types
  PROVE  /\ List \in SUBSET OrderIds /\ Cardinality(List) \in Nat
         /\ \A o \in OrderIds : At(o) \in Nat /\ At(o) = Cardinality({a \in List : Before(a, o)})
         /\ \A o \in List : At(o) < Cardinality(List)
         /\ \A x, y \in OrderIds : Before(x, y) => At(x) <= At(y)
<1>1. List \in SUBSET OrderIds
  BY DEF List, Matching, Types
<1>2. \A o \in OrderIds : At(o) = Cardinality({a \in List : Before(a, o)})
  BY DEF At, Position, List
<1> QED  BY <1>1, <1>2, Cardinalities, PositionInside, PositionOrder

\* And of the list after a step.
LEMMA NextPositions ==
  ASSUME Types'
  PROVE  /\ List' \in SUBSET OrderIds
         /\ \A o \in OrderIds :
              At(o)' \in Nat /\ At(o)' = Cardinality({a \in List' : Before(a, o)})
<1>1. List' \in SUBSET OrderIds
  BY DEF List, Matching, Types
<1>2. \A o \in OrderIds : At(o)' = Cardinality({a \in List' : Before(a, o)})
  BY DEF At, Position, List
<1> QED  BY <1>1, <1>2, Cardinalities

-----------------------------------------------------------------------------
(* The steps of a walk.                                                    *)

\* A step of the walk leaves the list and its positions alone.
LEMMA ListStays ==
  ASSUME UNCHANGED <<rows, status, filter>>
  PROVE  List' = List /\ \A o \in OrderIds : At(o)' = At(o)
BY DEF List, At, Position, Matching, Matches

\* The query arrives.
LEMMA StartStep ==
  ASSUME WalkInv, NEW f \in Filters, NEW l \in Limits, StartWalk(f, l)
  PROVE  WalkInv'
<1>0. /\ pc = "start" /\ seen' = {} /\ offset' = 0 /\ filter' = f /\ limit' = l
      /\ pc' = IF ValidFilter(f) /\ ValidLimit(l) THEN "count" ELSE "refused"
      /\ UNCHANGED <<tableVars, offset, totalCount, ids, seen, grown, shrunk, raced>>
  BY DEF StartWalk, WalkInv, PagesInv
<1>1. Types'
  BY <1>0 DEF WalkInv, Types, tableVars, Walking, Ended
<1>2. PagesInv'
  BY <1>0 DEF PagesInv, Walking, Ended, ValidLimit
<1>3. steady' = List'
  <2>1. steady' = Matching(f)
    BY DEF StartWalk
  <2>2. List' = Matching(f)
    BY <1>0 DEF List, Matching, Matches, tableVars
  <2> QED  BY <2>1, <2>2
<1>4. HistoryInv'
  BY <1>0, <1>3 DEF WalkInv, HistoryInv
<1>5. Listed' = {}
  BY <1>0 DEF Listed
<1>6. \A o \in List' : At(o)' \in Nat
  BY <1>1, NextPositions
<1>7. NoneMissed'
  BY <1>0, <1>3, <1>5, <1>6 DEF NoneMissed
<1>8. NoneRepeated' /\ InOrder'
  BY <1>0, <1>5 DEF NoneRepeated, InOrder, NoneTwice
<1>9. WalkMatchesListing' /\ WalkUnderWrites'
  BY <1>0 DEF WalkMatchesListing, WalkUnderWrites
<1> QED  BY <1>1, <1>2, <1>4, <1>7, <1>8, <1>9 DEF WalkInv

\* getCount.
LEMMA CountStep ==
  ASSUME WalkInv, GetCount
  PROVE  WalkInv'
<1> USE DEF WalkInv, tableVars
<1>0. /\ pc = "count" /\ pc' = "page" /\ totalCount' = Cardinality(List) /\ raced' = FALSE
      /\ UNCHANGED <<rows, status, filter, limit, offset, ids, seen, steady, grown, shrunk>>
  BY DEF GetCount, List
<1>1. List' = List /\ Listed' = Listed /\ NoneTwice' = NoneTwice /\ \A o \in OrderIds : At(o)' = At(o)
  BY <1>0, ListStays DEF Listed, NoneTwice
<1>2. List \subseteq OrderIds /\ Cardinality(List) \in Nat
  BY Positions
<1>3. Types' /\ PagesInv'
  BY <1>0, <1>2 DEF Types, PagesInv, Walking
<1>4. HistoryInv'
  BY <1>0, <1>1 DEF HistoryInv
<1>5. NoneMissed'
  BY <1>0, <1>1, <1>2 DEF NoneMissed, HistoryInv
<1>6. NoneRepeated' /\ InOrder'
  BY <1>0, <1>1, <1>2 DEF NoneRepeated, InOrder, Walking
<1>7. WalkMatchesListing' /\ WalkUnderWrites'
  BY <1>0 DEF WalkMatchesListing, WalkUnderWrites
<1> QED  BY <1>3, <1>4, <1>5, <1>6, <1>7

\* getMany without a limit: one page with all of the list.
LEMMA AllStep ==
  ASSUME WalkInv, GetAll
  PROVE  WalkInv'
<1> USE DEF WalkInv, tableVars
<1>0. /\ pc = "page" /\ pc' = "complete" /\ limit = Absent /\ seen = {} /\ offset = 0
      /\ UNCHANGED <<rows, status, filter, limit, offset, totalCount, ids, history>>
  BY DEF GetAll, PagesInv, Walking
<1>1. List' = List /\ List \subseteq OrderIds /\ \A o \in List : At(o) \in Nat
  BY <1>0, ListStays, Positions
<1>2. Window(filter) = List
  BY <1>0, <1>1 DEF Window, List, At
<1>3. seen' = {[page |-> 0, order |-> o] : o \in List}
  BY <1>0, <1>2 DEF GetAll, See
<1>4. Listed' = List /\ NoneTwice'
  <2>1. \A x \in seen' : x.page = 0 /\ x.order \in List
    BY <1>3
  <2>2. \A o \in List : [page |-> 0, order |-> o] \in seen'
    BY <1>3
  <2>3. \A o \in List : o \in {x.order : x \in seen'}
    <3> SUFFICES ASSUME NEW o \in List PROVE o \in {x.order : x \in seen'}
      OBVIOUS
    <3> DEFINE x == [page |-> 0, order |-> o]
    <3>1. x \in seen' /\ x.order = o
      BY <2>2
    <3> QED  BY <3>1
  <2> QED  BY <2>1, <2>3 DEF Listed, NoneTwice
<1>5. Types' /\ PagesInv'
  BY <1>0, <1>1, <1>3 DEF Types, PagesInv, Walking, Ended, history
<1>6. HistoryInv'
  BY <1>0, <1>1 DEF HistoryInv, history
<1>7. NoneMissed' /\ NoneRepeated'
  BY <1>0, <1>1, <1>4 DEF NoneMissed, NoneRepeated, Walking
<1>8. \A x, y \in seen' : x.page <= y.page
  BY <1>3
<1>9. InOrder'
  BY <1>8 DEF InOrder
<1>10. steady' \subseteq List
  BY <1>0 DEF HistoryInv, history
<1>11. Matching(filter)' = List
  BY <1>1 DEF List
<1>12. WalkMatchesListing' /\ WalkUnderWrites'
  BY <1>4, <1>8, <1>10, <1>11 DEF WalkMatchesListing, WalkUnderWrites
<1> QED  BY <1>5, <1>6, <1>7, <1>9, <1>12

\* getMany with a limit: the ids of the page.
LEMMA IdsStep ==
  ASSUME WalkInv, GetIds
  PROVE  WalkInv'
<1> USE DEF WalkInv, tableVars
<1>0. /\ pc = "page" /\ pc' = "nodes" /\ limit # Absent /\ limit \in Nat /\ limit > 0 /\ offset \in Nat
      /\ UNCHANGED <<rows, status, filter, limit, offset, totalCount, seen, history>>
  BY DEF GetIds, PagesInv, Walking, Types
<1>1. List' = List /\ Listed' = Listed /\ NoneTwice' = NoneTwice /\ \A o \in OrderIds : At(o)' = At(o)
  BY <1>0, ListStays DEF Listed, NoneTwice
<1>2. /\ List \subseteq OrderIds /\ \A o \in List : At(o) \in Nat /\ At(o) < Cardinality(List)
      /\ Cardinality(List) \in Nat
  BY Positions
<1>3. ids' = {o \in List : At(o) >= offset /\ At(o) < offset + limit}
  BY <1>0 DEF GetIds, Window, List, At
<1>4. Types' /\ PagesInv'
  BY <1>0, <1>2, <1>3 DEF Types, PagesInv, Walking, history
<1>5. HistoryInv'
  BY <1>0, <1>1 DEF HistoryInv, history
<1>6. NoneMissed'
  <2> SUFFICES ASSUME ~shrunk PROVE NoneMissed'
    BY <1>0 DEF NoneMissed, history
  <2>1. Listed \subseteq List /\ steady \subseteq List /\ \A o \in steady : o \in Listed \/ At(o) >= offset
    BY <1>0 DEF NoneMissed, HistoryInv
  <2>2. \A o \in steady : o \in Listed \/ o \in ids' \/ At(o) >= offset + limit
    BY <1>0, <1>2, <1>3, <2>1
  <2>3. ~raced => \A o \in steady : o \in Listed \/ o \in ids' \/ offset + limit < totalCount
    BY <1>0, <1>2, <2>1, <2>2 DEF HistoryInv
  <2>4. \A o \in ids' : o \in List /\ At(o) >= offset
    BY <1>3
  <2> QED  BY <1>0, <1>1, <1>2, <2>1, <2>2, <2>3, <2>4 DEF NoneMissed, history
<1>7. NoneRepeated'
  <2> SUFFICES ASSUME ~grown PROVE NoneRepeated'
    BY <1>0 DEF NoneRepeated, history
  <2>1. NoneTwice /\ \A o \in Listed \cap List : At(o) < offset
    BY <1>0 DEF NoneRepeated, Walking
  <2>2. ids' \cap Listed = {}
    <3> SUFFICES ASSUME NEW o \in ids', o \in Listed PROVE FALSE
      OBVIOUS
    <3>1. o \in List /\ At(o) >= offset
      BY <1>3
    <3>2. At(o) < offset /\ At(o) \in Nat
      BY <1>2, <2>1, <3>1
    <3> QED  BY <1>0, <3>1, <3>2
  <2> QED  BY <1>0, <1>1, <1>2, <1>3, <2>1, <2>2 DEF NoneRepeated
<1>8. InOrder'
  BY <1>0 DEF InOrder, history
<1>9. WalkMatchesListing' /\ WalkUnderWrites'
  BY <1>0 DEF WalkMatchesListing, WalkUnderWrites
<1> QED  BY <1>4, <1>5, <1>6, <1>7, <1>8, <1>9

\* The page is answered.  What is new on it was not seen before unless an order
\* has joined, and comes after what was seen.
LEMMA NodesStep ==
  ASSUME WalkInv, GetNodes
  PROVE  WalkInv'
<1> USE DEF WalkInv, tableVars
<1> DEFINE nodes == ids \cap List
<1>0. /\ pc = "nodes" /\ limit # Absent /\ limit \in Nat /\ limit > 0 /\ offset \in Nat
      /\ totalCount \in Nat /\ ids \subseteq OrderIds
      /\ seen \subseteq [page : Nat, order : OrderIds]
      /\ UNCHANGED <<rows, status, filter, limit, totalCount, ids, steady, grown, shrunk, raced>>
      /\ \/ offset + limit < totalCount /\ offset' = offset + limit /\ pc' = "count"
         \/ ~(offset + limit < totalCount) /\ offset' = offset /\ pc' = "complete"
  BY DEF GetNodes, AnswerPage, HasNextPage, PagesInv, Walking, Types, history
<1>1. List' = List /\ \A o \in OrderIds : At(o)' = At(o)
  BY <1>0, ListStays
<1>2. /\ List \subseteq OrderIds /\ \A o \in OrderIds : At(o) \in Nat
      /\ \A x, y \in OrderIds : Before(x, y) => At(x) <= At(y)
  BY Positions
<1>3. seen' = seen \cup {[page |-> offset, order |-> o] : o \in nodes}
  BY DEF GetNodes, AnswerPage, See, List
<1> HIDE DEF nodes
<1>4. nodes \subseteq ids /\ nodes \subseteq List /\ \A o \in ids : o \in List => o \in nodes
  BY DEF nodes
<1>5. \A x \in seen' : x \in seen \/ (x.page = offset /\ x.order \in nodes)
  BY <1>3
<1>6. Listed' = Listed \cup nodes
  <2>1. \A o \in Listed : o \in {x.order : x \in seen'}
    BY <1>3 DEF Listed
  <2>2. ASSUME NEW o \in nodes PROVE o \in {x.order : x \in seen'}
    <3> DEFINE x == [page |-> offset, order |-> o]
    <3>1. x \in seen' /\ x.order = o
      BY <1>3
    <3> QED  BY <3>1
  <2>3. \A x \in seen' : x.order \in Listed \cup nodes
    BY <1>5 DEF Listed
  <2> QED  BY <2>1, <2>2, <2>3 DEF Listed
<1>7. seen' \subseteq [page : Nat, order : OrderIds] /\ \A x \in seen' : x.page <= offset
  <2>1. \A o \in nodes : [page |-> offset, order |-> o] \in [page : Nat, order : OrderIds]
    BY <1>0, <1>2, <1>4
  <2>2. \A x \in seen : x.page < offset /\ x.page \in Nat
    BY <1>0 DEF PagesInv, Walking
  <2> QED  BY <1>0, <1>3, <1>5, <2>1, <2>2
<1>8. \A x \in seen' : x.page \in Nat /\ x.order \in OrderIds
  BY <1>7
<1>9. Types'
  BY <1>0, <1>7 DEF Types, Walking, Ended
<1>10. PagesInv'
  <2>1. pc' = "count" => \A x \in seen' : x.page < offset'
    BY <1>0, <1>7, <1>8
  <2> QED  BY <1>0, <2>1 DEF PagesInv, Walking, Ended
<1>11. HistoryInv' /\ steady' \subseteq List
  BY <1>0, <1>1 DEF HistoryInv
<1>12. NoneMissed'
  <2> SUFFICES ASSUME ~shrunk PROVE NoneMissed'
    BY <1>0 DEF NoneMissed
  <2>1. Listed' \subseteq List
    BY <1>0, <1>4, <1>6 DEF NoneMissed
  <2>2. \A o \in steady : o \in Listed' \/ At(o) >= offset + limit
    BY <1>0, <1>4, <1>6, <1>11 DEF NoneMissed
  <2> QED  BY <1>0, <1>1, <1>2, <1>11, <2>1, <2>2 DEF NoneMissed, Ended
<1>13. ASSUME ~grown PROVE NoneTwice'
  <2> SUFFICES ASSUME NEW x \in seen', NEW y \in seen', x.order = y.order PROVE x.page = y.page
    BY DEF NoneTwice
  <2>1. NoneTwice /\ ids \cap Listed = {}
    BY <1>0, <1>13 DEF NoneRepeated
  <2>2. CASE x \in seen /\ y \in seen
    BY <2>1, <2>2 DEF NoneTwice
  <2>3. CASE x \notin seen /\ y \notin seen
    BY <1>5, <2>3
  <2>4. CASE (x \in seen) # (y \in seen)
    <3>1. x.order \in Listed /\ x.order \in nodes
      BY <1>5, <2>4 DEF Listed
    <3> QED  BY <1>4, <2>1, <3>1
  <2> QED  BY <2>2, <2>3, <2>4
<1>14. NoneRepeated'
  <2> SUFFICES ASSUME ~grown PROVE NoneRepeated'
    BY <1>0 DEF NoneRepeated
  <2>1. \A o \in Listed \cap List : At(o) < offset
    BY <1>0 DEF NoneRepeated, Walking
  <2>2. \A o \in ids \cap List : At(o) < offset + limit
    BY <1>0 DEF NoneRepeated
  <2>3. \A o \in Listed' \cap List : At(o) < offset + limit
    <3> SUFFICES ASSUME NEW o \in Listed' \cap List PROVE At(o) < offset + limit
      OBVIOUS
    <3>1. At(o) \in Nat
      BY <1>2
    <3>2. CASE o \in Listed
      BY <1>0, <2>1, <3>1, <3>2
    <3>3. CASE o \in nodes
      BY <1>4, <2>2, <3>3
    <3> QED  BY <1>6, <3>2, <3>3
  <2> QED  BY <1>0, <1>1, <1>2, <1>13, <2>3 DEF NoneRepeated, Walking
<1>15. ASSUME ~grown, ~shrunk PROVE \A x, y \in seen' : Before(x.order, y.order) => x.page <= y.page
  <2> SUFFICES ASSUME NEW x \in seen', NEW y \in seen', Before(x.order, y.order) PROVE x.page <= y.page
    OBVIOUS
  <2>1. CASE x \in seen /\ y \in seen
    BY <1>15, <2>1 DEF InOrder
  <2>2. CASE y \notin seen
    BY <1>0, <1>5, <1>7, <1>8, <2>2
  <2>3. CASE x \notin seen /\ y \in seen
    <3>1. x.order \in nodes /\ y.order \in Listed
      BY <1>5, <2>3 DEF Listed
    <3>2. At(x.order) >= offset /\ At(y.order) < offset
      BY <1>0, <1>4, <1>15, <3>1 DEF NoneMissed, NoneRepeated, Walking
    <3>3. At(x.order) <= At(y.order) /\ At(x.order) \in Nat /\ At(y.order) \in Nat
      BY <1>2, <1>8
    <3> QED  BY <1>0, <3>2, <3>3
  <2> QED  BY <2>1, <2>2, <2>3
<1>16. InOrder'
  BY <1>0, <1>15 DEF InOrder
<1>17. ASSUME pc' = "complete", ~shrunk, ~raced PROVE steady \subseteq Listed'
  BY <1>0, <1>4, <1>6, <1>11, <1>17 DEF NoneMissed
<1>18. WalkUnderWrites'
  BY <1>0, <1>13, <1>17 DEF WalkUnderWrites, Types
<1>19. WalkMatchesListing'
  <2> SUFFICES ASSUME pc' = "complete", ~grown, ~shrunk PROVE WalkMatchesListing'
    BY <1>0 DEF WalkMatchesListing
  <2>1. ~raced /\ List \subseteq steady
    BY <1>0 DEF HistoryInv
  <2>2. Listed' \subseteq List
    BY <1>0, <1>4, <1>6 DEF NoneMissed
  <2>3. Listed' = Matching(filter)'
    BY <1>1, <1>17, <2>1, <2>2 DEF List
  <2> QED  BY <1>13, <1>15, <2>3 DEF WalkMatchesListing
<1> QED  BY <1>9, <1>10, <1>11, <1>12, <1>14, <1>16, <1>18, <1>19

-----------------------------------------------------------------------------
(* Writes.                                                                 *)

\* Whatever a write does to the list is observed: if none has left, positions
\* have not become smaller, and if none has joined, not larger.
LEMMA WriteStep ==
  ASSUME WalkInv, Write, Observe, UNCHANGED requestVars,
         rows' \subseteq OrderIds, status' \in [OrderIds -> Statuses]
  PROVE  WalkInv'
<1> USE DEF WalkInv
<1>0. /\ pc \notin Ended /\ pc' = pc /\ Types
      /\ UNCHANGED <<filter, limit, offset, totalCount, ids, seen>>
      /\ steady' = steady \cap List'
      /\ grown' = (grown \/ (pc # "start" /\ ~(List' \subseteq List)))
      /\ shrunk' = (shrunk \/ (pc # "start" /\ ~(List \subseteq List')))
      /\ raced' = (raced \/ (pc = "page" /\ List' # List))
  BY DEF Write, Observe, requestVars, List
<1>1. Types' /\ PagesInv'
  BY <1>0 DEF Types, PagesInv, Walking
<1>2. Listed' = Listed /\ NoneTwice' = NoneTwice
  BY <1>0 DEF Listed, NoneTwice
<1>3. /\ List \in SUBSET OrderIds /\ List' \in SUBSET OrderIds
      /\ \A o \in OrderIds : At(o) \in Nat /\ At(o)' \in Nat
  BY <1>1, Positions, NextPositions
<1>4. ASSUME List \subseteq List' PROVE \A o \in OrderIds : At(o) <= At(o)'
  <2> SUFFICES ASSUME NEW o \in OrderIds PROVE At(o) <= At(o)'
    OBVIOUS
  <2>1. /\ At(o) = Cardinality({a \in List : Before(a, o)})
        /\ At(o)' = Cardinality({a \in List' : Before(a, o)})
    BY <1>1, Positions, NextPositions
  <2>2. Cardinality({a \in List : Before(a, o)}) <= Cardinality({a \in List' : Before(a, o)})
    BY <1>3, <1>4, Cardinalities
  <2> QED  BY <2>1, <2>2
<1>5. ASSUME List' \subseteq List PROVE \A o \in OrderIds : At(o)' <= At(o)
  <2> SUFFICES ASSUME NEW o \in OrderIds PROVE At(o)' <= At(o)
    OBVIOUS
  <2>1. /\ At(o) = Cardinality({a \in List : Before(a, o)})
        /\ At(o)' = Cardinality({a \in List' : Before(a, o)})
    BY <1>1, Positions, NextPositions
  <2>2. Cardinality({a \in List' : Before(a, o)}) <= Cardinality({a \in List : Before(a, o)})
    BY <1>3, <1>5, Cardinalities
  <2> QED  BY <2>1, <2>2
<1>6. HistoryInv'
  <2>1. CASE pc = "start"
    BY <1>0, <2>1 DEF HistoryInv
  <2>2. CASE pc # "start"
    BY <1>0, <2>2 DEF HistoryInv, Types
  <2> QED  BY <2>1, <2>2
<1>7. NoneMissed'
  <2>1. CASE pc = "start" \/ shrunk'
    BY <1>0, <2>1 DEF NoneMissed
  <2>2. CASE pc # "start" /\ ~shrunk'
    <3>1. ~shrunk /\ List \subseteq List' /\ steady' \subseteq steady /\ steady \subseteq OrderIds
      BY <1>0, <1>3, <2>2 DEF HistoryInv, Types
    <3>2. \A o \in OrderIds : At(o) <= At(o)'
      BY <1>4, <3>1
    <3>3. /\ offset \in Nat /\ ids \subseteq OrderIds
          /\ pc = "nodes" => limit \in Nat
          /\ ~raced' => ~raced
      BY <1>0 DEF Types, PagesInv, Walking
    <3>4. pc \in {"count", "page"} => \A o \in steady' : o \in Listed' \/ At(o)' >= offset'
      <4> SUFFICES ASSUME pc \in {"count", "page"}, NEW o \in steady', o \notin Listed
                   PROVE  At(o)' >= offset
        BY <1>0, <1>2
      <4>1. o \in steady /\ o \in OrderIds /\ At(o) >= offset
        BY <3>1 DEF NoneMissed
      <4>2. At(o) <= At(o)' /\ At(o) \in Nat /\ At(o)' \in Nat
        BY <1>3, <3>2, <4>1
      <4> QED  BY <3>3, <4>1, <4>2
    <3>5. ASSUME pc = "nodes"
          PROVE /\ \A o \in steady' : o \in Listed' \/ o \in ids' \/ At(o)' >= offset' + limit'
                /\ \A o \in ids' : o \in List' /\ At(o)' >= offset'
                /\ ~raced' => \A o \in steady' :
                     o \in Listed' \/ o \in ids' \/ offset' + limit' < totalCount'
      <4>1. /\ \A o \in steady : o \in Listed \/ o \in ids \/ At(o) >= offset + limit
            /\ \A o \in ids : o \in List /\ At(o) >= offset
            /\ ~raced => \A o \in steady : o \in Listed \/ o \in ids \/ offset + limit < totalCount
        BY <3>1, <3>5 DEF NoneMissed
      <4>2. \A o \in OrderIds : \A n \in Nat : At(o) >= n => At(o)' >= n
        BY <1>3, <3>2
      <4>3. offset + limit \in Nat
        BY <3>3, <3>5
      <4>4. \A o \in steady' : o \in Listed \/ o \in ids \/ At(o)' >= offset + limit
        BY <3>1, <4>1, <4>2, <4>3
      <4>5. \A o \in ids : o \in List' /\ At(o)' >= offset
        BY <3>1, <3>3, <4>1, <4>2
      <4> QED  BY <1>0, <1>2, <3>1, <3>3, <4>1, <4>4, <4>5
    <3>6. Listed' \subseteq List'
      BY <1>2, <2>2, <3>1 DEF NoneMissed
    <3> QED  BY <1>0, <3>4, <3>5, <3>6 DEF NoneMissed
  <2> QED  BY <2>1, <2>2
<1>8. NoneRepeated'
  <2>1. CASE pc = "start" \/ grown'
    BY <1>0, <1>2, <2>1 DEF NoneRepeated, Walking
  <2>2. CASE pc # "start" /\ ~grown'
    <3>1. ~grown /\ List' \subseteq List
      BY <1>0, <2>2 DEF Types
    <3>2. \A o \in OrderIds : At(o)' <= At(o)
      BY <1>5, <3>1
    <3>3. offset \in Nat /\ ids \subseteq OrderIds /\ (pc = "nodes" => limit \in Nat)
      BY <1>0 DEF Types, PagesInv, Walking
    <3>4. pc \in Walking => \A o \in Listed' \cap List' : At(o)' < offset'
      <4> SUFFICES ASSUME pc \in Walking, NEW o \in Listed, o \in List' PROVE At(o)' < offset
        BY <1>0, <1>2
      <4>1. o \in List /\ o \in OrderIds /\ At(o) < offset
        BY <1>3, <3>1 DEF NoneRepeated
      <4>2. At(o)' <= At(o) /\ At(o) \in Nat /\ At(o)' \in Nat
        BY <1>3, <3>2, <4>1
      <4> QED  BY <3>3, <4>1, <4>2
    <3>5. ASSUME pc = "nodes"
          PROVE  ids' \cap Listed' = {} /\ \A o \in ids' \cap List' : At(o)' < offset' + limit'
      <4>1. ids \cap Listed = {} /\ \A o \in ids \cap List : At(o) < offset + limit
        BY <3>1, <3>5 DEF NoneRepeated
      <4> QED  BY <1>0, <1>2, <1>3, <3>1, <3>2, <3>3, <3>5, <4>1
    <3> QED  BY <1>0, <1>2, <3>1, <3>4, <3>5 DEF NoneRepeated
  <2> QED  BY <2>1, <2>2
<1>9. InOrder'
  BY <1>0 DEF InOrder, Types
<1>10. WalkMatchesListing' /\ WalkUnderWrites'
  BY <1>0 DEF WalkMatchesListing, WalkUnderWrites, Ended
<1> QED  BY <1>1, <1>6, <1>7, <1>8, <1>9, <1>10

-----------------------------------------------------------------------------
(* The theorems.                                                           *)

\* The invariant holds before the walk.
LEMMA WalkInit == Init => WalkInv
<1> SUFFICES ASSUME Init PROVE WalkInv  OBVIOUS
<1>1. Types /\ PagesInv /\ HistoryInv
  BY DEF Init, Types, PagesInv, HistoryInv, Walking
<1>2. NoneMissed /\ NoneRepeated /\ InOrder
  BY DEF Init, NoneMissed, NoneRepeated, NoneTwice, InOrder, Walking
<1>3. WalkMatchesListing /\ WalkUnderWrites
  BY DEF Init, WalkMatchesListing, WalkUnderWrites
<1> QED  BY <1>1, <1>2, <1>3 DEF WalkInv

\* Nothing that the invariant speaks of changes, or the walk has failed.
LEMMA OtherStep ==
  ASSUME WalkInv, FailQuery \/ UNCHANGED vars
  PROVE  WalkInv'
<1> USE DEF WalkInv, tableVars, history
<1>0. /\ UNCHANGED <<rows, status, filter, limit, offset, totalCount, ids, seen, steady, grown,
                     shrunk, raced>>
      /\ (pc' = "failed" /\ pc # "start") \/ pc' = pc
  BY DEF FailQuery, vars, requestVars
<1>1. /\ List' = List /\ Listed' = Listed /\ NoneTwice' = NoneTwice
      /\ \A o \in OrderIds : At(o)' = At(o)
  BY <1>0, ListStays DEF Listed, NoneTwice
<1>2. List \subseteq OrderIds /\ ids \subseteq OrderIds
  BY Positions DEF Types
<1>3. Types' /\ PagesInv' /\ HistoryInv'
  BY <1>0, <1>1 DEF Types, PagesInv, HistoryInv, Walking, Ended
<1>4. NoneMissed'
  BY <1>0, <1>1, <1>2 DEF NoneMissed, HistoryInv
<1>5. NoneRepeated' /\ InOrder'
  BY <1>0, <1>1, <1>2 DEF NoneRepeated, InOrder, Walking
<1>6. WalkMatchesListing' /\ WalkUnderWrites'
  BY <1>0, <1>1 DEF WalkMatchesListing, WalkUnderWrites, List
<1> QED  BY <1>3, <1>4, <1>5, <1>6

\* Every step keeps the invariant.
LEMMA WalkStep == WalkInv /\ [Next]_vars => WalkInv'
<1> SUFFICES ASSUME WalkInv, [Next]_vars PROVE WalkInv'  OBVIOUS
<1>1. ASSUME NEW o \in OrderIds, CommitOrder(o) \/ ProcessOrder(o) \/ DeleteOrder(o)
      PROVE  WalkInv'
  <2>1. rows' \subseteq OrderIds /\ status' \in [OrderIds -> Statuses]
    BY <1>1 DEF CommitOrder, ProcessOrder, DeleteOrder, WalkInv, Types
  <2> QED  BY <1>1, <2>1, WriteStep DEF CommitOrder, ProcessOrder, DeleteOrder
<1> QED
  BY <1>1, StartStep, CountStep, AllStep, IdsStep, NodesStep, OtherStep DEF Next, Answered

\* getAllConnection: for every filter, limit and list, the pages of a walk
\* through a list that does not change are the list in its order.
THEOREM WalksMatch == Spec => []WalkMatchesListing
<1>1. WalkInv => WalkMatchesListing
  BY DEF WalkInv
<1> QED  BY <1>1, WalkInit, WalkStep, PTL DEF Spec

\* getAllConnection: what a walk may miss or repeat, with any number of writes
\* between and within its pages.
THEOREM WalksUnderWrites == Spec => []WalkUnderWrites
<1>1. WalkInv => WalkUnderWrites
  BY DEF WalkInv
<1> QED  BY <1>1, WalkInit, WalkStep, PTL DEF Spec
=============================================================================
