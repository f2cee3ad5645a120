------------------------ MODULE OrderCreation_proofs ------------------------
(***************************************************************************)
(* Proofs about OrderCreation, for every set of requests, bodies, products *)
(* and users, every pool size and any number of crashes and failures.      *)
(***************************************************************************)
EXTENDS OrderCreation, TLAPS

Holding == {"item", "save", "rollback"}

\* The transaction of a request at one of these steps has ended.
Over == {"publish", "release", "done"}

\* Only a transaction that is past its insert holds row locks.
LocksAreHeld ==
  \A p \in Products : lock[p] # Nobody => pc[lock[p]] \in Holding

\* A row a transaction has written is locked by it, and what the transaction
\* wrote is what is committed less what its items took: nobody moved the
\* committed stock since the transaction read it.
WritesAreCurrent ==
  \A r \in Requests, p \in Products :
    pc[r] \in Holding /\ taken[r][p] > 0 =>
      lock[p] = r /\ written[r][p] + taken[r][p] = stock[p]

\* Between the check of an item and its save, the product is locked and the
\* value about to be saved is the checked one less the quantity.
ReadIsCurrent ==
  \A r \in Requests : pc[r] = "save" =>
    /\ HasLine(r)
    /\ Line(r).quantity > 0
    /\ lock[Line(r).productId] = r
    /\ left[r] + Line(r).quantity = Visible(r, Line(r).productId)

\* A request outside its transaction, and not past it, has no rows.
NoRowsYet ==
  \A r \in Requests :
    pc[r] \in BeforeTx \cup {"insert", "reread"} => taken[r] = Nothing

NoOutcomeYet ==
  \A r \in Requests :
    pc[r] \in BeforeTx \cup {"insert", "item", "save", "publish"} => outcome[r] = "none"

OrdersAreCommitted == \A r \in orders : pc[r] \in Over

\* An uncommitted order has its key for itself.
KeyIsClaimed ==
  \A r \in Requests : InFlight(r) =>
    /\ KeyFree(r)
    /\ \A q \in Requests \ {r} : InFlight(q) => ~SameIndexKey(Key(r), Key(q))

StockInv ==
  LocksAreHeld /\ WritesAreCurrent /\ ReadIsCurrent /\ NoRowsYet /\ StockConservation

KeyInv ==
  NoOutcomeYet /\ OrdersAreCommitted /\ KeyIsClaimed /\ OneOrderPerKey

IInv == TypeOK /\ StockInv /\ KeyInv

USE NamesAssumption DEF Over

-----------------------------------------------------------------------------
\* The line at nextItem is an item of the request body.
LEMMA LineType ==
  ASSUME TypeOK, NEW r \in Requests, HasLine(r)
  PROVE  /\ Line(r).productId \in Products
         /\ Line(r).quantity \in Int
<1>1. input[r].items \in Seq(Item)
  BY InputsAssumption DEF TypeOK, OrderInput
<1>2. nextItem[r] \in 1..Len(input[r].items)
  BY <1>1 DEF TypeOK, HasLine
<1>3. Line(r) \in Item
  BY <1>1, <1>2 DEF Line
<1> QED  BY <1>3 DEF Item

\* An item passes the checks exactly if it asks for something there is.
LEMMA ItemPasses ==
  ASSUME NEW n \in Int, NEW a \in Nat
  PROVE  /\ ItemError(n, a) = "none" => n > 0 /\ a >= n
         /\ ItemError(n, a) # "none" => ItemError(n, a) \in TxErrors \ InsertErrors
BY DEF ItemError, TxErrors, InsertErrors

\* The stock a transaction sees, its own writes included, is a natural number.
LEMMA VisibleType ==
  ASSUME TypeOK, NEW r \in Requests, NEW p \in Products
  PROVE  Visible(r, p) \in Nat
BY DEF TypeOK, Visible

\* The specification starts in the invariant.
LEMMA InitIInv == Init => IInv
<1> SUFFICES ASSUME Init PROVE IInv  OBVIOUS
<1>1. TypeOK
  BY StockAssumption, BoundsAssumption
  DEF Init, TypeOK, Nothing, Steps, BeforeTx, Outcomes
<1>2. StockInv
  BY StockAssumption
  DEF Init, StockInv, LocksAreHeld, WritesAreCurrent, ReadIsCurrent, NoRowsYet,
      StockConservation, Nothing, Holding
<1>3. KeyInv
  BY DEF Init, KeyInv, NoOutcomeYet, OrdersAreCommitted, KeyIsClaimed,
         OneOrderPerKey, InFlight
<1> QED  BY <1>1, <1>2, <1>3 DEF IInv

\* Every step keeps the types; a subtraction never goes below zero because the
\* row was locked when it was checked.
LEMMA TypeStep == IInv /\ [Next]_vars => TypeOK'
<1> SUFFICES ASSUME IInv, [Next]_vars PROVE TypeOK'  OBVIOUS
<1> USE DEF IInv, TypeOK, vars, dbVars, txVars, localVars, brokerVars, faultVars,
            Steps, BeforeTx, InTx, Outcomes, Failures, Refusals, TxErrors, InsertErrors, Nothing
<1>1. ASSUME NEW r \in Requests, Start(r) PROVE TypeOK'
  BY <1>1 DEF Start, CheckItems, Answer, Goto
<1>2. ASSUME NEW r \in Requests, Lookup(r) PROVE TypeOK'
  <2>1. CASE \E o \in orders : Key(o) = Key(r) /\ AnswerDuplicate(r, o)
    <3>1. PICK o \in orders : AnswerDuplicate(r, o)  BY <2>1
    <3> QED  BY <1>2, <3>1 DEF Lookup, CheckItems, AnswerDuplicate, Answer, Goto
  <2>2. CASE ~\E o \in orders : Key(o) = Key(r) /\ AnswerDuplicate(r, o)
    BY <1>2, <2>2 DEF Lookup, CheckItems, Answer, Goto
  <2> QED  BY <2>1, <2>2
<1>3. ASSUME NEW r \in Requests, FindUser(r) PROVE TypeOK'
  BY <1>3 DEF FindUser, Answer, Goto
<1>4. ASSUME NEW r \in Requests, Connect(r) PROVE TypeOK'
  BY <1>4 DEF Connect, Goto
<1>5. ASSUME NEW r \in Requests, InsertOrder(r) PROVE TypeOK'
  BY <1>5 DEF InsertOrder, Throw, Goto
<1>6. ASSUME NEW r \in Requests, LockProduct(r) PROVE TypeOK'
  <2> DEFINE p == Line(r).productId
             n == Line(r).quantity
             v == Visible(r, p)
  <2>1. p \in Products /\ n \in Int
    BY <1>6, LineType DEF LockProduct
  <2>2. v \in Nat
    BY <2>1, VisibleType
  <2>3. left' \in [Requests -> Nat]
    <3>1. CASE left' = [left EXCEPT ![r] = v - n] /\ ItemError(n, v) = "none"
      <4>1. v - n \in Nat  BY <2>1, <2>2, <3>1, ItemPasses
      <4> QED  BY <3>1, <4>1
    <3>2. CASE UNCHANGED left
      BY <3>2
    <3> QED  BY <1>6, <3>1, <3>2 DEF LockProduct
  <2>4. lock' \in [Products -> Requests \cup {Nobody}]
    BY <1>6, <2>1 DEF LockProduct
  <2>5. pc' \in [Requests -> Steps] /\ outcome' \in [Requests -> Outcomes]
    <3>1. \/ Throw(r, "NoProduct")
          \/ ItemError(n, v) # "none" /\ Throw(r, ItemError(n, v))
          \/ Goto(r, "save") /\ UNCHANGED outcome
      BY <1>6 DEF LockProduct
    <3>2. ItemError(n, v) # "none" => ItemError(n, v) \in Outcomes
      BY <2>1, <2>2, ItemPasses
    <3>3. ASSUME NEW e \in Outcomes, Throw(r, e)
          PROVE  pc' \in [Requests -> Steps] /\ outcome' \in [Requests -> Outcomes]
      BY <3>3 DEF Throw, Goto
    <3>4. CASE Goto(r, "save") /\ UNCHANGED outcome
      BY <3>4 DEF Goto
    <3> HIDE DEF n, v
    <3> QED  BY <3>1, <3>2, <3>3, <3>4
  <2> QED  BY <1>6, <2>3, <2>4, <2>5 DEF LockProduct
<1>7. ASSUME NEW r \in Requests, SaveItem(r) PROVE TypeOK'
  <2> DEFINE p == Line(r).productId
             n == Line(r).quantity
  <2>1. HasLine(r) /\ n > 0
    BY <1>7 DEF SaveItem, StockInv, ReadIsCurrent
  <2>2. p \in Products /\ n \in Int
    BY <2>1, LineType
  <2>3. taken' \in [Requests -> [Products -> Nat]]
    BY <1>7, <2>1, <2>2 DEF SaveItem
  <2>4. written' \in [Requests -> [Products -> Nat]]
    BY <1>7, <2>2 DEF SaveItem
  <2> QED  BY <1>7, <2>3, <2>4 DEF SaveItem, Goto
<1>8. ASSUME NEW r \in Requests, Commit(r) PROVE TypeOK'
  BY <1>8, VisibleType DEF Commit, CommitRows, Goto, Unlocked
<1>9. ASSUME NEW r \in Requests, Publish(r) PROVE TypeOK'
  BY <1>9 DEF Publish, Release, Answer, Goto
<1>10. ASSUME NEW r \in Requests, Rollback(r) PROVE TypeOK'
  BY <1>10 DEF Rollback, Undo, Unlocked, Release, Goto
<1>11. ASSUME NEW r \in Requests, Reread(r) PROVE TypeOK'
  <2>1. CASE \E o \in orders : Key(o) = Key(r) /\ AnswerDuplicate(r, o)
    <3>1. PICK o \in orders : AnswerDuplicate(r, o)  BY <2>1
    <3> QED  BY <1>11, <3>1 DEF Reread, Release, AnswerDuplicate, Answer, Goto
  <2>2. CASE ~\E o \in orders : Key(o) = Key(r) /\ AnswerDuplicate(r, o)
    BY <1>11, <2>2 DEF Reread, Release, Answer, Goto
  <2> QED  BY <2>1, <2>2
<1>12. ASSUME NEW r \in Requests, DeadlockAbort(r) PROVE TypeOK'
  BY <1>12 DEF DeadlockAbort, Throw, Goto
<1>13. ASSUME NEW r \in Requests, DeleteOrder(r) PROVE TypeOK'
  BY <1>13 DEF DeleteOrder
<1>14. ASSUME NEW p \in Products, DeleteProduct(p) PROVE TypeOK'
  BY <1>14 DEF DeleteProduct
<1>15. ASSUME NEW u \in Users, DeleteUser(u) PROVE TypeOK'
  BY <1>15 DEF DeleteUser
<1>16. CASE CloseChannel
  BY <1>16 DEF CloseChannel
<1>17. CASE Crash
  <2>1. lock' \in [Products -> Requests \cup {Nobody}]
    BY <1>17 DEF Crash, Undo, Unlocked
  <2>2. written' \in [Requests -> [Products -> Nat]] /\ taken' \in [Requests -> [Products -> Nat]]
    BY <1>17 DEF Crash, Undo
  <2>3. pc' \in [Requests -> Steps] /\ outcome' \in [Requests -> Outcomes]
    BY <1>17 DEF Crash
  <2>4. crashes' \in 0..MaxCrashes
    BY <1>17, BoundsAssumption DEF Crash
  <2> QED  BY <1>17, <2>1, <2>2, <2>3, <2>4 DEF Crash
<1>18. CASE UNCHANGED vars
  BY <1>18 DEF vars
<1>19. ASSUME NEW r \in Requests, StartTransaction(r) \/ ReleaseAndThrow(r) PROVE TypeOK'
  BY <1>19 DEF StartTransaction, ReleaseAndThrow, Release, Goto
<1>20. ASSUME Failure PROVE failures' \in 0..MaxFailures /\ crashes' \in 0..MaxCrashes
  BY <1>20, BoundsAssumption DEF Failure
<1>21. ASSUME NEW r \in Requests, StartTransactionFails(r) \/ ReadFails(r) PROVE TypeOK'
  BY <1>20, <1>21 DEF StartTransactionFails, ReadFails, Release, Answer, Goto
<1>22. ASSUME NEW r \in Requests, LoseConnection(r) PROVE TypeOK'
  BY <1>20, <1>22 DEF LoseConnection, Undo, Unlocked, Goto
<1>23. ASSUME NEW r \in Requests, CommitUnanswered(r) PROVE TypeOK'
  BY <1>20, <1>23, VisibleType DEF CommitUnanswered, CommitRows, Goto, Unlocked
<1> QED  BY <1>1, <1>2, <1>3, <1>4, <1>5, <1>6, <1>7, <1>8, <1>9, <1>10,
            <1>11, <1>12, <1>13, <1>14, <1>15, <1>16, <1>17, <1>18, <1>19,
            <1>21, <1>22, <1>23
         DEF Next, Handle, Fail, Finished

-----------------------------------------------------------------------------
\* A step of r outside its transaction that leaves all rows and locks alone.
Outside(r) ==
  /\ pc[r] \notin Holding \cup {"done"}
  /\ \E step \in BeforeTx \cup {"insert", "done"}, e \in Outcomes :
       /\ pc' = [pc EXCEPT ![r] = step]
       /\ outcome' = [outcome EXCEPT ![r] = e]
       /\ step # "done" => pc[r] \in BeforeTx /\ e = "none"
  /\ UNCHANGED <<stock, orders, txVars, localVars, sold>>

\* The actions of r before its transaction and after it.
Around(r) ==
  \/ Start(r) \/ Lookup(r) \/ FindUser(r) \/ Connect(r) \/ StartTransaction(r)
  \/ StartTransactionFails(r) \/ ReadFails(r) \/ Publish(r) \/ Reread(r) \/ ReleaseAndThrow(r)

\* They are such steps.
LEMMA OutsideMoves ==
  ASSUME TypeOK, NoOutcomeYet, NEW r \in Requests, Around(r)
  PROVE  Outside(r)
<1> DEFINE Done == \E e \in Outcomes :
              pc' = [pc EXCEPT ![r] = "done"] /\ outcome' = [outcome EXCEPT ![r] = e]
           On(step) == pc[r] \in BeforeTx /\ pc' = [pc EXCEPT ![r] = step] /\ UNCHANGED outcome
<1>1. ASSUME NEW step \in BeforeTx \cup {"insert"}, On(step)
      PROVE  \E e \in Outcomes : e = "none" /\ outcome' = [outcome EXCEPT ![r] = e]
  BY <1>1 DEF TypeOK, NoOutcomeYet, Outcomes
<1>2. ASSUME NEW e \in Outcomes, Answer(r, e)  PROVE Done
  BY <1>2 DEF Answer, Goto
<1>3. ASSUME NEW o, AnswerDuplicate(r, o)  PROVE Done
  BY <1>2, <1>3 DEF AnswerDuplicate, Outcomes
<1>4. CheckItems(r) /\ pc[r] \in BeforeTx => Done \/ On("user")
  BY <1>2 DEF CheckItems, Goto, Outcomes, Failures, Refusals
<1>5. CASE Start(r)
  <2>1. Done \/ On("lookup") \/ On("user")
    BY <1>4, <1>5 DEF Start, Goto, BeforeTx
  <2> QED  BY <1>1, <1>5, <2>1 DEF Outside, Start, dbVars, BeforeTx, Holding
<1>6. CASE Lookup(r)
  <2>1. Done \/ On("user")
    BY <1>3, <1>4, <1>6 DEF Lookup, BeforeTx
  <2> QED  BY <1>1, <1>6, <2>1 DEF Outside, Lookup, dbVars, BeforeTx, Holding
<1>7. CASE FindUser(r)
  <2>1. Done \/ On("connect")
    BY <1>2, <1>7 DEF FindUser, Goto, BeforeTx, Outcomes, Failures, Refusals
  <2> QED  BY <1>1, <1>7, <2>1 DEF Outside, FindUser, dbVars, BeforeTx, Holding
<1>8. CASE Connect(r)
  <2>1. On("begin")
    BY <1>8 DEF Connect, Goto, BeforeTx
  <2> QED  BY <1>1, <1>8, <2>1 DEF Outside, Connect, dbVars, BeforeTx, Holding
<1>9. CASE Publish(r)
  <2>1. Done
    BY <1>2, <1>9 DEF Publish, Outcomes, Failures
  <2> QED  BY <1>9, <2>1 DEF Outside, Publish, dbVars, Holding
<1>10. ASSUME Goto(r, "done"), UNCHANGED outcome PROVE Done
  <2>1. outcome[r] \in Outcomes /\ outcome' = [outcome EXCEPT ![r] = outcome[r]]
    BY <1>10 DEF TypeOK
  <2> QED  BY <1>10, <2>1 DEF Goto
<1>11. CASE Reread(r)
  <2>1. Done
    BY <1>3, <1>10, <1>11 DEF Reread
  <2> QED  BY <1>11, <2>1 DEF Outside, Reread, dbVars, Holding
<1>12. CASE StartTransaction(r)
  <2>1. On("insert")
    BY <1>12 DEF StartTransaction, Goto, BeforeTx
  <2> QED  BY <1>1, <1>12, <2>1 DEF Outside, StartTransaction, dbVars, BeforeTx, Holding
<1>13. CASE StartTransactionFails(r) \/ ReadFails(r)
  <2>1. Done
    BY <1>2, <1>13 DEF StartTransactionFails, ReadFails, Outcomes, Failures, Refusals
  <2> QED  BY <1>13, <2>1 DEF Outside, StartTransactionFails, ReadFails, dbVars, Holding
<1>14. CASE ReleaseAndThrow(r)
  <2>1. Done
    BY <1>10, <1>14 DEF ReleaseAndThrow
  <2> QED  BY <1>14, <2>1 DEF Outside, ReleaseAndThrow, dbVars, Holding
<1> QED  BY <1>5, <1>6, <1>7, <1>8, <1>9, <1>11, <1>12, <1>13, <1>14 DEF Around

\* A transaction that waits for another is at its insert or at an item.
LEMMA WaitingSteps ==
  ASSUME NEW r \in Requests, InWaitCycle(r)
  PROVE  pc[r] \in {"insert", "item"}
BY DEF InWaitCycle, WaitsFor

-----------------------------------------------------------------------------
\* Steps outside the transaction keep what is known of locks and stock.
LEMMA StockOutside ==
  ASSUME TypeOK, StockInv, NEW r \in Requests, Outside(r)
  PROVE  StockInv'
<1> USE DEF StockInv, Outside, txVars, localVars
<1>1. \A q \in Requests \ {r} : pc'[q] = pc[q]
  BY DEF TypeOK
<1>2. pc[r] \notin Holding /\ pc'[r] \in BeforeTx \cup {"insert", "done"}
  BY DEF TypeOK
<1>3. pc'[r] # "done" => pc[r] \in BeforeTx
  BY DEF TypeOK, BeforeTx
<1> USE DEF Holding, BeforeTx
<1>4. LocksAreHeld'
  BY <1>1, <1>2 DEF LocksAreHeld, TypeOK
<1>5. WritesAreCurrent'
  BY <1>1, <1>2 DEF WritesAreCurrent
<1>6. ReadIsCurrent'
  BY <1>1, <1>2 DEF ReadIsCurrent, HasLine, Line, Visible
<1>7. NoRowsYet'
  BY <1>1, <1>2, <1>3 DEF NoRowsYet, Nothing
<1>8. StockConservation'
  BY DEF StockConservation
<1> QED  BY <1>4, <1>5, <1>6, <1>7, <1>8

\* So do the insert of the order and an error that touches no row.
LEMMA StockInside ==
  ASSUME TypeOK, StockInv, NEW r \in Requests, NEW step \in {"item", "rollback"},
         pc[r] \in {"insert", "item"}, pc' = [pc EXCEPT ![r] = step],
         UNCHANGED <<stock, txVars, localVars, sold>>
  PROVE  StockInv'
<1> USE DEF StockInv, txVars, localVars
<1>1. \A q \in Requests \ {r} : pc'[q] = pc[q]
  BY DEF TypeOK
<1>2. pc'[r] = step
  BY DEF TypeOK
<1> USE DEF Holding, BeforeTx
<1>4. LocksAreHeld'
  BY <1>1, <1>2 DEF LocksAreHeld, TypeOK
<1>5. WritesAreCurrent'
  BY <1>1, <1>2 DEF WritesAreCurrent, NoRowsYet, Nothing
<1>6. ReadIsCurrent'
  BY <1>1, <1>2 DEF ReadIsCurrent, HasLine, Line, Visible
<1>7. NoRowsYet'
  BY <1>1, <1>2 DEF NoRowsYet, Nothing
<1>8. StockConservation'
  BY DEF StockConservation
<1> QED  BY <1>4, <1>5, <1>6, <1>7, <1>8

\* SELECT ... FOR UPDATE: the row is free or already r's, so no other
\* transaction has a claim on it.
LEMMA StockLockProduct ==
  ASSUME TypeOK, StockInv, NEW r \in Requests, LockProduct(r)
  PROVE  StockInv'
<1> USE DEF StockInv
<1> DEFINE p == Line(r).productId
           n == Line(r).quantity
           v == Visible(r, p)
<1>1. p \in Products /\ n \in Int
  BY LineType DEF LockProduct
<1>2. v \in Nat
  BY <1>1, VisibleType
<1>3. lock[p] \in {r, Nobody}
  BY <1>1 DEF LockProduct, WaitsFor
<1>4. /\ pc[r] = "item" /\ HasLine(r)
      /\ UNCHANGED <<stock, written, taken, input, nextItem, sold>>
  BY DEF LockProduct, dbVars
<1>5. /\ \A q \in Requests \ {r} : pc'[q] = pc[q] /\ left'[q] = left[q]
      /\ pc'[r] \in {"save", "rollback"}
  BY DEF LockProduct, TypeOK, Throw, Goto
<1>6. \A x \in Products : lock'[x] = lock[x] \/ (x = p /\ lock'[x] = r)
  <2>1. lock' = [lock EXCEPT ![p] = r] \/ UNCHANGED lock
    BY DEF LockProduct
  <2> HIDE DEF p
  <2> QED  BY <1>1, <2>1 DEF TypeOK
<1>7. pc'[r] = "save" => n > 0 /\ left'[r] + n = v /\ lock'[p] = r
  <2>1. SUFFICES ASSUME pc'[r] = "save" PROVE n > 0 /\ left'[r] + n = v /\ lock'[p] = r
    OBVIOUS
  <2>2. ItemError(n, v) = "none" /\ left' = [left EXCEPT ![r] = v - n] /\ lock' = [lock EXCEPT ![p] = r]
    BY <2>1 DEF LockProduct, Throw, Goto, TypeOK
  <2> HIDE DEF v, n, p
  <2> QED  BY <1>1, <1>2, <2>2, ItemPasses DEF TypeOK
<1> HIDE DEF p, n, v
<1> USE DEF Holding, BeforeTx
<1>8. LocksAreHeld'
  BY <1>4, <1>5, <1>6 DEF LocksAreHeld, TypeOK
<1>9. WritesAreCurrent'
  BY <1>3, <1>4, <1>5, <1>6 DEF WritesAreCurrent, TypeOK
<1>10. ReadIsCurrent'
  <2>1. ASSUME NEW q \in Requests, pc'[q] = "save", q # r
        PROVE  /\ HasLine(q)' /\ Line(q)'.quantity > 0
               /\ lock'[Line(q)'.productId] = q
               /\ left'[q] + Line(q)'.quantity = Visible(q, Line(q).productId)'
    <3>1. HasLine(q) /\ Line(q).productId \in Products
      BY <1>5, <2>1, LineType DEF ReadIsCurrent
    <3>2. lock[Line(q).productId] = q
      BY <1>5, <2>1 DEF ReadIsCurrent
    <3>3. lock'[Line(q).productId] = q
      BY <1>3, <1>6, <2>1, <3>1, <3>2
    <3> QED  BY <1>4, <1>5, <2>1, <3>1, <3>3 DEF ReadIsCurrent, HasLine, Line, Visible
  <2>2. ASSUME pc'[r] = "save"
        PROVE  /\ HasLine(r)' /\ Line(r)'.quantity > 0
               /\ lock'[Line(r)'.productId] = r
               /\ left'[r] + Line(r)'.quantity = Visible(r, Line(r).productId)'
    BY <1>4, <1>7, <2>2 DEF HasLine, Line, Visible, p, n, v
  <2> QED  BY <2>1, <2>2 DEF ReadIsCurrent
<1>11. NoRowsYet'
  BY <1>4, <1>5 DEF NoRowsYet, Nothing
<1>12. StockConservation'
  BY <1>4 DEF StockConservation
<1> QED  BY <1>8, <1>9, <1>10, <1>11, <1>12

\* Saving an item moves its quantity from the locked row to the order.
LEMMA StockSaveItem ==
  ASSUME TypeOK, StockInv, NEW r \in Requests, SaveItem(r)
  PROVE  StockInv'
<1> USE DEF StockInv
<1> DEFINE p == Line(r).productId
           n == Line(r).quantity
<1>1. HasLine(r) /\ n > 0 /\ lock[p] = r /\ left[r] + n = Visible(r, p)
  BY DEF SaveItem, ReadIsCurrent
<1>2. p \in Products /\ n \in Int
  BY <1>1, LineType
<1>3. /\ pc[r] = "save" /\ pc' = [pc EXCEPT ![r] = "item"]
      /\ nextItem' = [nextItem EXCEPT ![r] = @ + 1]
      /\ UNCHANGED <<stock, lock, input, left, sold>>
  BY DEF SaveItem, dbVars, Goto
<1>4. /\ written' = [written EXCEPT ![r][p] = left[r]]
      /\ taken' = [taken EXCEPT ![r][p] = @ + n]
  BY DEF SaveItem
<1>5. left[r] \in Nat /\ taken[r][p] \in Nat /\ written[r][p] \in Nat /\ stock[p] \in Nat
  BY <1>2 DEF TypeOK
<1>6. taken[r][p] > 0 => written[r][p] + taken[r][p] = stock[p]
  BY <1>2, <1>3 DEF WritesAreCurrent, Holding
<1>7. left[r] + (taken[r][p] + n) = stock[p] /\ taken[r][p] + n > 0
  BY <1>1, <1>2, <1>5, <1>6 DEF Visible
<1>8. /\ written'[r][p] = left[r] /\ taken'[r][p] = taken[r][p] + n
      /\ \A x \in Products \ {p} : written'[r][x] = written[r][x] /\ taken'[r][x] = taken[r][x]
      /\ \A q \in Requests \ {r} : written'[q] = written[q] /\ taken'[q] = taken[q]
  BY <1>2, <1>4 DEF TypeOK
<1>9. /\ \A q \in Requests \ {r} : pc'[q] = pc[q] /\ nextItem'[q] = nextItem[q]
      /\ pc'[r] = "item"
  BY <1>3 DEF TypeOK
<1> HIDE DEF p, n
<1> USE DEF Holding, BeforeTx
<1>10. LocksAreHeld'
  BY <1>3, <1>9 DEF LocksAreHeld, TypeOK
<1>11. WritesAreCurrent'
  <2> SUFFICES ASSUME NEW q \in Requests, NEW x \in Products,
                      pc'[q] \in Holding, taken'[q][x] > 0
               PROVE  lock'[x] = q /\ written'[q][x] + taken'[q][x] = stock'[x]
    BY DEF WritesAreCurrent
  <2>1. CASE q = r /\ x = p
    BY <1>1, <1>3, <1>7, <1>8, <2>1
  <2>2. CASE q # r \/ x # p
    <3>1. pc[q] \in Holding /\ taken'[q][x] = taken[q][x] /\ written'[q][x] = written[q][x]
      BY <1>3, <1>8, <1>9, <2>2
    <3> QED  BY <1>3, <3>1 DEF WritesAreCurrent
  <2> QED  BY <2>1, <2>2
<1>12. ReadIsCurrent'
  <2> SUFFICES ASSUME NEW q \in Requests, pc'[q] = "save"
               PROVE  /\ HasLine(q)' /\ Line(q)'.quantity > 0
                      /\ lock'[Line(q)'.productId] = q
                      /\ left'[q] + Line(q)'.quantity = Visible(q, Line(q).productId)'
    BY DEF ReadIsCurrent
  <2>1. q # r /\ pc[q] = "save"
    BY <1>9
  <2>2. /\ HasLine(q) /\ Line(q).quantity > 0 /\ lock[Line(q).productId] = q
        /\ left[q] + Line(q).quantity = Visible(q, Line(q).productId)
    BY <2>1 DEF ReadIsCurrent
  <2>3. HasLine(q)' = HasLine(q) /\ Line(q)' = Line(q)
    BY <1>3, <1>9, <2>1 DEF HasLine, Line
  <2>4. Visible(q, Line(q).productId)' = Visible(q, Line(q).productId)
    BY <1>3, <1>8, <2>1, <2>3 DEF Visible
  <2> QED  BY <1>3, <2>2, <2>3, <2>4
<1>13. NoRowsYet'
  BY <1>3, <1>8, <1>9 DEF NoRowsYet, Nothing
<1>14. StockConservation'
  BY <1>3 DEF StockConservation
<1> QED  BY <1>10, <1>11, <1>12, <1>13, <1>14

\* Under r's locks, the value it commits is the committed one less its items.
LEMMA CommittedValue ==
  ASSUME TypeOK, StockInv, NEW r \in Requests, pc[r] \in Holding, NEW p \in Products
  PROVE  Visible(r, p) + taken[r][p] = stock[p]
BY DEF TypeOK, StockInv, WritesAreCurrent, Visible

\* Commit: rows r did not write keep their value, so no other transaction
\* that holds a lock sees its base change.
LEMMA StockCommit ==
  ASSUME TypeOK, StockInv, NEW r \in Requests, CommitRows(r),
         NEW step \in {"publish", "release"}, pc' = [pc EXCEPT ![r] = step]
  PROVE  StockInv'
<1> USE DEF StockInv
<1>1. /\ pc[r] = "item"
      /\ stock' = [p \in Products |-> Visible(r, p)]
      /\ lock' = Unlocked({r})
      /\ sold' = [p \in Products |-> sold[p] + taken[r][p]]
      /\ UNCHANGED <<written, taken, input, nextItem, left>>
  BY DEF CommitRows, localVars
<1>2. /\ \A q \in Requests \ {r} : pc'[q] = pc[q]
      /\ pc'[r] = step
  BY <1>1 DEF TypeOK
<1>3. \A p \in Products : lock'[p] = IF lock[p] = r THEN Nobody ELSE lock[p]
  BY <1>1 DEF Unlocked
<1>4. \A p \in Products : lock[p] # r => taken[r][p] = 0 /\ stock'[p] = stock[p]
  BY <1>1 DEF WritesAreCurrent, Holding, Visible, TypeOK
<1>5. \A p \in Products :
        /\ stock'[p] \in Nat /\ stock'[p] + taken[r][p] = stock[p]
        /\ sold'[p] = sold[p] + taken[r][p]
  BY <1>1, CommittedValue, VisibleType DEF Holding
<1>11. UNCHANGED <<written, taken, input, nextItem, left>>
  BY <1>1
<1> USE DEF Holding, BeforeTx
<1>6. LocksAreHeld'
  BY <1>2, <1>3 DEF LocksAreHeld, TypeOK
<1>7. WritesAreCurrent'
  <2> SUFFICES ASSUME NEW q \in Requests, NEW p \in Products,
                      pc'[q] \in Holding, taken'[q][p] > 0
               PROVE  lock'[p] = q /\ written'[q][p] + taken'[q][p] = stock'[p]
    BY DEF WritesAreCurrent
  <2>1. q # r /\ lock[p] = q /\ written[q][p] + taken[q][p] = stock[p]
    BY <1>2, <1>11 DEF WritesAreCurrent
  <2> QED  BY <1>3, <1>4, <1>11, <2>1
<1>8. ReadIsCurrent'
  <2> SUFFICES ASSUME NEW q \in Requests, pc'[q] = "save"
               PROVE  /\ HasLine(q)' /\ Line(q)'.quantity > 0
                      /\ lock'[Line(q)'.productId] = q
                      /\ left'[q] + Line(q)'.quantity = Visible(q, Line(q).productId)'
    BY DEF ReadIsCurrent
  <2>1. q # r /\ pc[q] = "save"
    BY <1>2
  <2>2. HasLine(q) /\ lock[Line(q).productId] = q /\ Line(q).productId \in Products
    BY <2>1, LineType DEF ReadIsCurrent
  <2> QED  BY <1>3, <1>4, <1>11, <2>1, <2>2 DEF ReadIsCurrent, HasLine, Line, Visible
<1>9. NoRowsYet'
  BY <1>1, <1>2 DEF NoRowsYet, Nothing
<1>10. StockConservation'
  BY <1>5 DEF StockConservation, TypeOK
<1> QED  BY <1>6, <1>7, <1>8, <1>9, <1>10

\* A rollback, r's own or PostgreSQL's when the connection breaks, forgets r's
\* rows and frees its locks.
LEMMA StockRollback ==
  ASSUME TypeOK, StockInv, NEW r \in Requests, Undo({r}), UNCHANGED <<dbVars, localVars, sold>>,
         NEW step \in {"reread", "release", "done"}, pc' = [pc EXCEPT ![r] = step]
  PROVE  StockInv'
<1> USE DEF StockInv
<1>1. /\ lock' = Unlocked({r})
      /\ written' = [q \in Requests |-> IF q = r THEN Nothing ELSE written[q]]
      /\ taken' = [q \in Requests |-> IF q = r THEN Nothing ELSE taken[q]]
      /\ UNCHANGED <<stock, input, nextItem, left, sold>>
  BY DEF Undo, localVars, dbVars
<1>2. /\ \A q \in Requests \ {r} : pc'[q] = pc[q]
      /\ pc'[r] = step
  BY DEF TypeOK
<1>3. \A p \in Products : lock'[p] = IF lock[p] = r THEN Nobody ELSE lock[p]
  BY <1>1 DEF Unlocked
<1> USE DEF Holding, BeforeTx
<1>4. LocksAreHeld'
  BY <1>2, <1>3 DEF LocksAreHeld, TypeOK
<1>5. WritesAreCurrent'
  BY <1>1, <1>2, <1>3 DEF WritesAreCurrent
<1>6. ReadIsCurrent'
  <2> SUFFICES ASSUME NEW q \in Requests, pc'[q] = "save"
               PROVE  /\ HasLine(q)' /\ Line(q)'.quantity > 0
                      /\ lock'[Line(q)'.productId] = q
                      /\ left'[q] + Line(q)'.quantity = Visible(q, Line(q).productId)'
    BY DEF ReadIsCurrent
  <2>1. q # r /\ pc[q] = "save"
    BY <1>2
  <2>2. HasLine(q) /\ lock[Line(q).productId] = q /\ Line(q).productId \in Products
    BY <2>1, LineType DEF ReadIsCurrent
  <2> QED  BY <1>1, <1>3, <2>1, <2>2 DEF ReadIsCurrent, HasLine, Line, Visible
<1>7. NoRowsYet'
  BY <1>1, <1>2 DEF NoRowsYet, Nothing
<1>8. StockConservation'
  BY <1>1 DEF StockConservation
<1> QED  BY <1>4, <1>5, <1>6, <1>7, <1>8

\* A crash rolls every open transaction back; committed rows stay.
LEMMA StockCrash ==
  ASSUME TypeOK, StockInv, Crash
  PROVE  StockInv'
BY DEF Crash, Undo, Unlocked, TypeOK, StockInv, LocksAreHeld, WritesAreCurrent,
       ReadIsCurrent, NoRowsYet, StockConservation, Holding, BeforeTx, dbVars,
       localVars, HasLine, Line, Visible

\* Every step keeps the part of the invariant about locks and stock.
LEMMA StockStep == IInv /\ [Next]_vars => StockInv'
<1> SUFFICES ASSUME IInv, [Next]_vars PROVE StockInv'  OBVIOUS
<1>0. TypeOK /\ StockInv /\ NoOutcomeYet
  BY DEF IInv, KeyInv
<1>1. ASSUME NEW r \in Requests, Around(r) PROVE StockInv'
  BY <1>0, <1>1, OutsideMoves, StockOutside
<1>2. ASSUME NEW r \in Requests, InsertOrder(r) PROVE StockInv'
  BY <1>0, <1>2, StockInside DEF InsertOrder, Throw, Goto, dbVars
<1>3. ASSUME NEW r \in Requests, LockProduct(r) PROVE StockInv'
  BY <1>0, <1>3, StockLockProduct
<1>4. ASSUME NEW r \in Requests, SaveItem(r) PROVE StockInv'
  BY <1>0, <1>4, StockSaveItem
<1>5. ASSUME NEW r \in Requests, Commit(r) \/ CommitUnanswered(r) PROVE StockInv'
  BY <1>0, <1>5, StockCommit DEF Commit, CommitUnanswered, Goto
<1>6. ASSUME NEW r \in Requests, Rollback(r) \/ LoseConnection(r) PROVE StockInv'
  BY <1>0, <1>6, StockRollback DEF Rollback, LoseConnection, Goto
<1>7. ASSUME NEW r \in Requests, DeadlockAbort(r) PROVE StockInv'
  BY <1>0, <1>7, WaitingSteps, StockInside DEF DeadlockAbort, Throw, Goto, dbVars
<1> DEFINE Rows == <<stock, lock, written, taken, pc, input, nextItem, left, sold>>
<1>8. ASSUME UNCHANGED Rows PROVE StockInv'
  BY <1>0, <1>8 DEF StockInv, LocksAreHeld, WritesAreCurrent, ReadIsCurrent, NoRowsYet,
       StockConservation, Nothing, HasLine, Line, Visible
<1>9. ASSUME NEW o \in Requests, DeleteOrder(o) PROVE StockInv'
  BY <1>8, <1>9 DEF DeleteOrder, txVars, localVars
<1>10. ASSUME NEW p \in Products, DeleteProduct(p) PROVE StockInv'
  BY <1>8, <1>10 DEF DeleteProduct, txVars, localVars
<1>11. ASSUME NEW u \in Users, DeleteUser(u) PROVE StockInv'
  BY <1>8, <1>11 DEF DeleteUser, txVars, localVars
<1>12. CASE CloseChannel
  BY <1>8, <1>12 DEF CloseChannel, dbVars, txVars, localVars
<1>13. CASE Crash
  BY <1>0, <1>13, StockCrash
<1>14. CASE UNCHANGED vars
  BY <1>8, <1>14 DEF vars, dbVars, txVars, localVars
<1> QED
  BY <1>1, <1>2, <1>3, <1>4, <1>5, <1>6, <1>7, <1>9, <1>10, <1>11, <1>12, <1>13, <1>14
  DEF Next, Handle, Fail, Around, Finished

-----------------------------------------------------------------------------
\* Steps outside the transaction neither claim nor give up a key.
LEMMA KeyOutside ==
  ASSUME TypeOK, KeyInv, NEW r \in Requests, Outside(r)
  PROVE  KeyInv'
<1> USE DEF KeyInv, Outside, localVars, Holding, BeforeTx
<1>1. \A q \in Requests \ {r} : pc'[q] = pc[q] /\ outcome'[q] = outcome[q]
  BY DEF TypeOK
<1>2. pc'[r] \in BeforeTx \cup {"insert", "done"}
  BY DEF TypeOK
<1>3. pc'[r] # "done" => pc[r] \in BeforeTx /\ outcome'[r] = "none"
  BY DEF TypeOK
<1>4. NoOutcomeYet'
  BY <1>1, <1>2, <1>3 DEF NoOutcomeYet
<1>5. OrdersAreCommitted'
  BY <1>1, <1>2, <1>3 DEF OrdersAreCommitted, TypeOK
<1>6. \A q \in Requests : InFlight(q)' => InFlight(q)
  BY <1>1, <1>2 DEF InFlight
<1>7. KeyIsClaimed'
  BY <1>6 DEF KeyIsClaimed, KeyFree, Key
<1>8. OneOrderPerKey'
  BY DEF OneOrderPerKey, Key
<1> QED  BY <1>4, <1>5, <1>7, <1>8

\* So does an error, and an item's steps up to the last.
LEMMA KeyInside ==
  ASSUME TypeOK, KeyInv, NEW r \in Requests, UNCHANGED <<orders, input>>,
         pc[r] \in {"insert", "item", "save"},
         NEW step \in Holding, NEW e \in TxErrors \cup {"none"},
         pc' = [pc EXCEPT ![r] = step], outcome' = [outcome EXCEPT ![r] = e],
         step # "rollback" => pc[r] # "insert" /\ e = "none",
         pc[r] = "insert" => e \in InsertErrors
  PROVE  KeyInv'
<1> USE DEF KeyInv, Holding, BeforeTx
<1>1. \A q \in Requests \ {r} : pc'[q] = pc[q] /\ outcome'[q] = outcome[q]
  BY DEF TypeOK
<1>2. pc'[r] = step /\ outcome'[r] = e
  BY DEF TypeOK
<1>4. NoOutcomeYet'
  BY <1>1, <1>2 DEF NoOutcomeYet
<1>5. OrdersAreCommitted'
  BY <1>1, <1>2 DEF OrdersAreCommitted, TypeOK
<1>6. \A q \in Requests : InFlight(q)' => InFlight(q)
  BY <1>1, <1>2 DEF InFlight, NoOutcomeYet, InsertErrors
<1>7. KeyIsClaimed'
  BY <1>6 DEF KeyIsClaimed, KeyFree, Key
<1>8. OneOrderPerKey'
  BY DEF OneOrderPerKey, Key
<1> QED  BY <1>4, <1>5, <1>7, <1>8

\* A transaction in a cycle of waits is waited for, so it is past its insert.
LEMMA VictimIsPastInsert ==
  ASSUME TypeOK, LocksAreHeld, NEW r \in Requests, InWaitCycle(r)
  PROVE  pc[r] = "item"
<1>1. PICK q \in Requests : r \in WaitsFor(q)
  BY DEF InWaitCycle
<1>2. pc[r] \in Holding
  <2>1. CASE pc[q] = "insert"
    BY <1>1, <2>1 DEF WaitsFor, InFlight, Holding
  <2>2. CASE pc[q] = "item" /\ HasLine(q)
    <3>1. Line(q).productId \in Products
      BY <2>2, LineType
    <3>2. lock[Line(q).productId] = r
      BY <1>1, <2>2 DEF WaitsFor
    <3> QED  BY <3>1, <3>2 DEF LocksAreHeld
  <2> QED  BY <1>1, <2>1, <2>2 DEF WaitsFor
<1> QED  BY <1>2, WaitingSteps DEF Holding

\* The insert claims the key: no order has it, and no other transaction.
LEMMA KeyInsert ==
  ASSUME TypeOK, KeyInv, NEW r \in Requests, InsertOrder(r)
  PROVE  KeyInv'
<1>1. CASE pc' = [pc EXCEPT ![r] = "item"] /\ UNCHANGED outcome
  <2> USE DEF KeyInv, BeforeTx
  <2>1. pc[r] = "insert" /\ WaitsFor(r) = {} /\ UNCHANGED <<orders, input>>
    BY DEF InsertOrder, dbVars, localVars
  <2>2. \A q \in Requests \ {r} : pc'[q] = pc[q] /\ (InFlight(q)' <=> InFlight(q))
    BY <1>1 DEF TypeOK, InFlight
  <2>3. pc'[r] = "item" /\ outcome[r] = "none"
    BY <1>1, <2>1 DEF TypeOK, NoOutcomeYet
  <2>4. KeyFree(r)
    BY <1>1, <2>1 DEF InsertOrder, Throw, Goto, TypeOK
  <2>5. \A q \in Requests \ {r} : InFlight(q) => ~SameIndexKey(Key(r), Key(q))
    BY <2>1 DEF WaitsFor
  <2>6. NoOutcomeYet'
    BY <1>1, <2>2, <2>3 DEF NoOutcomeYet
  <2>7. OrdersAreCommitted'
    BY <2>1, <2>2, <2>3 DEF OrdersAreCommitted, TypeOK
  <2>8. KeyIsClaimed'
    <3>1. \A q \in Requests : Key(q)' = Key(q) /\ (KeyFree(q)' <=> KeyFree(q))
      BY <2>1 DEF Key, KeyFree
    <3> QED  BY <2>2, <2>4, <2>5, <3>1 DEF KeyIsClaimed, SameIndexKey
  <2>9. OneOrderPerKey'
    BY <2>1 DEF OneOrderPerKey, Key
  <2> QED  BY <2>6, <2>7, <2>8, <2>9
<1>2. ASSUME NEW e \in InsertErrors, Throw(r, e) PROVE KeyInv'
  BY <1>2, KeyInside DEF InsertOrder, Throw, Goto, dbVars, localVars, Holding, TxErrors
<1> QED  BY <1>1, <1>2 DEF InsertOrder, Goto, InsertErrors

\* Commit turns the claim into an entry of the unique index.
LEMMA KeyCommit ==
  ASSUME TypeOK, KeyInv, NEW r \in Requests, CommitRows(r),
         NEW step \in {"publish", "release"}, NEW e \in Outcomes,
         pc' = [pc EXCEPT ![r] = step], outcome' = [outcome EXCEPT ![r] = e],
         step = "publish" => e = "none"
  PROVE  KeyInv'
<1> USE DEF KeyInv, BeforeTx, Over
<1>1. /\ pc[r] = "item"
      /\ orders' = orders \cup {r}
      /\ UNCHANGED input
  BY DEF CommitRows, localVars
<1>2. /\ pc'[r] = step /\ outcome[r] = "none" /\ outcome'[r] = e /\ InFlight(r)
      /\ \A q \in Requests \ {r} : outcome'[q] = outcome[q]
      /\ \A q \in Requests \ {r} : pc'[q] = pc[q] /\ (InFlight(q)' <=> InFlight(q))
  BY <1>1 DEF TypeOK, NoOutcomeYet, InFlight, InsertErrors
<1>3. ~InFlight(r)'
  BY <1>2 DEF InFlight
<1>4. \A q \in Requests : Key(q)' = Key(q)
  BY <1>1 DEF Key
<1>5. NoOutcomeYet'
  BY <1>1, <1>2 DEF NoOutcomeYet
<1>6. OrdersAreCommitted'
  BY <1>1, <1>2 DEF OrdersAreCommitted, TypeOK
<1>7. KeyIsClaimed'
  BY <1>1, <1>2, <1>3, <1>4 DEF KeyIsClaimed, KeyFree, SameIndexKey, TypeOK
<1>8. OneOrderPerKey'
  BY <1>1, <1>2, <1>4 DEF OneOrderPerKey, KeyIsClaimed, KeyFree, SameIndexKey, TypeOK
<1> QED  BY <1>5, <1>6, <1>7, <1>8

\* Claims and orders that disappear leave the others as they were.
LEMMA KeyShrink ==
  ASSUME TypeOK, KeyInv, UNCHANGED input, orders' \subseteq orders,
         \A q \in Requests : InFlight(q)' => InFlight(q),
         NoOutcomeYet', OrdersAreCommitted'
  PROVE  KeyInv'
<1>1. \A q \in Requests : Key(q)' = Key(q)
  BY DEF Key
<1>2. KeyIsClaimed'
  BY <1>1 DEF KeyInv, KeyIsClaimed, KeyFree, SameIndexKey, TypeOK
<1>3. OneOrderPerKey'
  BY <1>1 DEF KeyInv, OneOrderPerKey, SameIndexKey, TypeOK
<1> QED  BY <1>2, <1>3 DEF KeyInv

\* Every step keeps the part of the invariant about idempotency keys.
LEMMA KeyStep == IInv /\ [Next]_vars => KeyInv'
<1> SUFFICES ASSUME IInv, [Next]_vars PROVE KeyInv'  OBVIOUS
<1>0. TypeOK /\ KeyInv /\ LocksAreHeld /\ NoOutcomeYet
  BY DEF IInv, StockInv, KeyInv
<1>1. ASSUME NEW r \in Requests, Around(r) PROVE KeyInv'
  BY <1>0, <1>1, OutsideMoves, KeyOutside
<1>2. ASSUME NEW r \in Requests, InsertOrder(r) PROVE KeyInv'
  BY <1>0, <1>2, KeyInsert
<1>3. ASSUME NEW r \in Requests, LockProduct(r) PROVE KeyInv'
  <2> DEFINE n == Line(r).quantity
             v == Visible(r, Line(r).productId)
  <2>1. n \in Int /\ v \in Nat
    BY <1>0, <1>3, LineType, VisibleType DEF LockProduct
  <2>2. pc[r] = "item" /\ UNCHANGED <<orders, input>>
    BY <1>3 DEF LockProduct, dbVars
  <2>3. \/ Throw(r, "NoProduct")
        \/ ItemError(n, v) # "none" /\ Throw(r, ItemError(n, v))
        \/ Goto(r, "save") /\ UNCHANGED outcome
    BY <1>3 DEF LockProduct
  <2>4. ItemError(n, v) # "none" => ItemError(n, v) \in TxErrors
    BY <2>1, ItemPasses
  <2>5. ASSUME NEW e \in TxErrors, Throw(r, e) PROVE KeyInv'
    BY <1>0, <2>2, <2>5, KeyInside DEF Throw, Goto, Holding
  <2>6. CASE Goto(r, "save") /\ UNCHANGED outcome
    <3>1. outcome' = [outcome EXCEPT ![r] = "none"]
      BY <1>0, <2>2, <2>6 DEF TypeOK, NoOutcomeYet
    <3> QED  BY <1>0, <2>2, <2>6, <3>1, KeyInside DEF Goto, Holding
  <2> HIDE DEF n, v
  <2> QED  BY <2>3, <2>4, <2>5, <2>6 DEF TxErrors
<1>4. ASSUME NEW r \in Requests, SaveItem(r) PROVE KeyInv'
  <2>1. pc[r] = "save" /\ Goto(r, "item") /\ UNCHANGED <<orders, input, outcome>>
    BY <1>4 DEF SaveItem, dbVars
  <2>2. outcome' = [outcome EXCEPT ![r] = "none"]
    BY <1>0, <2>1 DEF TypeOK, NoOutcomeYet
  <2> QED  BY <1>0, <2>1, <2>2, KeyInside DEF Goto, Holding
<1>5. ASSUME NEW r \in Requests, Commit(r) \/ CommitUnanswered(r) PROVE KeyInv'
  <2>1. CASE Commit(r)
    <3>1. outcome' = [outcome EXCEPT ![r] = "none"]
      BY <1>0, <2>1 DEF TypeOK, NoOutcomeYet, Commit, CommitRows
    <3> QED  BY <1>0, <2>1, <3>1, KeyCommit DEF Commit, Goto, Outcomes
  <2>2. CASE CommitUnanswered(r)
    BY <1>0, <2>2, KeyCommit DEF CommitUnanswered, Goto, Outcomes, Failures
  <2> QED  BY <1>5, <2>1, <2>2
<1>6. ASSUME NEW r \in Requests, Rollback(r) \/ LoseConnection(r) PROVE KeyInv'
  <2>1. /\ pc[r] \in InTx /\ UNCHANGED <<orders, input>>
        /\ pc'[r] \in {"reread", "release", "done"}
        /\ \A q \in Requests \ {r} : pc'[q] = pc[q] /\ outcome'[q] = outcome[q]
    BY <1>0, <1>6 DEF Rollback, LoseConnection, dbVars, localVars, Goto, TypeOK, InTx
  <2>2. \A q \in Requests : InFlight(q)' => InFlight(q)
    BY <2>1 DEF InFlight
  <2>3. NoOutcomeYet' /\ OrdersAreCommitted'
    BY <1>0, <2>1 DEF NoOutcomeYet, OrdersAreCommitted, KeyInv, TypeOK, BeforeTx, InTx, Over
  <2> QED  BY <1>0, <2>1, <2>2, <2>3, KeyShrink
<1>7. ASSUME NEW r \in Requests, DeadlockAbort(r) PROVE KeyInv'
  BY <1>0, <1>7, VictimIsPastInsert, KeyInside
  DEF DeadlockAbort, Throw, Goto, dbVars, localVars, Holding, TxErrors
<1>8. ASSUME UNCHANGED <<pc, outcome, input>>, orders' \subseteq orders PROVE KeyInv'
  <2>1. \A q \in Requests : InFlight(q)' => InFlight(q)
    BY <1>8 DEF InFlight
  <2>2. NoOutcomeYet' /\ OrdersAreCommitted'
    BY <1>0, <1>8 DEF NoOutcomeYet, OrdersAreCommitted, KeyInv
  <2> QED  BY <1>0, <1>8, <2>1, <2>2, KeyShrink
<1>9. ASSUME NEW o \in Requests, DeleteOrder(o) PROVE KeyInv'
  BY <1>8, <1>9 DEF DeleteOrder, localVars
<1>10. ASSUME NEW p \in Products, DeleteProduct(p) PROVE KeyInv'
  BY <1>8, <1>10 DEF DeleteProduct, localVars
<1>11. ASSUME NEW u \in Users, DeleteUser(u) PROVE KeyInv'
  BY <1>8, <1>11 DEF DeleteUser, localVars
<1>12. CASE CloseChannel
  BY <1>8, <1>12 DEF CloseChannel, dbVars, localVars
<1>13. CASE Crash
  <2>1. \A q \in Requests : pc'[q] = IF pc[q] \in {"start", "done"} THEN pc[q] ELSE "done"
    BY <1>13 DEF Crash
  <2>2. \A q \in Requests : pc[q] \in {"start", "done"} => outcome'[q] = outcome[q]
    BY <1>13 DEF Crash
  <2>3. UNCHANGED <<orders, input>>
    BY <1>13 DEF Crash, dbVars, localVars
  <2>4. \A q \in Requests : InFlight(q)' => InFlight(q)
    BY <2>1 DEF InFlight
  <2>5. NoOutcomeYet' /\ OrdersAreCommitted'
    BY <1>0, <2>1, <2>2, <2>3 DEF NoOutcomeYet, OrdersAreCommitted, KeyInv, TypeOK, BeforeTx
  <2> QED  BY <1>0, <2>3, <2>4, <2>5, KeyShrink
<1>14. CASE UNCHANGED vars
  BY <1>8, <1>14 DEF vars, dbVars, localVars
<1> QED
  BY <1>1, <1>2, <1>3, <1>4, <1>5, <1>6, <1>7, <1>9, <1>10, <1>11, <1>12, <1>13, <1>14
  DEF Next, Handle, Fail, Around, Finished

-----------------------------------------------------------------------------
\* IInv is an invariant of the specification.
THEOREM Invariance == Spec => []IInv
<1>1. IInv /\ [Next]_vars => IInv'
  BY TypeStep, StockStep, KeyStep DEF IInv
<1> QED  BY InitIInv, <1>1, PTL DEF Spec

\* create() keeps the types of its locals and of the rows it writes; in
\* particular no stock it computes is negative.
THEOREM TypeCorrect == Spec => []TypeOK
<1>1. IInv => TypeOK  BY DEF IInv
<1> QED  BY Invariance, <1>1, PTL

\* No update of products.stock is lost under any interleaving of any number
\* of create() transactions, rollbacks, deadlock victims and crashes.
THEOREM StockConserved == Spec => []StockConservation
<1>1. IInv => StockConservation  BY DEF IInv, StockInv
<1> QED  BY Invariance, <1>1, PTL

\* The pessimistic lock of create() prevents overselling.
THEOREM NeverOversold == Spec => []NoOversell
<1>1. IInv => NoOversell
  BY StockAssumption DEF IInv, TypeOK, StockInv, StockConservation, NoOversell
<1> QED  BY Invariance, <1>1, PTL

\* The unique index and the waits on it leave one order per idempotency key.
THEOREM KeysAreUnique == Spec => []OneOrderPerKey
<1>1. IInv => OneOrderPerKey  BY DEF IInv, KeyInv
<1> QED  BY Invariance, <1>1, PTL

-----------------------------------------------------------------------------
(* Answers: what a request holds while it runs and once it has its answer. *)

\* A transaction holds the lines before nextItem, no more and no fewer.
LinesAreHeld(r) ==
  /\ pc[r] \in BeforeTx \cup {"insert"} => nextItem[r] = 1
  /\ pc[r] \in {"item", "save"} =>
       \E n \in 0..Len(input[r].items) : nextItem[r] = n + 1 /\ HoldsLines(r, n)

OrderIsWhole(r) == r \in orders => HoldsAllLines(r)

\* A transaction that has ended left all rows of its order or none.
RowsAreWhole(r) == pc[r] \in Over => taken[r] = Nothing \/ HoldsAllLines(r)

\* A request that was refused has no order, and no rows once its transaction
\* has been rolled back.
FailureIsUndone(r) ==
  outcome[r] \in Refusals =>
    /\ pc[r] \in {"rollback", "reread", "done"} /\ r \notin orders
    /\ pc[r] # "rollback" => taken[r] = Nothing

\* The order in a duplicate answer was committed, and is whole even if it has
\* been deleted since.
DuplicateIsWhole(r) ==
  outcome[r] = "duplicate" =>
    /\ pc[r] = "done" /\ r \notin orders /\ taken[r] = Nothing
    /\ returned[r] \in Requests \ {r} /\ pc[returned[r]] \in Over
    /\ Key(returned[r]) = Key(r) /\ HoldsAllLines(returned[r])

\* A connection is held from connect() to release(), or for good if
\* startTransaction() threw.
ConnIsInUse(r) ==
  r \in conns => \/ pc[r] \in InTx \cup {"begin", "publish", "reread", "release"}
                 \/ pc[r] = "done" /\ outcome[r] = "NotStarted"

RequestInv(r) ==
  /\ LinesAreHeld(r) /\ OrderIsWhole(r) /\ RowsAreWhole(r)
  /\ FailureIsUndone(r) /\ DuplicateIsWhole(r) /\ ConnIsInUse(r)

AnswerInv == \A r \in Requests : RequestInv(r)

\* What a request holds depends on its body and its rows only.
LEMMA HoldsFrame ==
  ASSUME NEW r, input' = input, taken'[r] = taken[r]
  PROVE  /\ \A n \in Nat : HoldsLines(r, n) => HoldsLines(r, n)'
         /\ HoldsAllLines(r) => HoldsAllLines(r)'
<1>1. \A n : HoldsLines(r, n) => HoldsLines(r, n)'
  BY DEF HoldsLines, Quantity
<1>2. HoldsAllLines(r) => HoldsAllLines(r)'
  BY DEF HoldsAllLines, HoldsLines, Quantity
<1> QED  BY <1>1, <1>2

\* Before the first item nothing is held.
LEMMA HoldsNothing ==
  ASSUME NEW r \in Requests, taken[r] = Nothing
  PROVE  HoldsLines(r, 0)
<1> SUFFICES ASSUME NEW p \in Products
             PROVE  \E total \in [0..0 -> 0..MaxStock] :
                      /\ total[0] = 0
                      /\ \A i \in 1..0 : total[i] = total[i - 1] + Quantity(r, i, p)
                      /\ total[0] = taken[r][p]
  BY DEF HoldsLines
<1> DEFINE t == [i \in 0..0 |-> 0]
<1>1. t \in [0..0 -> 0..MaxStock] /\ t[0] = 0
  BY StockAssumption
<1>2. taken[r][p] = 0
  BY DEF Nothing
<1>3. \A i \in 1..0 : t[i] = t[i - 1] + Quantity(r, i, p)
  OBVIOUS
<1> QED  BY <1>1, <1>2, <1>3

\* The rows of a committed order are final, whatever happens to the order.
LEMMA CommittedRowsStay ==
  ASSUME IInv, [Next]_vars
  PROVE  /\ input' = input
         /\ \A q \in Requests : pc[q] \in Over =>
              pc'[q] \in Over /\ taken'[q] = taken[q]
<1> USE DEF IInv, Goto
<1>1. ASSUME NEW r \in Requests,
             Start(r) \/ Lookup(r) \/ FindUser(r) \/ Connect(r) \/ StartTransaction(r)
      PROVE  /\ pc[r] \notin Over
             /\ \A q \in Requests \ {r} : pc'[q] = pc[q]
             /\ UNCHANGED <<input, taken>>
  BY <1>1 DEF Start, Lookup, FindUser, Connect, StartTransaction, CheckItems, AnswerDuplicate,
       Answer, TypeOK, txVars, localVars
<1>2. ASSUME NEW r \in Requests,
             \/ InsertOrder(r) \/ LockProduct(r) \/ Reread(r)
             \/ StartTransactionFails(r) \/ ReadFails(r)
      PROVE  /\ pc[r] \notin Over
             /\ \A q \in Requests \ {r} : pc'[q] = pc[q]
             /\ UNCHANGED <<input, taken>>
  BY <1>2 DEF InsertOrder, LockProduct, Reread, StartTransactionFails, ReadFails, Throw,
       AnswerDuplicate, Answer, TypeOK, txVars, localVars
<1>3. ASSUME NEW r \in Requests, SaveItem(r) \/ Rollback(r) \/ LoseConnection(r)
      PROVE  /\ pc[r] \notin Over
             /\ \A q \in Requests \ {r} : pc'[q] = pc[q] /\ taken'[q] = taken[q]
             /\ UNCHANGED input
  BY <1>3 DEF SaveItem, Rollback, LoseConnection, Undo, TypeOK, localVars, InTx
<1>4. ASSUME NEW r \in Requests,
             Commit(r) \/ CommitUnanswered(r) \/ Publish(r) \/ ReleaseAndThrow(r)
      PROVE  /\ pc'[r] \in Over
             /\ \A q \in Requests \ {r} : pc'[q] = pc[q]
             /\ UNCHANGED <<input, taken>>
  BY <1>4 DEF Commit, CommitUnanswered, CommitRows, Publish, ReleaseAndThrow, Answer,
       TypeOK, txVars, localVars
<1>5. ASSUME NEW r \in Requests, DeadlockAbort(r)
      PROVE  /\ pc[r] \notin Over
             /\ \A q \in Requests \ {r} : pc'[q] = pc[q]
             /\ UNCHANGED <<input, taken>>
  BY <1>5, WaitingSteps DEF DeadlockAbort, Throw, TypeOK, txVars, localVars
<1>6. CASE Crash
  BY <1>6 DEF Crash, Undo, TypeOK, localVars
<1>7. ASSUME UNCHANGED <<pc, taken, input>>
      PROVE  /\ input' = input
             /\ \A q \in Requests : pc[q] \in Over =>
                  pc'[q] \in Over /\ taken'[q] = taken[q]
  BY <1>7
<1>8. CASE \/ \E o \in Requests : DeleteOrder(o)
           \/ \E p \in Products : DeleteProduct(p)
           \/ \E u \in Users : DeleteUser(u)
           \/ CloseChannel \/ UNCHANGED vars
  BY <1>7, <1>8 DEF DeleteOrder, DeleteProduct, DeleteUser, CloseChannel, vars, txVars, localVars
<1> QED
  BY <1>1, <1>2, <1>3, <1>4, <1>5, <1>6, <1>8 DEF Next, Handle, Fail, Finished

\* r's order, rows, answer and connection are as they were, or fewer.
Still(r) ==
  /\ pc'[r] = pc[r] /\ nextItem'[r] = nextItem[r] /\ taken'[r] = taken[r]
  /\ outcome'[r] = outcome[r] /\ returned'[r] = returned[r]
  /\ r \in orders' => r \in orders
  /\ r \in conns' => r \in conns

\* A request that does not move keeps what is known of it.
LEMMA RequestStays ==
  ASSUME IInv, AnswerInv, [Next]_vars, NEW r \in Requests, Still(r)
  PROVE  RequestInv(r)'
<1>0. RequestInv(r) /\ input' = input
  BY CommittedRowsStay DEF AnswerInv
<1>1. LinesAreHeld(r)'
  <2>1. CASE pc[r] \in {"item", "save"}
    <3>1. PICK n \in 0..Len(input[r].items) : nextItem[r] = n + 1 /\ HoldsLines(r, n)
      BY <1>0, <2>1 DEF RequestInv, LinesAreHeld
    <3>2. n \in Nat
      OBVIOUS
    <3>3. HoldsLines(r, n)'
      BY <1>0, <3>1, <3>2, HoldsFrame DEF Still
    <3> QED  BY <1>0, <2>1, <3>1, <3>3 DEF LinesAreHeld, Still, BeforeTx
  <2>2. CASE pc[r] \notin {"item", "save"}
    BY <1>0, <2>2 DEF RequestInv, LinesAreHeld, Still
  <2> QED  BY <2>1, <2>2
<1>2. OrderIsWhole(r)'
  BY <1>0, HoldsFrame DEF RequestInv, OrderIsWhole, Still
<1>3. FailureIsUndone(r)'
  BY <1>0 DEF RequestInv, FailureIsUndone, Still, Nothing
<1>4. DuplicateIsWhole(r)'
  <2> SUFFICES ASSUME outcome'[r] = "duplicate" PROVE DuplicateIsWhole(r)'
    BY DEF DuplicateIsWhole
  <2>1. PICK o \in Requests \ {r} : o = returned[r]
    BY <1>0 DEF RequestInv, DuplicateIsWhole, Still
  <2>2. pc[o] \in Over /\ Key(o) = Key(r) /\ HoldsAllLines(o)
    BY <1>0, <2>1 DEF RequestInv, DuplicateIsWhole, Still
  <2>3. pc'[o] \in Over /\ taken'[o] = taken[o]
    BY <2>2, CommittedRowsStay
  <2>4. HoldsAllLines(o)'
    BY <1>0, <2>2, <2>3, HoldsFrame
  <2>5. returned'[r] = o /\ pc'[r] = "done" /\ r \notin orders' /\ taken'[r] = Nothing
    BY <1>0, <2>1 DEF RequestInv, DuplicateIsWhole, Still
  <2>6. Key(o)' = Key(r)'
    BY <1>0, <2>2 DEF Key
  <2> QED  BY <2>3, <2>4, <2>5, <2>6 DEF DuplicateIsWhole, Nothing, Key
<1>5. ConnIsInUse(r)'
  BY <1>0 DEF RequestInv, ConnIsInUse, Still
<1>6. RowsAreWhole(r)'
  BY <1>0, HoldsFrame DEF RequestInv, RowsAreWhole, Still, Nothing
<1> QED  BY <1>1, <1>2, <1>3, <1>4, <1>5, <1>6 DEF RequestInv

\* A step of one request leaves the others alone.
LEMMA OthersStay ==
  ASSUME IInv, NEW r \in Requests, Start(r) \/ Handle(r) \/ DeadlockAbort(r) \/ Fail(r),
         NEW q \in Requests \ {r}
  PROVE  Still(q)
<1> USE DEF IInv, Goto, TypeOK, Still, dbVars, txVars, localVars
<1>1. CASE Start(r) \/ FindUser(r) \/ Connect(r) \/ StartTransaction(r)
  BY <1>1 DEF Start, FindUser, Connect, StartTransaction, CheckItems, Answer
<1>2. CASE Lookup(r) \/ Reread(r)
  BY <1>2 DEF Lookup, Reread, CheckItems, AnswerDuplicate, Answer, Release
<1>3. CASE InsertOrder(r) \/ LockProduct(r) \/ DeadlockAbort(r)
  BY <1>3 DEF InsertOrder, LockProduct, DeadlockAbort, Throw
<1>4. CASE SaveItem(r)
  BY <1>4 DEF SaveItem
<1>5. CASE Rollback(r) \/ LoseConnection(r)
  BY <1>5 DEF Rollback, LoseConnection, Undo, Release
<1>6. CASE Commit(r) \/ CommitUnanswered(r) \/ Publish(r)
  BY <1>6 DEF Commit, CommitUnanswered, CommitRows, Publish, Answer, Release
<1>7. CASE StartTransactionFails(r) \/ ReadFails(r) \/ ReleaseAndThrow(r)
  BY <1>7 DEF StartTransactionFails, ReadFails, ReleaseAndThrow, Answer, Release
<1> QED  BY <1>1, <1>2, <1>3, <1>4, <1>5, <1>6, <1>7 DEF Handle, Fail

\* A request with an answer, other than a duplicate's, holds nothing but,
\* perhaps, a whole order, and not that if it was refused.
LEMMA RequestDone ==
  ASSUME NEW r \in Requests, pc'[r] = "done", outcome'[r] # "duplicate",
         r \in conns' => outcome'[r] = "NotStarted",
         OrderIsWhole(r)', RowsAreWhole(r)', FailureIsUndone(r)'
  PROVE  RequestInv(r)'
BY DEF RequestInv, LinesAreHeld, DuplicateIsWhole, ConnIsInUse, BeforeTx

\* It does so if it never had rows.
LEMMA RequestDoneEmpty ==
  ASSUME NEW r \in Requests, pc'[r] = "done", outcome'[r] # "duplicate",
         r \in conns' => outcome'[r] = "NotStarted",
         r \notin orders', taken'[r] = Nothing
  PROVE  RequestInv(r)'
BY RequestDone DEF OrderIsWhole, RowsAreWhole, FailureIsUndone, Nothing

\* A lookup that finds an order of the key answers with it: its transaction is
\* over, so it is whole, and it is not the order of the request itself.
LEMMA RequestDuplicate ==
  ASSUME IInv, AnswerInv, [Next]_vars, NEW r \in Requests, NEW o \in orders,
         pc[r] \in {"lookup", "reread"}, Key(o) = Key(r), AnswerDuplicate(r, o),
         UNCHANGED <<orders, taken>>, r \notin conns'
  PROVE  RequestInv(r)'
<1>1. pc'[r] = "done" /\ outcome'[r] = "duplicate" /\ returned'[r] = o
  BY DEF AnswerDuplicate, Answer, Goto, IInv, TypeOK
<1>2. r \notin orders /\ taken[r] = Nothing
  BY DEF IInv, KeyInv, StockInv, OrdersAreCommitted, NoRowsYet, BeforeTx
<1>3. o \in Requests /\ pc[o] \in Over /\ HoldsAllLines(o)
  BY DEF IInv, TypeOK, KeyInv, OrdersAreCommitted, AnswerInv, RequestInv, OrderIsWhole
<1>4. input' = input /\ pc'[o] \in Over /\ HoldsAllLines(o)'
  BY <1>3, CommittedRowsStay, HoldsFrame
<1>5. DuplicateIsWhole(r)'
  BY <1>1, <1>2, <1>3, <1>4 DEF DuplicateIsWhole, Key, Nothing
<1>6. outcome'[r] \notin Refusals
  BY <1>1 DEF Refusals, TxErrors, InsertErrors
<1> QED
  BY <1>1, <1>2, <1>5, <1>6
  DEF RequestInv, LinesAreHeld, OrderIsWhole, RowsAreWhole, FailureIsUndone, ConnIsInUse,
      BeforeTx, Nothing

\* A request that goes on to its next await before the transaction.
LEMMA RequestGoesOn ==
  ASSUME IInv, AnswerInv, NEW r \in Requests, NEW step \in BeforeTx \cup {"insert"},
         pc[r] \in BeforeTx, pc'[r] = step, outcome'[r] = outcome[r],
         UNCHANGED <<orders, taken, nextItem>>, r \in conns' => step \in {"begin", "insert"}
  PROVE  RequestInv(r)'
<1>1. r \notin orders /\ outcome[r] = "none" /\ nextItem[r] = 1
  BY DEF IInv, KeyInv, OrdersAreCommitted, NoOutcomeYet, AnswerInv, RequestInv,
         LinesAreHeld, BeforeTx
<1> QED
  BY <1>1 DEF RequestInv, LinesAreHeld, OrderIsWhole, RowsAreWhole, FailureIsUndone,
              DuplicateIsWhole, ConnIsInUse, BeforeTx, InTx, Refusals, TxErrors, InsertErrors

\* The steps before the transaction.
LEMMA RequestBefore ==
  ASSUME IInv, AnswerInv, [Next]_vars, NEW r \in Requests,
         \/ Start(r) \/ Lookup(r) \/ FindUser(r) \/ Connect(r)
         \/ StartTransaction(r) \/ StartTransactionFails(r) \/ ReadFails(r)
  PROVE  RequestInv(r)'
<1>1. /\ pc[r] \in BeforeTx \cup {"reread"} /\ r \notin orders /\ taken[r] = Nothing
      /\ r \in conns => pc[r] \in {"begin", "reread"}
      /\ UNCHANGED <<orders, taken, nextItem>>
  <2>1. /\ pc[r] \in BeforeTx \cup {"reread"}
        /\ UNCHANGED <<orders, taken, nextItem>>
    BY DEF BeforeTx, Start, Lookup, FindUser, Connect, StartTransaction,
           StartTransactionFails, ReadFails, dbVars, txVars, localVars
  <2> QED
    BY <2>1 DEF IInv, KeyInv, OrdersAreCommitted, StockInv, NoRowsYet, AnswerInv, RequestInv,
         ConnIsInUse, BeforeTx, InTx
<1>2. ASSUME NEW e \in {"EmptyItems", "NoUser", "NotStarted", "ConnectionLost"}, Answer(r, e),
             r \in conns' => e = "NotStarted"
      PROVE  RequestInv(r)'
  <2>1. pc'[r] = "done" /\ outcome'[r] = e /\ e # "duplicate"
    BY <1>2 DEF Answer, Goto, IInv, TypeOK
  <2> QED  BY <1>1, <1>2, <2>1, RequestDoneEmpty
<1>3. ASSUME NEW step \in BeforeTx \cup {"insert"}, Goto(r, step), UNCHANGED outcome,
             pc[r] # "reread", r \in conns' => step \in {"begin", "insert"}
      PROVE  RequestInv(r)'
  <2>1. pc'[r] = step
    BY <1>3 DEF Goto, IInv, TypeOK
  <2> QED  BY <1>1, <1>3, <2>1, RequestGoesOn
<1>4. ASSUME CheckItems(r), pc[r] \in {"start", "lookup"}, UNCHANGED conns PROVE RequestInv(r)'
  BY <1>1, <1>2, <1>3, <1>4 DEF CheckItems, BeforeTx
<1>5. CASE Start(r)
  BY <1>1, <1>3, <1>4, <1>5 DEF Start, BeforeTx
<1>6. CASE Lookup(r)
  BY <1>1, <1>4, <1>6, RequestDuplicate DEF Lookup
<1>7. CASE FindUser(r)
  BY <1>1, <1>2, <1>3, <1>7 DEF FindUser, BeforeTx
<1>8. CASE Connect(r)
  BY <1>3, <1>8 DEF Connect, BeforeTx
<1>9. CASE StartTransaction(r)
  BY <1>3, <1>9 DEF StartTransaction
<1>10. CASE StartTransactionFails(r)
  BY <1>2, <1>10 DEF StartTransactionFails
<1>11. CASE ReadFails(r)
  BY <1>2, <1>11 DEF ReadFails, Release
<1> QED  BY <1>5, <1>6, <1>7, <1>8, <1>9, <1>10, <1>11

\* An error in the transaction: the order is not there yet.
LEMMA RequestThrows ==
  ASSUME IInv, AnswerInv, NEW r \in Requests, NEW e \in TxErrors, Throw(r, e),
         pc[r] \in {"insert", "item"}, UNCHANGED orders
  PROVE  RequestInv(r)'
<1>1. pc'[r] = "rollback" /\ outcome'[r] = e /\ r \notin orders
  BY DEF Throw, Goto, IInv, TypeOK, KeyInv, OrdersAreCommitted
<1>2. e # "duplicate"
  BY DEF TxErrors, InsertErrors
<1> QED
  BY <1>1, <1>2 DEF RequestInv, LinesAreHeld, OrderIsWhole, RowsAreWhole, FailureIsUndone,
              DuplicateIsWhole, ConnIsInUse, BeforeTx, InTx

\* Saving an item adds its line to the lines held.
LEMMA LinesGrow ==
  ASSUME IInv, IInv', NEW r \in Requests, SaveItem(r),
         NEW n \in 0..Len(input[r].items), nextItem[r] = n + 1, HoldsLines(r, n)
  PROVE  n + 1 \in 0..Len(input[r].items) /\ HoldsLines(r, n + 1)'
<1> DEFINE x == Line(r).productId
           a == Line(r).quantity
<1>1. HasLine(r) /\ pc[r] = "save" /\ input' = input
  BY DEF IInv, StockInv, ReadIsCurrent, SaveItem
<1>2. x \in Products /\ a \in Int /\ x = input[r].items[n + 1].productId
      /\ a = input[r].items[n + 1].quantity
  BY <1>1, LineType DEF IInv, Line
<1>3. n + 1 \in 0..Len(input[r].items)
  <2>1. input[r].items \in Seq(Item)
    BY InputsAssumption DEF IInv, TypeOK, OrderInput
  <2> QED  BY <1>1, <2>1 DEF HasLine
<1>4. \A p \in Products : taken'[r][p] = IF p = x THEN taken[r][p] + a ELSE taken[r][p]
  BY <1>2 DEF SaveItem, IInv, TypeOK
<1>5. \A p \in Products : Quantity(r, n + 1, p) = IF p = x THEN a ELSE 0
  BY <1>2 DEF Quantity
<1>6. \A p \in Products : taken[r][p] \in Nat /\ taken'[r][p] \in Nat
  BY DEF IInv, TypeOK
<1> HIDE DEF x, a
<1>7. \A p \in Products : taken'[r][p] = taken[r][p] + Quantity(r, n + 1, p)
  BY <1>2, <1>4, <1>5, <1>6
<1>8. \A p \in Products : taken'[r][p] \in 0..MaxStock
  <2> SUFFICES ASSUME NEW p \in Products PROVE taken'[r][p] <= MaxStock
    BY <1>6, StockAssumption
  <2>1. pc'[r] = "item"
    BY DEF SaveItem, Goto, IInv, TypeOK
  <2>2. /\ stock'[p] \in Nat /\ sold'[p] \in Nat /\ written'[r][p] \in Nat
        /\ stock'[p] + sold'[p] = InitialStock[p]
        /\ InitialStock[p] \in 0..MaxStock /\ MaxStock \in Nat
    BY StockAssumption DEF IInv, TypeOK, StockInv, StockConservation
  <2>3. taken'[r][p] > 0 => written'[r][p] + taken'[r][p] = stock'[p]
    BY <2>1 DEF IInv, StockInv, WritesAreCurrent, Holding
  <2> QED  BY <1>6, <2>2, <2>3
<1>9. ASSUME NEW p \in Products
      PROVE  \E total \in [0..(n + 1) -> 0..MaxStock] :
               /\ total[0] = 0
               /\ \A i \in 1..(n + 1) : total[i] = total[i - 1] + Quantity(r, i, p)
               /\ total[n + 1] = taken'[r][p]
  <2>1. PICK t \in [0..n -> 0..MaxStock] :
          /\ t[0] = 0
          /\ \A i \in 1..n : t[i] = t[i - 1] + Quantity(r, i, p)
          /\ t[n] = taken[r][p]
    BY DEF HoldsLines
  <2> DEFINE u == [i \in 0..(n + 1) |-> IF i = n + 1 THEN taken'[r][p] ELSE t[i]]
  <2>2. n \in Nat
    OBVIOUS
  <2>3. \A i \in 0..n : u[i] = t[i]
    BY <2>2
  <2>4. u[n + 1] = taken'[r][p]
    BY <2>2
  <2>5. u \in [0..(n + 1) -> 0..MaxStock]
    BY <1>8, <2>1, <2>2
  <2> HIDE DEF u
  <2>6. ASSUME NEW i \in 1..(n + 1) PROVE u[i] = u[i - 1] + Quantity(r, i, p)
    <3>1. CASE i = n + 1
      <4>1. u[i - 1] = taken[r][p]
        BY <2>1, <2>2, <2>3, <3>1
      <4> QED  BY <1>7, <2>4, <3>1, <4>1
    <3>2. CASE i # n + 1
      <4>1. i \in 1..n /\ i \in 0..n /\ i - 1 \in 0..n
        BY <2>2, <3>2
      <4> QED  BY <2>1, <2>3, <4>1
    <3> QED  BY <3>1, <3>2
  <2>7. u[0] = 0
    BY <2>1, <2>2, <2>3
  <2> QED  BY <2>4, <2>5, <2>6, <2>7
<1>10. ASSUME NEW p \in Products
       PROVE  \E total \in [0..(n + 1) -> 0..MaxStock] :
                /\ total[0] = 0
                /\ \A i \in 1..(n + 1) : total[i] = total[i - 1] + Quantity(r, i, p)'
                /\ total[n + 1] = taken'[r][p]
  <2>1. \A i : Quantity(r, i, p)' = Quantity(r, i, p)
    BY <1>1 DEF Quantity
  <2>2. PICK t \in [0..(n + 1) -> 0..MaxStock] :
          /\ t[0] = 0
          /\ \A i \in 1..(n + 1) : t[i] = t[i - 1] + Quantity(r, i, p)
          /\ t[n + 1] = taken'[r][p]
    BY <1>9
  <2>3. \A i \in 1..(n + 1) : t[i] = t[i - 1] + Quantity(r, i, p)'
    BY <2>1, <2>2
  <2> QED  BY <2>2, <2>3
<1>11. HoldsLines(r, n + 1)'
  BY <1>10 DEF HoldsLines
<1> QED  BY <1>3, <1>11

\* The steps inside the transaction.
LEMMA RequestInside ==
  ASSUME IInv, IInv', AnswerInv, [Next]_vars, NEW r \in Requests,
         InsertOrder(r) \/ LockProduct(r) \/ SaveItem(r) \/ DeadlockAbort(r)
  PROVE  RequestInv(r)'
<1>0. RequestInv(r) /\ UNCHANGED <<orders, conns, input>>
  BY CommittedRowsStay
  DEF AnswerInv, InsertOrder, LockProduct, SaveItem, DeadlockAbort, dbVars
<1>1. ASSUME NEW step \in {"item", "save"}, pc'[r] = step, UNCHANGED outcome,
             pc[r] \in {"insert", "item", "save"},
             \E n \in 0..Len(input[r].items) : nextItem'[r] = n + 1 /\ HoldsLines(r, n)'
      PROVE  RequestInv(r)'
  <2>1. r \notin orders /\ outcome[r] = "none"
    BY <1>1 DEF IInv, KeyInv, OrdersAreCommitted, NoOutcomeYet
  <2>2. LinesAreHeld(r)'
    BY <1>0, <1>1 DEF LinesAreHeld, BeforeTx
  <2> QED
    BY <1>0, <1>1, <2>1, <2>2 DEF RequestInv, OrderIsWhole, RowsAreWhole, FailureIsUndone,
         DuplicateIsWhole, ConnIsInUse, InTx, Refusals, TxErrors, InsertErrors
<1>2. CASE InsertOrder(r)
  <2>1. CASE \E e \in InsertErrors : Throw(r, e)
    BY <1>0, <1>2, <2>1, RequestThrows DEF InsertOrder, TxErrors
  <2>2. CASE Goto(r, "item") /\ UNCHANGED outcome
    <3>1. pc[r] = "insert" /\ pc'[r] = "item" /\ UNCHANGED <<taken, nextItem>>
      BY <1>2, <2>2 DEF InsertOrder, Goto, IInv, TypeOK, txVars, localVars
    <3>2. nextItem[r] = 1 /\ taken[r] = Nothing
      BY <1>0, <3>1 DEF RequestInv, LinesAreHeld, IInv, StockInv, NoRowsYet
    <3>3. HoldsLines(r, 0)'
      BY <1>0, <3>1, <3>2, HoldsNothing, HoldsFrame
    <3>4. Len(input[r].items) \in Nat
      BY InputsAssumption DEF IInv, TypeOK, OrderInput
    <3>5. 0 \in 0..Len(input[r].items) /\ nextItem'[r] = 0 + 1
      BY <3>1, <3>2, <3>4
    <3> QED  BY <1>1, <2>2, <3>1, <3>3, <3>5
  <2> QED  BY <1>2, <2>1, <2>2 DEF InsertOrder, InsertErrors
<1>3. CASE LockProduct(r)
  <2> DEFINE a == Line(r).quantity
             v == Visible(r, Line(r).productId)
  <2>1. a \in Int /\ v \in Nat
    BY <1>3, LineType, VisibleType DEF LockProduct, IInv
  <2>2. ItemError(a, v) # "none" => ItemError(a, v) \in TxErrors
    BY <2>1, ItemPasses
  <2>3. \/ Throw(r, "NoProduct")
        \/ ItemError(a, v) # "none" /\ Throw(r, ItemError(a, v))
        \/ Goto(r, "save") /\ UNCHANGED outcome
    BY <1>3 DEF LockProduct
  <2>4. pc[r] = "item" /\ UNCHANGED <<taken, nextItem>>
    BY <1>3 DEF LockProduct
  <2> HIDE DEF a, v
  <2>5. CASE \E e \in TxErrors : Throw(r, e)
    BY <1>0, <2>4, <2>5, RequestThrows
  <2>6. CASE Goto(r, "save") /\ UNCHANGED outcome
    <3>1. pc'[r] = "save"
      BY <2>6 DEF Goto, IInv, TypeOK
    <3>2. PICK n \in 0..Len(input[r].items) : nextItem[r] = n + 1 /\ HoldsLines(r, n)
      BY <1>0, <2>4 DEF RequestInv, LinesAreHeld
    <3>3. n \in Nat
      OBVIOUS
    <3>4. HoldsLines(r, n)'
      BY <1>0, <2>4, <3>2, <3>3, HoldsFrame
    <3> QED  BY <1>1, <2>4, <2>6, <3>1, <3>2, <3>4
  <2> QED  BY <2>2, <2>3, <2>5, <2>6 DEF TxErrors
<1>4. CASE SaveItem(r)
  <2>1. /\ pc[r] = "save" /\ pc'[r] = "item" /\ UNCHANGED outcome
        /\ nextItem'[r] = nextItem[r] + 1
    BY <1>4 DEF SaveItem, Goto, IInv, TypeOK
  <2>2. PICK n \in 0..Len(input[r].items) : nextItem[r] = n + 1 /\ HoldsLines(r, n)
    BY <1>0, <2>1 DEF RequestInv, LinesAreHeld
  <2>3. PICK m \in 0..Len(input[r].items) : m = n + 1
    BY <1>4, <2>2, LinesGrow
  <2>4. HoldsLines(r, m)'
    BY <1>4, <2>2, <2>3, LinesGrow
  <2>5. nextItem'[r] = m + 1
    BY <2>1, <2>2, <2>3
  <2> QED  BY <1>1, <2>1, <2>4, <2>5
<1>5. CASE DeadlockAbort(r)
  BY <1>0, <1>5, WaitingSteps, RequestThrows DEF DeadlockAbort, TxErrors
<1> QED  BY <1>2, <1>3, <1>4, <1>5

\* The steps that end the transaction, and those after it.
LEMMA RequestAfter ==
  ASSUME IInv, AnswerInv, [Next]_vars, NEW r \in Requests,
         \/ Commit(r) \/ CommitUnanswered(r) \/ Publish(r) \/ Rollback(r) \/ Reread(r)
         \/ LoseConnection(r) \/ ReleaseAndThrow(r)
  PROVE  RequestInv(r)'
<1>0. RequestInv(r) /\ input' = input
  BY CommittedRowsStay DEF AnswerInv
<1>1. CASE Commit(r) \/ CommitUnanswered(r)
  <2>1. /\ pc[r] = "item" /\ ~HasLine(r) /\ pc'[r] \in {"publish", "release"}
        /\ outcome'[r] \in {outcome[r], "ConnectionLost"}
        /\ UNCHANGED <<taken, conns>>
    BY <1>1 DEF Commit, CommitUnanswered, CommitRows, Goto, IInv, TypeOK
  <2>2. PICK n \in 0..Len(input[r].items) : nextItem[r] = n + 1 /\ HoldsLines(r, n)
    BY <1>0, <2>1 DEF RequestInv, LinesAreHeld
  <2>3. Len(input[r].items) \in Nat
    BY InputsAssumption DEF IInv, TypeOK, OrderInput
  <2>4. n = Len(input[r].items)
    BY <2>1, <2>2, <2>3 DEF HasLine
  <2>5. HoldsAllLines(r)
    BY <2>2, <2>4 DEF HoldsAllLines
  <2>6. HoldsAllLines(r)'
    BY <1>0, <2>1, <2>5, HoldsFrame
  <2>7. outcome[r] = "none"
    BY <2>1 DEF IInv, KeyInv, NoOutcomeYet
  <2> QED
    BY <2>1, <2>6, <2>7 DEF RequestInv, LinesAreHeld, OrderIsWhole, RowsAreWhole,
         FailureIsUndone, DuplicateIsWhole, ConnIsInUse, BeforeTx, InTx, Refusals, TxErrors,
         InsertErrors
<1>2. CASE Publish(r)
  <2>1. /\ pc'[r] = "done" /\ r \notin conns' /\ UNCHANGED <<orders, taken>>
        /\ outcome'[r] \in {"created", "PublishFailed"}
    BY <1>2 DEF Publish, Release, Answer, Goto, IInv, TypeOK, dbVars, txVars
  <2>2. OrderIsWhole(r)' /\ RowsAreWhole(r)'
    BY <1>0, <1>2, <2>1, HoldsFrame DEF RequestInv, OrderIsWhole, RowsAreWhole, Publish, Nothing
  <2>3. FailureIsUndone(r)'
    BY <2>1 DEF FailureIsUndone, Refusals, TxErrors, InsertErrors
  <2> QED  BY <2>1, <2>2, <2>3, RequestDone
<1>3. CASE Rollback(r)
  <2>1. /\ pc[r] = "rollback" /\ pc'[r] \in {"reread", "done"} /\ UNCHANGED <<orders, outcome>>
        /\ taken'[r] = Nothing
        /\ r \in conns' => pc'[r] = "reread"
    BY <1>3 DEF Rollback, Undo, Release, Goto, IInv, TypeOK, dbVars
  <2>2. r \notin orders /\ outcome[r] # "duplicate"
    BY <1>0, <2>1 DEF IInv, KeyInv, OrdersAreCommitted, RequestInv, DuplicateIsWhole
  <2> QED
    BY <2>1, <2>2 DEF RequestInv, LinesAreHeld, OrderIsWhole, RowsAreWhole, FailureIsUndone,
         DuplicateIsWhole, ConnIsInUse, BeforeTx, Nothing
<1>4. CASE Reread(r)
  <2>1. pc[r] = "reread" /\ r \notin conns' /\ UNCHANGED <<orders, taken>>
    BY <1>4 DEF Reread, Release, dbVars, txVars
  <2>2. CASE \E o \in orders : Key(o) = Key(r) /\ AnswerDuplicate(r, o)
    BY <2>1, <2>2, RequestDuplicate
  <2>3. CASE Goto(r, "done") /\ UNCHANGED outcome
    <3>1. pc'[r] = "done" /\ outcome[r] # "duplicate" /\ r \notin orders /\ taken[r] = Nothing
      BY <1>0, <2>1, <2>3 DEF Goto, IInv, TypeOK, RequestInv, DuplicateIsWhole, KeyInv,
           OrdersAreCommitted, StockInv, NoRowsYet
    <3> QED  BY <2>1, <2>3, <3>1, RequestDoneEmpty
  <2> QED  BY <1>4, <2>2, <2>3 DEF Reread
<1>5. CASE LoseConnection(r)
  <2>1. /\ pc[r] \in InTx /\ pc'[r] = "release" /\ taken'[r] = Nothing
        /\ outcome'[r] = "ConnectionLost" /\ UNCHANGED orders
    BY <1>5 DEF LoseConnection, Undo, Goto, IInv, TypeOK, dbVars
  <2>2. r \notin orders
    BY <2>1 DEF IInv, KeyInv, OrdersAreCommitted, InTx
  <2> QED
    BY <2>1, <2>2 DEF RequestInv, LinesAreHeld, OrderIsWhole, RowsAreWhole, FailureIsUndone,
         DuplicateIsWhole, ConnIsInUse, BeforeTx, Refusals, TxErrors, InsertErrors, Nothing
<1>6. CASE ReleaseAndThrow(r)
  <2>1. /\ pc[r] = "release" /\ pc'[r] = "done" /\ r \notin conns'
        /\ UNCHANGED <<orders, taken, outcome>>
    BY <1>6 DEF ReleaseAndThrow, Release, Goto, IInv, TypeOK, dbVars, txVars
  <2>2. OrderIsWhole(r)' /\ RowsAreWhole(r)'
    BY <1>0, <2>1, HoldsFrame DEF RequestInv, OrderIsWhole, RowsAreWhole, Nothing
  <2>3. FailureIsUndone(r)' /\ outcome'[r] # "duplicate"
    BY <1>0, <2>1 DEF RequestInv, FailureIsUndone, DuplicateIsWhole
  <2> QED  BY <2>1, <2>2, <2>3, RequestDone
<1> QED  BY <1>1, <1>2, <1>3, <1>4, <1>5, <1>6

\* A crash ends every request that runs; committed orders and answers given
\* are as before.
LEMMA RequestCrash ==
  ASSUME IInv, AnswerInv, [Next]_vars, Crash, NEW r \in Requests
  PROVE  RequestInv(r)'
<1>0. RequestInv(r) /\ UNCHANGED <<orders, returned, nextItem, input>> /\ conns' = {}
  BY DEF AnswerInv, Crash, dbVars, localVars
<1>1. CASE pc[r] \in {"start", "done"}
  <2>1. Still(r)
    BY <1>0, <1>1 DEF Crash, Undo, Still
  <2> QED  BY <2>1, RequestStays
<1>2. CASE pc[r] \notin {"start", "done"}
  <2>1. pc'[r] = "done" /\ outcome'[r] = "Lost"
    BY <1>2 DEF Crash
  <2>2. r \in orders => taken'[r] = taken[r]
    BY CommittedRowsStay DEF IInv, KeyInv, OrdersAreCommitted
  <2>3. OrderIsWhole(r)'
    BY <1>0, <2>2, HoldsFrame DEF RequestInv, OrderIsWhole
  <2>4. RowsAreWhole(r)'
    <3>1. CASE pc[r] \in {"release", "publish"}
      <4>1. taken'[r] = taken[r]
        BY <3>1 DEF Crash, Undo
      <4> QED  BY <1>0, <3>1, <4>1, HoldsFrame DEF RequestInv, RowsAreWhole, Nothing
    <3>2. CASE pc[r] \notin {"release", "publish"}
      BY <1>2, <3>2 DEF Crash, Undo, RowsAreWhole, Nothing
    <3> QED  BY <3>1, <3>2
  <2>5. FailureIsUndone(r)'
    BY <2>1 DEF FailureIsUndone, Refusals, TxErrors, InsertErrors
  <2> QED  BY <1>0, <2>1, <2>3, <2>4, <2>5, RequestDone
<1> QED  BY <1>1, <1>2

\* AnswerInv is inductive relative to IInv.
LEMMA AnswerStep ==
  ASSUME IInv, IInv', AnswerInv, [Next]_vars
  PROVE  AnswerInv'
<1>1. ASSUME NEW r \in Requests, Start(r) \/ Handle(r) \/ DeadlockAbort(r) \/ Fail(r)
      PROVE  AnswerInv'
  <2>1. RequestInv(r)'
    BY <1>1, RequestBefore, RequestInside, RequestAfter DEF Handle, Fail
  <2>2. \A q \in Requests \ {r} : RequestInv(q)'
    BY <1>1, OthersStay, RequestStays
  <2> QED  BY <2>1, <2>2 DEF AnswerInv
<1>2. ASSUME UNCHANGED <<txVars, conns, pc, localVars, outcome, returned>>, orders' \subseteq orders
      PROVE  AnswerInv'
  <2>1. \A q \in Requests : Still(q)
    BY <1>2 DEF Still, txVars, localVars
  <2> QED  BY <2>1, RequestStays DEF AnswerInv
<1>3. CASE \/ \E o \in Requests : DeleteOrder(o)
           \/ \E p \in Products : DeleteProduct(p)
           \/ \E u \in Users : DeleteUser(u)
  BY <1>2, <1>3 DEF DeleteOrder, DeleteProduct, DeleteUser
<1>4. CASE CloseChannel \/ UNCHANGED vars
  BY <1>2, <1>4 DEF CloseChannel, vars, dbVars
<1>5. CASE Crash
  BY <1>5, RequestCrash DEF AnswerInv
<1> QED  BY <1>1, <1>3, <1>4, <1>5 DEF Next, Finished

\* Before any request arrives, nothing is held.
LEMMA AnswerInit == Init => AnswerInv
BY DEF Init, AnswerInv, RequestInv, LinesAreHeld, OrderIsWhole, RowsAreWhole, FailureIsUndone,
       DuplicateIsWhole, ConnIsInUse, BeforeTx, Refusals, TxErrors, InsertErrors

\* IInv and AnswerInv together are an invariant of the specification.
THEOREM AnswersInvariance == Spec => [](IInv /\ AnswerInv)
<1>1. IInv /\ AnswerInv /\ [Next]_vars => (IInv /\ AnswerInv)'
  BY TypeStep, StockStep, KeyStep, AnswerStep DEF IInv
<1> QED  BY InitIInv, AnswerInit, <1>1, PTL DEF Spec

\* create() is all or nothing: an order that exists has every line it was asked
\* for; a request that ended in whatever way, a crash, a broken connection and
\* an unanswered commit included, left all rows of its order or none; and an
\* error from before the commit left none and no order.
THEOREM WholeOrNothing == Spec => []AllOrNothing
<1>1. AnswerInv => AllOrNothing
  BY DEF AnswerInv, RequestInv, OrderIsWhole, RowsAreWhole, FailureIsUndone, AllOrNothing
<1>2. IInv /\ AnswerInv => AllOrNothing  BY <1>1
<1> QED  BY AnswersInvariance, <1>2, PTL

\* A duplicate answer of create() carries another request's order of the same
\* key, whole, whichever of its two lookups found it.
THEOREM DuplicatesAnswered == Spec => []DuplicateAnswer
<1>1. IInv /\ AnswerInv => DuplicateAnswer
  BY DEF AnswerInv, RequestInv, DuplicateIsWhole, DuplicateAnswer
<1> QED  BY AnswersInvariance, <1>1, PTL

\* An answered request of create() holds no row lock, and no pooled connection
\* unless its startTransaction() threw, which happens outside the try: whatever
\* breaks inside, the rollback and the commit included, finally is passed.
THEOREM NothingHeld == Spec => []NothingHeldAfterAnswer
<1>1. IInv /\ AnswerInv => NothingHeldAfterAnswer
  <2> SUFFICES ASSUME IInv, AnswerInv, NEW r \in Requests, pc[r] = "done"
               PROVE  /\ r \in conns => outcome[r] = "NotStarted"
                      /\ \A p \in Products : lock[p] # r
    BY DEF NothingHeldAfterAnswer
  <2>1. r \in conns => outcome[r] = "NotStarted"
    BY DEF AnswerInv, RequestInv, ConnIsInUse, InTx
  <2>2. \A p \in Products : lock[p] # r
    BY DEF IInv, StockInv, LocksAreHeld, Holding
  <2> QED  BY <2>1, <2>2
<1> QED  BY AnswersInvariance, <1>1, PTL

-----------------------------------------------------------------------------
(* create() implements the atomic specification.                           *)

Rec(r) == [id |-> r, key |-> Key(r), take |-> taken[r]]
Book == {Rec(r) : r \in orders}

\* Rows of committed orders do not change, so orders that are not touched stay
\* as they are in the book.
LEMMA BookShrinks ==
  ASSUME UNCHANGED <<stock, input>>, orders' \subseteq orders,
         \A r \in orders' : taken'[r] = taken[r]
  PROVE  Atomic!RemoveOrders
<1>1. \A r \in orders' : Rec(r)' = Rec(r)
  BY DEF Rec, Key
<1>2. Book' \subseteq Book
  BY <1>1 DEF Book
<1> QED  BY <1>2 DEF Book, Rec, Atomic!RemoveOrders

\* Commit is the step at which the order is placed, all of it at once.
LEMMA CommitPlaces ==
  ASSUME IInv, NEW r \in Requests, CommitRows(r)
  PROVE  Atomic!Next
<1> USE DEF IInv
<1>1. /\ pc[r] = "item"
      /\ stock' = [p \in Products |-> Visible(r, p)]
      /\ orders' = orders \cup {r}
      /\ UNCHANGED <<input, taken>>
  BY DEF CommitRows, localVars
<1>2. \A p \in Products : Visible(r, p) + taken[r][p] = stock[p]
  BY <1>1, CommittedValue DEF Holding
<1>3. \A p \in Products : taken[r][p] <= stock[p] /\ Visible(r, p) = stock[p] - taken[r][p]
  BY <1>2, VisibleType DEF TypeOK
<1>4. taken[r] \in [Products -> 0..MaxStock]
  <2>1. \A p \in Products : stock[p] <= MaxStock
    BY StockAssumption DEF StockInv, StockConservation, TypeOK
  <2> QED  BY <1>3, <2>1, StockAssumption DEF TypeOK
<1>5. stock' = [p \in Products |-> stock[p] - taken[r][p]]
  BY <1>1, <1>3
<1>6. Key(r) \in AllKeys
  BY InputsAssumption DEF TypeOK, OrderInput, Key
<1>7. InFlight(r)
  BY <1>1 DEF InFlight, KeyInv, NoOutcomeYet, BeforeTx, InsertErrors
<1>8. \A x \in Book : x.id # r /\ (Key(r) = NoKey \/ x.key # Key(r))
  <2> SUFFICES ASSUME NEW o \in orders
               PROVE  o # r /\ (Key(r) = NoKey \/ Key(o) # Key(r))
    BY DEF Book, Rec
  <2>1. o # r
    BY <1>1 DEF KeyInv, OrdersAreCommitted
  <2>2. Key(r) = NoKey \/ Key(o) # Key(r)
    BY <1>7 DEF KeyInv, KeyIsClaimed, KeyFree, SameIndexKey
  <2> QED  BY <2>1, <2>2
<1>9. Book' = Book \cup {Rec(r)}
  <2>1. \A q \in orders' : Rec(q)' = Rec(q)
    BY <1>1 DEF Rec, Key
  <2> QED  BY <1>1, <2>1 DEF Book
<1>10. PICK k \in AllKeys, take \in [Products -> 0..MaxStock] : k = Key(r) /\ take = taken[r]
  BY <1>4, <1>6
<1>11. Atomic!PlaceOrder(r, k, take)
  BY <1>3, <1>5, <1>8, <1>9, <1>10 DEF Atomic!PlaceOrder, Book, Rec
<1> QED  BY <1>11 DEF Atomic!Next

\* Every step is a step of the atomic specification or leaves it alone.
LEMMA StepImplements == IInv /\ [Next]_vars => [Atomic!Next]_(Atomic!vars)
<1> SUFFICES ASSUME IInv, [Next]_vars PROVE Atomic!Next
  BY DEF Atomic!Next
<1> USE DEF IInv
<1>0. \A o \in orders : pc[o] \in Over
  BY DEF KeyInv, OrdersAreCommitted
<1> DEFINE Commits(r) == Commit(r) \/ CommitUnanswered(r)
           Leaves(r) == (Start(r) \/ Handle(r) \/ DeadlockAbort(r) \/ Fail(r)) /\ ~Commits(r)
<1>1. ASSUME NEW r \in Requests, Commits(r) PROVE Atomic!Next
  BY <1>1, CommitPlaces DEF Commit, CommitUnanswered
<1>2. ASSUME NEW r \in Requests, Leaves(r)
      PROVE  UNCHANGED <<stock, orders, input>> /\ \A o \in orders : taken'[o] = taken[o]
  <2>1. UNCHANGED <<stock, orders, input>>
    BY <1>2 DEF Handle, Fail, Start, Lookup, FindUser, Connect, StartTransaction, InsertOrder,
         LockProduct, SaveItem, Publish, Rollback, Reread, ReleaseAndThrow, DeadlockAbort,
         StartTransactionFails, LoseConnection, ReadFails, dbVars, localVars
  <2>2. CASE SaveItem(r)
    BY <1>0, <2>1, <2>2 DEF SaveItem, TypeOK
  <2>3. CASE Rollback(r) \/ LoseConnection(r)
    BY <1>0, <2>1, <2>3 DEF Rollback, LoseConnection, Undo, TypeOK, InTx
  <2>4. CASE ~SaveItem(r) /\ ~Rollback(r) /\ ~LoseConnection(r)
    BY <1>2, <2>1, <2>4 DEF Handle, Fail, Start, Lookup, FindUser, Connect, StartTransaction,
         InsertOrder, LockProduct, Publish, Reread, ReleaseAndThrow, DeadlockAbort,
         StartTransactionFails, ReadFails, txVars
  <2> QED  BY <2>1, <2>2, <2>3, <2>4
<1>3. ASSUME NEW o \in Requests, DeleteOrder(o) PROVE Atomic!Next
  BY <1>3, BookShrinks DEF DeleteOrder, txVars, localVars, Atomic!Next
<1>4. ASSUME NEW u \in Users, DeleteUser(u) PROVE Atomic!Next
  BY <1>4, BookShrinks DEF DeleteUser, txVars, localVars, Atomic!Next
<1>5. ASSUME NEW p \in Products, DeleteProduct(p) PROVE Atomic!Next
  BY <1>5, BookShrinks DEF DeleteProduct, txVars, localVars, Atomic!Next
<1>6. CASE CloseChannel \/ UNCHANGED vars
  BY <1>6, BookShrinks DEF CloseChannel, vars, dbVars, txVars, localVars, Atomic!Next
<1>7. CASE Crash
  <2>1. UNCHANGED <<stock, orders, input>>
    BY <1>7 DEF Crash, dbVars, localVars
  <2>2. \A o \in orders : taken'[o] = taken[o]
    BY <1>0, <1>7 DEF Crash, Undo, TypeOK
  <2> QED  BY <2>1, <2>2, BookShrinks DEF Atomic!Next
<1>8. ASSUME NEW r \in Requests, Leaves(r) PROVE Atomic!Next
  BY <1>2, <1>8, BookShrinks DEF Atomic!Next
<1> QED
  BY <1>1, <1>3, <1>4, <1>5, <1>6, <1>7, <1>8 DEF Next, Finished

\* Whatever the interleaving, create() behaves on the committed tables as if
\* every order were placed in one indivisible step.
THEOREM Refinement == Spec => ImplementsAtomicOrders
<1>1. Init => Atomic!Init
  BY DEF Init, Atomic!Init
<1> QED  BY Invariance, StepImplements, <1>1, PTL DEF Spec, Atomic!Spec, ImplementsAtomicOrders
=============================================================================
