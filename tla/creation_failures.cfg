SPECIFICATION FairSpec
CONSTANTS
  Requests = {r1, r2}
  Products = {book, pen}
  Users = {alice}
  Keys = {key1}
  alice = alice
  key1 = key1
  book = book
  pen = pen
  NoKey = NoKey
  EmptyKey = EmptyKey
  Nobody = Nobody
  Inputs <- MCAllInputs
  MaxStock = 3
  InitialStock <- MCStock
  PoolSize = 2
  MaxCrashes = 1
  MaxFailures = 2
INVARIANTS AllOrNothing NothingHeldAfterAnswer
PROPERTIES ImplementsAtomicOrders EveryRequestAnswered
