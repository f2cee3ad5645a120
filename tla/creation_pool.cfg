SPECIFICATION FairSpec
CONSTANTS
  Requests = {r1, r2, r3}
  Products = {book, pen}
  Users = {alice}
  Keys = {key1}
  alice = alice
  key1 = key1
  book = book
  pen = pen
  NoKey = NoKey
  EmptyKey = EmptyKey
  Nobody = Nobody
  Inputs <- MCSameKey
  MaxStock = 3
  InitialStock <- MCStock
  PoolSize = 2
  MaxCrashes = 0
  MaxFailures = 0
PROPERTY EveryRequestAnswered
CHECK_DEADLOCK FALSE
