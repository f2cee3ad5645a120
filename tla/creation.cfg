SPECIFICATION Spec
CONSTANTS
  Requests = {r1, r2, r3}
  Products = {book, pen}
  Users = {alice}
  Keys = {key1}
  alice = alice
  key1 = key1
  book = book
  pen = pen
  NoKey = NoKey
  EmptyKey = EmptyKey
  Nobody = Nobody
  Inputs <- MCInputs
  MaxStock = 3
  InitialStock <- MCStock
  PoolSize = 3
  MaxCrashes = 1
  MaxFailures = 0
SYMMETRY RequestSymmetry
INVARIANTS TypeOK StockConservation NoOversell OneOrderPerKey DuplicateAnswer
