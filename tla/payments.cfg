SPECIFICATION FairSpec
CONSTANTS
  Calls = {c1, c2}
  PaymentIds = {p1, p2, p3}
  OrderIds = {o1, o2}
  EmptyOrders = {e1}
  NoOrder = NoOrder
  c1 = c1
  c2 = c2
  key1 = key1
  o1 = o1
  o2 = o2
  e1 = e1
  Keys = {key1}
  NoKey = NoKey
  Inputs <- MCInputs
  Nobody = Nobody
  MaxRetries = 1
  MaxDrops = 2
  MaxRestarts = 1
  MaxOps = 2
INVARIANTS TypeOK OnePaymentPerKey AnswersArePayments
PROPERTIES StatusMovesForward OutcomesAreStable EveryCallAnswered
