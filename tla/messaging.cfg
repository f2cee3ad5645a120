SPECIFICATION Spec
CONSTANTS
  Ids = {a, b, x, n}
  Orders = {o1}
  a = a
  b = b
  n = n
  o1 = o1
  OrderOf <- MCOrderOf
  Existing = {o1}
  Malformed = {x}
  Nulls = {n}
  Slots = {s1, s2}
  NoMsg = NoMsg
  MaxAttempts = 2
  TopAttempt = 2
  MaxPublishes = 2
  MaxFailures = 1
  MaxRefusals = 1
  MaxCrashes = 1
  MaxCloses = 1
  MaxDeletes = 1
INVARIANTS TypeOK NoMessageLost AppliedOnce MarkersMatchStatus RetriesAreBounded DeliveriesAreAnswered
SYMMETRY Symmetry
CHECK_DEADLOCK FALSE
