SPECIFICATION FairSpec
CONSTANTS
  Ids = {a, b, n}
  Orders = {o1}
  a = a
  b = b
  n = n
  o1 = o1
  OrderOf <- MCOrderOf
  Existing = {o1}
  Malformed = {b}
  Nulls = {n}
  Slots = {s1}
  NoMsg = NoMsg
  MaxAttempts = 2
  TopAttempt = 2
  MaxPublishes = 1
  MaxFailures = 0
  MaxRefusals = 1
  MaxCrashes = 0
  MaxCloses = 0
  MaxDeletes = 0
PROPERTY MalformedAreDeadLettered
