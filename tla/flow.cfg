SPECIFICATION FlowSpec
CONSTANTS
  Ids = {a}
  Orders = {o1}
  a = a
  o1 = o1
  OrderOf <- MCOrderOf
  Existing = {}
  Malformed = {}
  Nulls = {}
  Slots = {s1, s2}
  NoMsg = NoMsg
  MaxAttempts = 2
  TopAttempt = 1
  MaxPublishes = 0
  MaxFailures = 2
  MaxRefusals = 1
  MaxCrashes = 1
  MaxCloses = 1
  MaxDeletes = 1
INVARIANT AnnouncedIsProcessed
PROPERTIES EveryMessageSettled EveryOrderSettled 
CHECK_DEADLOCK FALSE
