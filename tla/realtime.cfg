SPECIFICATION FairSpec
CONSTANTS
  OrderIds = {o1, o2}
  Versions = {1, 2}
  None = None
  MaxPublishes = 3
  Clients = {c1}
  Users = {alice, bob, support}
  Staff = {support}
  o1 = o1
  o2 = o2
  alice = alice
  bob = bob
  support = support
  Owner <- MCOwner
  Handshakes <- MCHandshakes
  WindowMs = 2
  MaxCalls = 1
  Horizon = 2
INVARIANTS TypeOK NewestIsNotSwallowed SubscribersSeeTheNewest MembersMayRead LeaversStayOut RateLimitHolds
PROPERTY NewestIsEmitted
