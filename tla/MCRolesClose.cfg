\* A follower, and a broker that closes.
SPECIFICATION FairSpec
CONSTANTS
  c1 = c1
  c2 = c2
  Caller = {c1}
  MaxEpoch = 0
  MaxRequests = 1
PROPERTIES CloseReturns
CHECK_DEADLOCK FALSE
